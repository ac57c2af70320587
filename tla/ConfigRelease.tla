--------------------------- MODULE ConfigRelease ---------------------------
(***************************************************************************)
(* What the configuration centre promises about one (namespace, key) pair, *)
(* without tables, channels or requests: values are released one after the *)
(* other, gray rules are widened, and now and then a client is handed a    *)
(* version it may see. What a client holds is intact, is only ever         *)
(* replaced by another version, and comes from what was released unless a  *)
(* gray rule covers the client.                                            *)
(***************************************************************************)
EXTENDS ConfigTypes

VARIABLES
    releases,      \* the values released so far
    reach,         \* the largest gray percentage enabled so far
    view           \* the version each client holds, or None

releaseVars == <<releases, reach, view>>

MayHold(c, version) ==
    Intact(version) /\ (version.value \in releases \/ HitGray(c, reach))

Start ==
    /\ releases = {} /\ reach = 0
    /\ view = [c \in Clients |-> None]

(* A value goes live, or a rule reaches more clients. *)
Release ==
    /\ \E value \in Values : releases' = releases \cup {value}
    /\ UNCHANGED <<reach, view>>

WidenGray ==
    /\ reach' \in 0..100 /\ reach < reach'
    /\ UNCHANGED <<releases, view>>

Deliver(c) ==
    /\ \E version \in ConfigVersion :
          MayHold(c, version) /\ view' = [view EXCEPT ![c] = version]
    /\ UNCHANGED <<releases, reach>>

Step == Release \/ WidenGray \/ \E c \in Clients : Deliver(c)

Releasing == Start /\ [][Step]_releaseVars
=============================================================================
