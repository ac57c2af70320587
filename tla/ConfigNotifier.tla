--------------------------- MODULE ConfigNotifier ---------------------------
(***************************************************************************)
(* ConfigNotifier (server/notifier.go): the channels of the long-polling   *)
(* handlers and the RWMutex that guards them.                              *)
(*                                                                         *)
(* Notify walks the listeners under the READ lock, one non-blocking send   *)
(* per step: two notifications may interleave and handlers may receive     *)
(* while they run, but Subscribe and Unsubscribe (write lock) wait. Every  *)
(* handler has at most one subscription, so a channel is named after its   *)
(* handler. The module has no behaviour of its own: ConfigCenter conjoins  *)
(* these operations with those of their callers.                           *)
(***************************************************************************)
EXTENDS ConfigTypes

VARIABLES
    listeners,     \* the handlers whose channel is registered (and open)
    chan,          \* the version buffered in each channel (capacity 1), or None
    readers,       \* the admin requests inside Notify, which hold the read lock
    todo           \* the channels each of them has still to send to

notifierVars == <<listeners, chan, readers, todo>>

NotifierInit ==
    /\ listeners = {} /\ readers = {}
    /\ chan = [h \in Handlers |-> None]
    /\ todo = [a \in Admins |-> {}]

(* Mutant of WriteLockFree: Subscribe and Unsubscribe take no lock. *)
WriteLockIgnored == TRUE

(* n.mu.Lock() succeeds once no Notify is under way. *)
WriteLockFree == readers = {}

Subscribe(h) ==
    /\ WriteLockFree
    /\ listeners' = listeners \cup {h}
    /\ chan' = [chan EXCEPT ![h] = None]
    /\ UNCHANGED <<readers, todo>>

(* The channel leaves the list and is closed; what it held is dropped. *)
Unsubscribe(h) ==
    /\ WriteLockFree
    /\ listeners' = listeners \ {h}
    /\ chan' = [chan EXCEPT ![h] = None]
    /\ UNCHANGED <<readers, todo>>

Receive(h) ==
    /\ chan[h] # None
    /\ chan' = [chan EXCEPT ![h] = None]
    /\ UNCHANGED <<listeners, readers, todo>>

NotifyBegin(a) ==
    /\ readers' = readers \cup {a}
    /\ todo' = [todo EXCEPT ![a] = listeners]
    /\ UNCHANGED <<listeners, chan>>

(* Mutant of NotifySend: the loop ends at its first send. *)
NotifySendOnce(a, h, version) ==
    /\ h \in todo[a]
    /\ todo' = [todo EXCEPT ![a] = {}]
    /\ chan' = [chan EXCEPT ![h] = IF @ = None THEN version ELSE @]
    /\ UNCHANGED <<listeners, readers>>

(* A channel that still holds a version is skipped: the older one stays. *)
NotifySend(a, h, version) ==
    /\ h \in todo[a]
    /\ todo' = [todo EXCEPT ![a] = @ \ {h}]
    /\ chan' = [chan EXCEPT ![h] = IF @ = None THEN version ELSE @]
    /\ UNCHANGED <<listeners, readers>>

(* Mutant of NotifyEnd: the read lock is not released. *)
NotifyEndKeepsLock(a) ==
    /\ todo[a] = {}
    /\ UNCHANGED <<listeners, chan, readers, todo>>

NotifyEnd(a) ==
    /\ todo[a] = {}
    /\ readers' = readers \ {a}
    /\ UNCHANGED <<listeners, chan, todo>>

-----------------------------------------------------------------------------
NotifierTypeOK ==
    /\ listeners \subseteq Handlers
    /\ chan \in [Handlers -> ConfigVersion \cup {None}]
    /\ readers \subseteq Admins
    /\ todo \in [Admins -> SUBSET Handlers]

(* Notify never sends on a closed channel (in Go, a panic of the admin     *)
(* request): what it has still to send to is registered, hence open.       *)
NoSendOnClosedChannel == \A a \in Admins : todo[a] \subseteq listeners
=============================================================================
