----------------------------- MODULE Directory ------------------------------
(***************************************************************************)
(* What service registration promises to those who discover: a directory   *)
(* of at most one instance per ID, in which one entry changes at a time,   *)
(* and only to an instance some host offers. EtcdRegistry implements it;   *)
(* ResolverPool reads and watches it.                                      *)
(***************************************************************************)
EXTENDS Naturals

CONSTANTS
    None,
    IDs,           \* instance IDs
    Instances      \* the instances, with their IDs, that hosts may register

VARIABLE listed    \* the instance under each ID, or None

DirectoryInit == listed = [id \in IDs |-> None]

Publish(inst) == listed' = [listed EXCEPT ![inst.id] = inst]

Withdraw(id) ==
    /\ listed[id] # None
    /\ listed' = [listed EXCEPT ![id] = None]

Change == (\E inst \in Instances : Publish(inst)) \/ \E id \in IDs : Withdraw(id)

Changing == DirectoryInit /\ [][Change]_listed
=============================================================================
