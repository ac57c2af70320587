---------------------------- MODULE EtcdRegistry ----------------------------
(***************************************************************************)
(* Service registration (nexus-registry): processes that register          *)
(* instances in etcd under leases (nexus.go, registry/etcd/etcd.go), and   *)
(* etcd itself as far as the code uses it: keys attached to leases, leases *)
(* that are kept alive, revoked, or run out.                               *)
(*                                                                         *)
(* One service is modelled; its keys differ in the instance ID only. A     *)
(* host is one program that is started again and again, each time with one *)
(* of the instance lists its configuration files hold. Calls to etcd fail, *)
(* with or without having taken effect, up to a number of faults.          *)
(***************************************************************************)
EXTENDS Naturals, Sequences, Functions

CONSTANTS
    None,
    Hosts,         \* programs that register instances
    Multi,         \* those that call SetupMulti, the others call Setup
    IDs,           \* instance IDs
    Offers,        \* for each host, the lists of instances it may register
    MaxLeases,     \* BOUND: registrations ever begun
    MaxFaults      \* BOUND: failed calls, network partitions, closed watches

ASSUME RegistryAssumption ==
    /\ Multi \subseteq Hosts /\ None \notin IDs
    /\ MaxLeases \in Nat /\ MaxFaults \in Nat

VARIABLES
    kv,            \* etcd: the instance and the lease under each key, or None
    live,          \* etcd: the leases that run
    kept,          \* the leases some client keeps alive
    leases,        \* leases granted so far (bounded by MaxLeases)
    stage,         \* what each host's program is doing
    todo,          \* the instances it has still to register
    lease,         \* the lease, or the ID, its call to etcd is about
    registered,    \* EtcdRegistry.registered, per host: ID to lease
    current,       \* currentInstance (its ID), or None
    faults,        \* faults so far (bounded by MaxFaults)
    cutOff         \* history: leases that ran out although they were wanted

etcdVars == <<kv, live, kept>>
hostVars == <<stage, todo, lease, registered, current>>
vars == <<etcdVars, hostVars, leases, faults, cutOff>>

Stage == {"down", "grant", "put", "keepalive", "serving", "failed",
          "revoke", "delete", "lastRevoke", "lastDelete", "close", "closing"}

(* ServiceInstance.Validate fills in the missing fields. *)
Validate(inst) ==
    [id |-> IF inst.id = None THEN inst.address ELSE inst.id,
     address |-> inst.address,
     protocol |-> IF inst.protocol = None THEN "http" ELSE inst.protocol,
     weight |-> IF inst.weight = 0 THEN 1 ELSE inst.weight]

Raw == UNION {Range(offer) : offer \in UNION {Offers[h] : h \in Hosts}}

Offered == {Validate(inst) : inst \in Raw}

IDsOf(h) == {Validate(inst).id : inst \in UNION {Range(offer) : offer \in Offers[h]}}

(* A host registers some instances, each under an ID of its own (by        *)
(* default its address).                                                   *)
ASSUME OffersAssumption ==
    /\ \A h \in Hosts : \A offer \in Offers[h] :
          /\ offer \in Seq(Range(offer)) /\ offer # <<>>
          /\ \A i, j \in DOMAIN offer : Validate(offer[i]).id = Validate(offer[j]).id => i = j
    /\ \A h \in Hosts : IDsOf(h) \subseteq IDs
    /\ \A h1, h2 \in Hosts : h1 # h2 => IDsOf(h1) \cap IDsOf(h2) = {}

Init ==
    /\ kv = [id \in IDs |-> None] /\ live = {} /\ kept = {} /\ leases = 0
    /\ stage = [h \in Hosts |-> "down"]
    /\ todo = [h \in Hosts |-> <<>>]
    /\ lease = [h \in Hosts |-> None]
    /\ registered = [h \in Hosts |-> [id \in {} |-> None]]
    /\ current = [h \in Hosts |-> None]
    /\ faults = 0 /\ cutOff = {}

Goto(h, next) == stage' = [stage EXCEPT ![h] = next]

Fault == faults < MaxFaults /\ faults' = faults + 1

LeasesOf(h) == {registered[h][id] : id \in DOMAIN registered[h]}

-----------------------------------------------------------------------------
(* etcd.                                                                   *)

KeysOf(l) == {id \in IDs : kv[id] # None /\ kv[id].lease = l}

(* A lease ends, and with it the keys attached to it. *)
EndLease(l) ==
    /\ live' = live \ {l}
    /\ kv' = [id \in IDs |-> IF id \in KeysOf(l) THEN None ELSE kv[id]]

Wanted(l) == l \in kept \/ \E h \in Hosts : stage[h] \in {"put", "keepalive"} /\ lease[h] = l

(* A lease nobody keeps alive runs out. *)
LeaseExpire(l) ==
    /\ l \in live /\ ~ Wanted(l)
    /\ EndLease(l)
    /\ UNCHANGED <<kept, hostVars, leases, faults, cutOff>>

(* Or its client is cut off for longer than the TTL: the keepalive channel *)
(* closes, which Register's goroutine notes in the log, and that is all.   *)
Partition(l) ==
    /\ l \in live /\ Wanted(l) /\ Fault
    /\ EndLease(l)
    /\ kept' = kept \ {l}
    /\ cutOff' = cutOff \cup {l}
    /\ UNCHANGED <<hostVars, leases>>

-----------------------------------------------------------------------------
(* Setup and SetupMulti: connect, then register the instances in turn.     *)

Connect(h) ==
    /\ stage[h] = "down"
    /\ \E offer \in Offers[h] :
          /\ leases + Len(offer) <= MaxLeases
          /\ todo' = [todo EXCEPT ![h] = offer]
    /\ Goto(h, "grant")
    /\ registered' = [registered EXCEPT ![h] = [id \in {} |-> None]]
    /\ current' = [current EXCEPT ![h] = None]
    /\ UNCHANGED <<etcdVars, lease, leases, faults, cutOff>>

Instance(h) == Validate(Head(todo[h]))

Grant(h) ==
    /\ stage[h] = "grant" /\ leases < MaxLeases /\ Goto(h, "put")
    /\ leases' = leases + 1
    /\ live' = live \cup {leases + 1}
    /\ lease' = [lease EXCEPT ![h] = leases + 1]
    /\ UNCHANGED <<kv, kept, todo, registered, current, faults, cutOff>>

(* Mutants of PutInstance: the key is put without a lease, *)
PutNoLease(h) == kv' = [kv EXCEPT ![Instance(h).id] = [instance |-> Instance(h), lease |-> 0]]

(* a key that is there stays under the lease it has, *)
PutSameLease(h) ==
    LET old == kv[Instance(h).id] IN
    kv' = [kv EXCEPT ![Instance(h).id] =
              [instance |-> Instance(h), lease |-> IF old = None THEN lease[h] ELSE old.lease]]

(* and the instances of one host share its first lease. *)
PutSharedLease(h) ==
    \E l \in IF LeasesOf(h) = {} THEN {lease[h]} ELSE LeasesOf(h) :
       kv' = [kv EXCEPT ![Instance(h).id] = [instance |-> Instance(h), lease |-> l]]

(* A put moves the key to the new lease. *)
PutInstance(h) ==
    kv' = [kv EXCEPT ![Instance(h).id] = [instance |-> Instance(h), lease |-> lease[h]]]

Put(h) ==
    /\ stage[h] = "put" /\ lease[h] \in live /\ Goto(h, "keepalive")
    /\ PutInstance(h)
    /\ UNCHANGED <<live, kept, todo, lease, registered, current, leases, faults, cutOff>>

(* Grant or Put fails, or times out with its effect; Setup returns the     *)
(* error, and what Register has done so far stays.                         *)
RegisterFails(h) ==
    /\ stage[h] \in {"grant", "put"} /\ Goto(h, "failed")
    /\ \/ stage[h] = "put" /\ lease[h] \notin live /\ UNCHANGED <<kv, faults>>
       \/ Fault /\ UNCHANGED kv
       \/ stage[h] = "put" /\ lease[h] \in live /\ Fault /\ PutInstance(h)
    /\ UNCHANGED <<live, kept, todo, lease, registered, current, leases, cutOff>>

(* KeepAlive, and the registration is recorded. *)
KeepAlive(h) ==
    /\ stage[h] = "keepalive"
    /\ Goto(h, IF Len(todo[h]) > 1 THEN "grant" ELSE "serving")
    /\ kept' = kept \cup ({lease[h]} \cap live)
    /\ LET id == Instance(h).id IN
       /\ registered' = [registered EXCEPT ![h] =
             [i \in DOMAIN @ \cup {id} |-> IF i = id THEN lease[h] ELSE @[i]]]
       /\ current' = [current EXCEPT ![h] = IF h \in Multi THEN None ELSE id]
    /\ todo' = [todo EXCEPT ![h] = Tail(@)]
    /\ lease' = [lease EXCEPT ![h] = None]
    /\ UNCHANGED <<kv, live, leases, faults, cutOff>>

-----------------------------------------------------------------------------
(* Deregister and Close.                                                   *)

(* Mutant of TakeRegistration: the keepalive goes on. *)
TakeStillKept(h, id, revoke, delete) ==
    /\ Goto(h, IF id \in DOMAIN registered[h] THEN revoke ELSE delete)
    /\ lease' = [lease EXCEPT ![h] = IF id \in DOMAIN registered[h] THEN registered[h][id] ELSE id]
    /\ registered' = [registered EXCEPT ![h] = [i \in DOMAIN @ \ {id} |-> @[i]]]
    /\ UNCHANGED kept

(* Deregister, first half, under the lock: the record is taken out and the *)
(* keepalive cancelled; without a record the key itself will be deleted.   *)
TakeRegistration(h, id, revoke, delete) ==
    IF id \in DOMAIN registered[h]
    THEN /\ Goto(h, revoke)
         /\ lease' = [lease EXCEPT ![h] = registered[h][id]]
         /\ kept' = kept \ {registered[h][id]}
         /\ registered' = [registered EXCEPT ![h] = [i \in DOMAIN @ \ {id} |-> @[i]]]
    ELSE /\ Goto(h, delete)
         /\ lease' = [lease EXCEPT ![h] = id]
         /\ UNCHANGED <<kept, registered>>

(* The program may deregister an instance of its own before it ends. *)
Deregister(h) ==
    /\ stage[h] = "serving" /\ current[h] # None
    /\ TakeRegistration(h, current[h], "revoke", "delete")
    /\ UNCHANGED <<kv, live, todo, current, leases, faults, cutOff>>

(* nexus.Shutdown deregisters the current instance, if Setup set one. *)
Shutdown(h) ==
    /\ stage[h] \in {"serving", "failed"}
    /\ IF current[h] # None
       THEN TakeRegistration(h, current[h], "lastRevoke", "lastDelete")
       ELSE Goto(h, "close") /\ UNCHANGED <<kept, lease, registered>>
    /\ current' = [current EXCEPT ![h] = None]
    /\ UNCHANGED <<kv, live, todo, leases, faults, cutOff>>

(* Deregister, second half: Revoke or Delete, which may fail. *)
FinishDeregister(h) ==
    /\ stage[h] \in {"revoke", "delete", "lastRevoke", "lastDelete"}
    /\ Goto(h, IF stage[h] \in {"revoke", "delete"} THEN "serving" ELSE "close")
    /\ \/ /\ stage[h] \in {"revoke", "lastRevoke"} /\ EndLease(lease[h])
          /\ UNCHANGED faults
       \/ /\ stage[h] \in {"delete", "lastDelete"} /\ kv' = [kv EXCEPT ![lease[h]] = None]
          /\ UNCHANGED <<live, faults>>
       \/ Fault /\ UNCHANGED <<kv, live>>
    /\ lease' = [lease EXCEPT ![h] = None]
    /\ UNCHANGED <<kept, todo, registered, current, leases, cutOff>>

(* Close, under the lock: the keepalives end and the records are moved to  *)
(* a local map, which here keeps the name registered. *)
Close(h) ==
    /\ stage[h] = "close" /\ Goto(h, "closing")
    /\ kept' = kept \ LeasesOf(h)
    /\ UNCHANGED <<kv, live, todo, lease, registered, current, leases, faults, cutOff>>

(* Then the leases are revoked one by one; a failure is logged. *)
CloseRevoke(h) ==
    /\ stage[h] = "closing"
    /\ \E id \in DOMAIN registered[h] :
          /\ \/ EndLease(registered[h][id]) /\ UNCHANGED faults
             \/ Fault /\ UNCHANGED <<kv, live>>
          /\ registered' = [registered EXCEPT ![h] = [i \in DOMAIN @ \ {id} |-> @[i]]]
    /\ UNCHANGED <<kept, stage, todo, lease, current, leases, cutOff>>

CloseDone(h) ==
    /\ stage[h] = "closing" /\ registered[h] = [id \in {} |-> None] /\ Goto(h, "down")
    /\ todo' = [todo EXCEPT ![h] = <<>>]
    /\ lease' = [lease EXCEPT ![h] = None]
    /\ UNCHANGED <<etcdVars, registered, current, leases, faults, cutOff>>

(* The program dies (a failed MustSetup does, too). *)
Crash(h) ==
    /\ stage[h] # "down" /\ Goto(h, "down")
    /\ kept' = kept \ LeasesOf(h)
    /\ todo' = [todo EXCEPT ![h] = <<>>]
    /\ lease' = [lease EXCEPT ![h] = None]
    /\ registered' = [registered EXCEPT ![h] = [id \in {} |-> None]]
    /\ current' = [current EXCEPT ![h] = None]
    /\ UNCHANGED <<kv, live, leases, faults, cutOff>>

HostStep(h) ==
    \/ Connect(h) \/ Grant(h) \/ Put(h) \/ RegisterFails(h) \/ KeepAlive(h)
    \/ Deregister(h) \/ Shutdown(h) \/ FinishDeregister(h)
    \/ Close(h) \/ CloseRevoke(h) \/ CloseDone(h) \/ Crash(h)

EtcdStep == \E l \in live : LeaseExpire(l) \/ Partition(l)

Next == EtcdStep \/ \E h \in Hosts : HostStep(h)

Spec == Init /\ [][Next]_vars

(* etcd lets leases run out that nobody keeps alive. *)
FairSpec == Spec /\ \A l \in 1..MaxLeases : WF_vars(LeaseExpire(l))

-----------------------------------------------------------------------------
(* Types of the state; a lease is granted once, and keeps one key.         *)
Entry == [instance : Offered, lease : 1..MaxLeases]

ASSUME NoneAssumption == None \notin Offered /\ None \notin Entry

TypeOK ==
    /\ kv \in [IDs -> Entry \cup {None}]
    /\ leases \in 0..MaxLeases /\ live \subseteq 1..leases /\ kept \subseteq live
    /\ cutOff \subseteq 1..leases /\ faults \in 0..MaxFaults
    /\ stage \in [Hosts -> Stage]
    /\ current \in [Hosts -> IDs \cup {None}]
    /\ \A id \in IDs : kv[id] # None => kv[id].instance.id = id /\ kv[id].lease \in live

(* A registered instance is listed under its own lease until it is         *)
(* deregistered, unless its client was cut off from etcd: no old lease of  *)
(* a crashed predecessor, and no call that failed, takes the key away.     *)
RegisteredIsListed ==
    \A h \in Hosts : stage[h] # "closing" => \A id \in DOMAIN registered[h] :
        registered[h][id] \notin cutOff =>
            kv[id] # None /\ kv[id].lease = registered[h][id]

(* When a host's program has ended - cleanly, after failed calls, or by a  *)
(* crash at any point - then unless it starts again its instances leave    *)
(* etcd, and no lease of it is kept alive.                                 *)
DepartedAreDropped ==
    \A h \in Hosts : \A id \in IDsOf(h) :
        stage[h] = "down" ~> (stage[h] # "down" \/ kv[id] = None)

(* Registration implements the directory that discovery relies on. *)
Abstract == INSTANCE Directory WITH
    Instances <- Offered,
    listed <- [id \in IDs |-> IF kv[id] = None THEN None ELSE kv[id].instance]

ImplementsDirectory == Abstract!Changing
=============================================================================
