-------------------------- MODULE RegistryProofs ---------------------------
(***************************************************************************)
(* Proofs about EtcdRegistry, for any hosts, instance lists, number of     *)
(* registrations and number of faults.                                     *)
(***************************************************************************)
EXTENDS EtcdRegistry, TLAPS

(* A host's call to etcd is about a lease that nobody else uses. *)
Pending(h) == stage[h] \in {"put", "keepalive", "revoke", "lastRevoke"}

HostTypes ==
    /\ todo \in [Hosts -> Seq(Raw)]
    /\ DOMAIN lease = Hosts /\ DOMAIN registered = Hosts
    /\ \A h \in Hosts :
          /\ stage[h] \in {"grant", "put", "keepalive"} => todo[h] # <<>>
          /\ \A i \in DOMAIN todo[h] : Validate(todo[h][i]).id \in IDsOf(h)
          /\ Pending(h) => lease[h] \in 1..leases
          /\ stage[h] \in {"delete", "lastDelete"} => lease[h] \in IDsOf(h)
          /\ current[h] # None => current[h] \in IDsOf(h)
          /\ DOMAIN registered[h] \subseteq IDsOf(h)
          /\ \A id \in DOMAIN registered[h] : registered[h][id] \in 1..leases

(* No lease is used twice. *)
LeasesApart ==
    /\ \A h1, h2 \in Hosts : Pending(h1) /\ Pending(h2) /\ lease[h1] = lease[h2] => h1 = h2
    /\ \A h1, h2 \in Hosts : Pending(h1) =>
          \A id \in DOMAIN registered[h2] : registered[h2][id] # lease[h1]
    /\ \A h1, h2 \in Hosts :
          \A i \in DOMAIN registered[h1], j \in DOMAIN registered[h2] :
             registered[h1][i] = registered[h2][j] => h1 = h2 /\ i = j

(* The keepalive of a lease ends before the lease is revoked. *)
RevokedLast ==
    \A h \in Hosts :
        /\ stage[h] \in {"revoke", "lastRevoke"} => lease[h] \notin kept
        /\ stage[h] = "closing" => \A id \in DOMAIN registered[h] : registered[h][id] \notin kept

(* A lease has one key at most, and none before the put. *)
OneKey ==
    /\ \A i, j \in IDs : kv[i] # None /\ kv[j] # None /\ kv[i].lease = kv[j].lease => i = j
    /\ \A h \in Hosts : stage[h] = "put" =>
          \A id \in IDs : kv[id] # None => kv[id].lease # lease[h]

RegistryInv == TypeOK /\ HostTypes /\ LeasesApart /\ RevokedLast /\ OneKey

-----------------------------------------------------------------------------
(* What a host is about to register. *)
LEMMA InstanceType ==
  ASSUME TypeOK, HostTypes, NEW h \in Hosts, stage[h] \in {"grant", "put", "keepalive"}
  PROVE  Instance(h) \in Offered /\ Instance(h).id \in IDsOf(h) /\ Instance(h).id \in IDs
  <1>1. todo[h] \in Seq(Raw) /\ todo[h] # <<>>
    BY DEF HostTypes
  <1>2. Head(todo[h]) \in Raw /\ Head(todo[h]) = todo[h][1] /\ 1 \in DOMAIN todo[h]
    BY <1>1
  <1>3. Validate(todo[h][1]).id \in IDsOf(h)
    BY <1>2 DEF HostTypes
  <1>4. IDsOf(h) \subseteq IDs
    BY OffersAssumption
  <1> QED BY <1>2, <1>3, <1>4 DEF Instance, Offered

(* The end of a lease that nobody keeps alive. *)
LEMMA EndLeaseKeeps ==
  ASSUME RegistryInv, NEW l, l \notin kept', kept' \subseteq kept, EndLease(l), leases' = leases
  PROVE  /\ kv' \in [IDs -> Entry \cup {None}] /\ live' \subseteq 1..leases' /\ kept' \subseteq live'
         /\ \A id \in IDs : kv'[id] # None => /\ kv'[id] = kv[id]
                                              /\ kv'[id].instance.id = id /\ kv'[id].lease \in live'
  BY DEF EndLease, KeysOf, RegistryInv, TypeOK

LEMMA PutKeeps ==
  ASSUME RegistryInv, NEW h \in Hosts, stage[h] = "put", lease[h] \in live, PutInstance(h),
         live' = live
  PROVE  /\ kv' \in [IDs -> Entry \cup {None}]
         /\ \A id \in IDs : kv'[id] # None => kv'[id].instance.id = id /\ kv'[id].lease \in live'
         /\ \A id \in IDs : kv'[id] = IF id = Instance(h).id
                                     THEN [instance |-> Instance(h), lease |-> lease[h]] ELSE kv[id]
  <1>1. Instance(h) \in Offered /\ Instance(h).id \in IDs
    BY InstanceType DEF RegistryInv
  <1>2. lease[h] \in 1..MaxLeases
    <2>1. leases \in 0..MaxLeases /\ live \subseteq 1..leases
      BY DEF RegistryInv, TypeOK
    <2>2. MaxLeases \in Nat
      BY RegistryAssumption
    <2>3. leases \in Nat /\ leases <= MaxLeases
      BY <2>1, <2>2
    <2>5. lease[h] \in 1..leases
      BY <2>1
    <2>4. \A n \in 1..leases : n \in 1..MaxLeases
      BY <2>2, <2>3
    <2> QED BY <2>4, <2>5
  <1>3. [instance |-> Instance(h), lease |-> lease[h]] \in Entry
    BY <1>1, <1>2 DEF Entry
  <1> QED BY <1>1, <1>3 DEF PutInstance, RegistryInv, TypeOK

-----------------------------------------------------------------------------
(* Steps preserve the invariant.                                           *)

LEMMA RegistryInit == Init => RegistryInv
  <1> SUFFICES ASSUME Init PROVE RegistryInv
    OBVIOUS
  <1>1. TypeOK
    BY RegistryAssumption DEF Init, TypeOK, Stage
  <1>2. HostTypes
    BY DEF Init, HostTypes, Pending
  <1>3. LeasesApart /\ RevokedLast /\ OneKey
    BY DEF Init, LeasesApart, RevokedLast, OneKey, Pending
  <1> QED BY <1>1, <1>2, <1>3 DEF RegistryInv

LEMMA EtcdKeeps == ASSUME RegistryInv, EtcdStep PROVE RegistryInv'
  <1>1. PICK l \in live : LeaseExpire(l) \/ Partition(l)
    BY DEF EtcdStep
  <1>2. /\ l \notin kept' /\ kept' \subseteq kept /\ EndLease(l)
        /\ UNCHANGED <<stage, todo, lease, registered, current, leases>>
    BY <1>1 DEF LeaseExpire, Partition, Wanted, hostVars
  <1>3. /\ kv' \in [IDs -> Entry \cup {None}] /\ live' \subseteq 1..leases' /\ kept' \subseteq live'
        /\ \A id \in IDs : kv'[id] # None => /\ kv'[id] = kv[id]
                                             /\ kv'[id].instance.id = id /\ kv'[id].lease \in live'
    BY <1>2, EndLeaseKeeps
  <1>4. cutOff' \subseteq 1..leases /\ faults' \in 0..MaxFaults
    <2>1. MaxFaults \in Nat /\ faults \in 0..MaxFaults /\ cutOff \subseteq 1..leases
          /\ live \subseteq 1..leases
      BY RegistryAssumption DEF RegistryInv, TypeOK
    <2>2. cutOff' = cutOff \/ cutOff' = cutOff \cup {l}
      BY <1>1 DEF LeaseExpire, Partition
    <2>3. faults' = faults \/ (faults < MaxFaults /\ faults' = faults + 1)
      BY <1>1 DEF LeaseExpire, Partition, Fault
    <2>4. cutOff' \subseteq 1..leases
      BY <2>1, <2>2
    <2>5. faults' \in 0..MaxFaults
      BY <2>1, <2>3
    <2> QED BY <2>4, <2>5
  <1>5. TypeOK'
    BY <1>2, <1>3, <1>4 DEF RegistryInv, TypeOK
  <1>6. HostTypes' /\ LeasesApart' /\ RevokedLast' /\ OneKey'
    BY <1>2, <1>3 DEF RegistryInv, HostTypes, LeasesApart, RevokedLast, OneKey, Pending
  <1> QED BY <1>5, <1>6 DEF RegistryInv

(* Connect, and a crash: nothing is registered. *)
LEMMA RestartKeeps ==
  ASSUME RegistryInv, NEW h \in Hosts, Connect(h) \/ Crash(h)
  PROVE  RegistryInv'
  <1>1. /\ kept' \subseteq kept /\ registered' = [registered EXCEPT ![h] = [id \in {} |-> None]]
        /\ current' = [current EXCEPT ![h] = None]
        /\ UNCHANGED <<kv, live, leases, faults, cutOff>>
    BY DEF Connect, Crash, etcdVars
  <1>2. /\ \E next \in {"grant", "down"} : stage' = [stage EXCEPT ![h] = next]
        /\ \E l : lease' = [lease EXCEPT ![h] = l] \/ lease' = lease
    BY DEF Connect, Crash, Goto
  <1>3. /\ todo' \in [Hosts -> Seq(Raw)] /\ (stage'[h] = "grant" => todo'[h] # <<>>)
        /\ \A i \in DOMAIN todo'[h] : Validate(todo'[h][i]).id \in IDsOf(h)
        /\ \A r \in Hosts : r # h => todo'[r] = todo[r]
    <2>1. todo \in [Hosts -> Seq(Raw)] /\ stage \in [Hosts -> Stage]
      BY DEF RegistryInv, TypeOK, HostTypes
    <2>2. CASE Connect(h)
      <3>1. PICK offer \in Offers[h] : todo' = [todo EXCEPT ![h] = offer]
        BY <2>2 DEF Connect
      <3>2. offer \in Seq(Range(offer)) /\ offer # <<>>
        BY OffersAssumption
      <3>3. Range(offer) \subseteq Raw
        BY DEF Raw
      <3>4. offer \in Seq(Raw)
        BY <3>2, <3>3
      <3>5. \A i \in DOMAIN offer : Validate(offer[i]).id \in IDsOf(h)
        BY DEF IDsOf, Range
      <3> QED BY <2>1, <3>1, <3>2, <3>4, <3>5
    <2>3. CASE Crash(h)
      BY <2>1, <2>3 DEF Crash, Goto
    <2> QED BY <2>2, <2>3
  <1>4. TypeOK'
    BY <1>1, <1>2 DEF RegistryInv, TypeOK, Stage
  <1>5. HostTypes'
    BY <1>1, <1>2, <1>3 DEF RegistryInv, TypeOK, HostTypes, Pending
  <1>6. LeasesApart' /\ RevokedLast' /\ OneKey'
    BY <1>1, <1>2 DEF RegistryInv, TypeOK, HostTypes, LeasesApart, RevokedLast, OneKey, Pending
  <1> QED BY <1>4, <1>5, <1>6 DEF RegistryInv

LEMMA GrantKeeps == ASSUME RegistryInv, NEW h \in Hosts, Grant(h) PROVE RegistryInv'
  <1>0. /\ leases \in Nat /\ leases' = leases + 1 /\ leases' \in 0..MaxLeases
        /\ live \subseteq 1..leases /\ cutOff \subseteq 1..leases /\ MaxLeases \in Nat
    BY RegistryAssumption DEF Grant, RegistryInv, TypeOK
  <1>1. \A n : n \in 1..leases => n \in 1..leases' /\ n # leases'
    BY <1>0
  <1>2. leases' \in 1..leases' /\ live' = live \cup {leases'} /\ lease' = [lease EXCEPT ![h] = leases']
    BY <1>0 DEF Grant
  <1>3. stage[h] = "grant" /\ stage' = [stage EXCEPT ![h] = "put"]
        /\ UNCHANGED <<kv, kept, todo, registered, current, faults, cutOff>>
    BY DEF Grant, Goto
  <1>4. live' \subseteq 1..leases' /\ cutOff' \subseteq 1..leases' /\ kept' \subseteq live'
    BY <1>0, <1>1, <1>2, <1>3 DEF RegistryInv, TypeOK
  <1>5. TypeOK'
    BY <1>0, <1>2, <1>3, <1>4 DEF RegistryInv, TypeOK, Stage
  <1>6. HostTypes'
    BY <1>1, <1>2, <1>3 DEF RegistryInv, TypeOK, HostTypes, Pending
  <1>7. LeasesApart'
    BY <1>1, <1>2, <1>3 DEF RegistryInv, TypeOK, HostTypes, LeasesApart, Pending
  <1>8. RevokedLast'
    BY <1>2, <1>3 DEF RegistryInv, TypeOK, HostTypes, RevokedLast
  <1>9. \A id \in IDs : kv[id] # None => kv[id].lease \in 1..leases
    BY <1>0 DEF RegistryInv, TypeOK
  <1>10. OneKey'
    BY <1>1, <1>2, <1>3, <1>9 DEF RegistryInv, TypeOK, HostTypes, OneKey
  <1> QED BY <1>5, <1>6, <1>7, <1>8, <1>10 DEF RegistryInv

LEMMA PutKeepsInv ==
  ASSUME RegistryInv, NEW h \in Hosts, Put(h) \/ RegisterFails(h)
  PROVE  RegistryInv'
  <1>1. /\ stage[h] \in {"grant", "put"}
        /\ \E next \in {"keepalive", "failed"} :
              stage' = [stage EXCEPT ![h] = next] /\ (stage[h] = "put" \/ next = "failed")
        /\ UNCHANGED <<live, kept, todo, lease, registered, current, leases, cutOff>>
    BY DEF Put, RegisterFails, Goto
  <1>2. faults' \in 0..MaxFaults
    <2>1. MaxFaults \in Nat /\ faults \in 0..MaxFaults
      BY RegistryAssumption DEF RegistryInv, TypeOK
    <2> QED BY <2>1 DEF Put, RegisterFails, Fault
  <1>3. kv' = kv \/ (stage[h] = "put" /\ lease[h] \in live /\ PutInstance(h))
    BY DEF Put, RegisterFails
  <1>4. /\ kv' \in [IDs -> Entry \cup {None}]
        /\ \A id \in IDs : kv'[id] # None => kv'[id].instance.id = id /\ kv'[id].lease \in live'
    BY <1>1, <1>3, PutKeeps DEF RegistryInv, TypeOK
  <1>5. TypeOK'
    BY <1>1, <1>2, <1>4 DEF RegistryInv, TypeOK, Stage
  <1>6. HostTypes' /\ LeasesApart' /\ RevokedLast'
    BY <1>1 DEF RegistryInv, TypeOK, HostTypes, LeasesApart, RevokedLast, Pending
  <1>7. OneKey'
    <2>1. CASE kv' = kv
      BY <1>1, <2>1 DEF RegistryInv, TypeOK, OneKey
    <2>2. CASE stage[h] = "put" /\ lease[h] \in live /\ PutInstance(h)
      <3>1. \A id \in IDs : kv'[id] = IF id = Instance(h).id
                                      THEN [instance |-> Instance(h), lease |-> lease[h]] ELSE kv[id]
        BY <1>1, <2>2, PutKeeps
      <3>2. \A id \in IDs : kv'[id] # None => \/ kv'[id].lease = lease[h] /\ id = Instance(h).id
                                              \/ kv'[id] = kv[id] /\ id # Instance(h).id
        BY <3>1
      <3>3. \A r \in Hosts : stage'[r] = "put" => r # h /\ stage[r] = "put" /\ lease[r] # lease[h]
        <4>1. stage \in [Hosts -> Stage]
          BY DEF RegistryInv, TypeOK
        <4>2. \A r \in Hosts : stage'[r] = "put" => r # h /\ stage[r] = "put"
          BY <1>1, <4>1
        <4>3. \A r \in Hosts : stage[r] = "put" /\ r # h => lease[r] # lease[h]
          BY <2>2 DEF RegistryInv, LeasesApart, Pending
        <4> QED BY <4>2, <4>3
      <3>4. \A i \in IDs : kv[i] # None => kv[i].lease # lease[h]
        BY <2>2 DEF RegistryInv, OneKey
      <3>5. ASSUME NEW i \in IDs, NEW j \in IDs, kv'[i] # None, kv'[j] # None,
                   kv'[i].lease = kv'[j].lease
            PROVE  i = j
        BY <3>2, <3>4, <3>5 DEF RegistryInv, OneKey
      <3>6. ASSUME NEW r \in Hosts, stage'[r] = "put", NEW i \in IDs, kv'[i] # None
            PROVE  kv'[i].lease # lease'[r]
        <4>1. stage[r] = "put" /\ lease[r] # lease[h] /\ lease'[r] = lease[r]
          BY <1>1, <3>3, <3>6
        <4>2. kv[i] # None => kv[i].lease # lease[r]
          BY <4>1 DEF RegistryInv, OneKey
        <4> QED BY <3>2, <3>6, <4>1, <4>2
      <3> QED BY <3>5, <3>6 DEF OneKey
    <2> QED BY <1>3, <2>1, <2>2
  <1> QED BY <1>5, <1>6, <1>7 DEF RegistryInv

LEMMA KeepAliveKeeps == ASSUME RegistryInv, NEW h \in Hosts, KeepAlive(h) PROVE RegistryInv'
  <1> DEFINE id == Instance(h).id
  <1>0. /\ stage[h] = "keepalive" /\ id \in IDsOf(h) /\ id \in IDs /\ Pending(h)
        /\ lease[h] \in 1..leases
    BY InstanceType DEF KeepAlive, RegistryInv, HostTypes, Pending
  <1>1. /\ stage' = [stage EXCEPT ![h] = IF Len(todo[h]) > 1 THEN "grant" ELSE "serving"]
        /\ kept' = kept \cup ({lease[h]} \cap live)
        /\ todo' = [todo EXCEPT ![h] = Tail(todo[h])] /\ lease' = [lease EXCEPT ![h] = None]
        /\ current' = [current EXCEPT ![h] = IF h \in Multi THEN None ELSE id]
        /\ UNCHANGED <<kv, live, leases, faults, cutOff>>
    BY DEF KeepAlive, Goto
  <1>2. registered' = [registered EXCEPT ![h] =
             [i \in DOMAIN registered[h] \cup {id} |->
                IF i = id THEN lease[h] ELSE registered[h][i]]]
    BY DEF KeepAlive
  <1>3. /\ DOMAIN registered'[h] = DOMAIN registered[h] \cup {id}
        /\ registered'[h][id] = lease[h] /\ DOMAIN registered' = Hosts
        /\ \A i \in DOMAIN registered[h] : i # id => registered'[h][i] = registered[h][i]
        /\ \A r \in Hosts : r # h => registered'[r] = registered[r]
    BY <1>2 DEF RegistryInv, HostTypes
  <1>4. /\ Tail(todo[h]) \in Seq(Raw) /\ (Len(todo[h]) > 1 => Tail(todo[h]) # <<>>)
        /\ \A i \in DOMAIN Tail(todo[h]) : i + 1 \in DOMAIN todo[h] /\ Tail(todo[h])[i] = todo[h][i + 1]
    <2>1. todo[h] \in Seq(Raw) /\ todo[h] # <<>>
      BY <1>0 DEF RegistryInv, HostTypes
    <2> QED BY <2>1
  <1>5. TypeOK'
    BY <1>0, <1>1 DEF RegistryInv, TypeOK, Stage
  <1>6. HostTypes'
    <2>1. todo' \in [Hosts -> Seq(Raw)] /\ DOMAIN lease' = Hosts
      BY <1>1, <1>4 DEF RegistryInv, HostTypes
    <2>2. /\ stage'[h] \in {"grant", "serving"} /\ (stage'[h] = "grant" => todo'[h] # <<>>)
          /\ todo'[h] = Tail(todo[h]) /\ (current'[h] # None => current'[h] \in IDsOf(h))
      BY <1>0, <1>1, <1>4 DEF RegistryInv, TypeOK, HostTypes
    <2>3. \A i \in DOMAIN todo'[h] : Validate(todo'[h][i]).id \in IDsOf(h)
      BY <1>4, <2>2 DEF RegistryInv, HostTypes
    <2>4. /\ DOMAIN registered'[h] \subseteq IDsOf(h)
          /\ \A i \in DOMAIN registered'[h] : registered'[h][i] \in 1..leases'
      BY <1>0, <1>1, <1>3 DEF RegistryInv, HostTypes
    <2>5. \A r \in Hosts : r # h => /\ stage'[r] = stage[r] /\ todo'[r] = todo[r]
                                   /\ lease'[r] = lease[r] /\ current'[r] = current[r]
                                   /\ registered'[r] = registered[r]
      BY <1>1, <1>3 DEF RegistryInv, TypeOK, HostTypes
    <2> HIDE DEF id
    <2> QED BY <1>1, <1>3, <2>1, <2>2, <2>3, <2>4, <2>5 DEF RegistryInv, HostTypes, Pending
  <1>7. \A r \in Hosts : Pending(r)' => r # h /\ Pending(r) /\ lease'[r] = lease[r]
    BY <1>1 DEF RegistryInv, TypeOK, Pending
  <1>8. LeasesApart'
    <2>1. \A r \in Hosts : Pending(r) /\ r # h => lease[r] # lease[h]
      BY <1>0 DEF RegistryInv, LeasesApart
    <2>2. \A r \in Hosts : \A i \in DOMAIN registered[r] : registered[r][i] # lease[h]
      BY <1>0 DEF RegistryInv, LeasesApart
    <2>3. \A r \in Hosts : \A i \in DOMAIN registered'[r] :
             \/ r = h /\ i = id /\ registered'[r][i] = lease[h]
             \/ ~ (r = h /\ i = id) /\ i \in DOMAIN registered[r] /\ registered'[r][i] = registered[r][i]
      BY <1>3
    <2> HIDE DEF id
    <2> QED BY <1>7, <2>1, <2>2, <2>3 DEF RegistryInv, LeasesApart
  <1>9. RevokedLast'
    <2>1. \A r \in Hosts : stage'[r] \in {"revoke", "lastRevoke", "closing"} =>
             r # h /\ stage'[r] = stage[r] /\ lease'[r] = lease[r] /\ registered'[r] = registered[r]
      BY <1>1, <1>3 DEF RegistryInv, TypeOK
    <2>2. \A r \in Hosts : stage[r] \in {"revoke", "lastRevoke"} => lease[r] # lease[h]
      BY <1>0 DEF RegistryInv, LeasesApart, Pending
    <2>3. \A r \in Hosts : \A i \in DOMAIN registered[r] : registered[r][i] # lease[h]
      BY <1>0 DEF RegistryInv, LeasesApart
    <2> QED BY <1>1, <2>1, <2>2, <2>3 DEF RegistryInv, RevokedLast
  <1>10. OneKey'
    BY <1>1, <1>7 DEF RegistryInv, TypeOK, OneKey, Pending
  <1> QED BY <1>5, <1>6, <1>8, <1>9, <1>10 DEF RegistryInv

(* Deregister and Shutdown, the half under the lock. *)
LEMMA TakeKeeps ==
  ASSUME RegistryInv, NEW h \in Hosts, stage[h] \in {"serving", "failed"}, current[h] # None,
         \/ TakeRegistration(h, current[h], "revoke", "delete")
         \/ TakeRegistration(h, current[h], "lastRevoke", "lastDelete"),
         \/ current' = current
         \/ current' = [current EXCEPT ![h] = None],
         UNCHANGED <<kv, live, todo, leases, faults, cutOff>>
  PROVE  RegistryInv'
  <1> DEFINE id == current[h]
  <1>0. \E revoke \in {"revoke", "lastRevoke"}, delete \in {"delete", "lastDelete"} :
           TakeRegistration(h, id, revoke, delete)
    OBVIOUS
  <1>take. PICK revoke \in {"revoke", "lastRevoke"}, delete \in {"delete", "lastDelete"} :
           TakeRegistration(h, id, revoke, delete)
    BY <1>0
  <1>1. id \in IDsOf(h) /\ id = current[h]
    BY DEF RegistryInv, HostTypes
  <1>2. stage \in [Hosts -> Stage] /\ current \in [Hosts -> IDs \cup {None}]
    BY DEF RegistryInv, TypeOK
  <1>3. current' \in [Hosts -> IDs \cup {None}] /\ \A r \in Hosts : current'[r] \in {None, current[r]}
    BY <1>2
  <1> HIDE DEF id
  <1>4. CASE id \in DOMAIN registered[h]
    <2> DEFINE l == registered[h][id]
    <2>1. /\ stage' = [stage EXCEPT ![h] = revoke] /\ lease' = [lease EXCEPT ![h] = l]
          /\ kept' = kept \ {l}
          /\ registered' = [registered EXCEPT ![h] = [i \in DOMAIN registered[h] \ {id} |-> registered[h][i]]]
      BY <1>take, <1>4 DEF TakeRegistration, Goto
    <2>2. revoke \in {"revoke", "lastRevoke"} /\ revoke \in Stage
      BY DEF Stage
    <2>3. /\ \A r \in Hosts : r # h => stage'[r] = stage[r] /\ lease'[r] = lease[r]
          /\ stage'[h] = revoke /\ lease'[h] = l /\ DOMAIN lease' = Hosts
      BY <1>2, <2>1 DEF RegistryInv, HostTypes
    <2>4. /\ DOMAIN registered' = Hosts
          /\ \A r \in Hosts : DOMAIN registered'[r] \subseteq DOMAIN registered[r]
          /\ \A r \in Hosts : \A i \in DOMAIN registered'[r] :
                /\ registered'[r][i] = registered[r][i] /\ ~ (r = h /\ i = id)
      BY <2>1 DEF RegistryInv, HostTypes
    <2>5. l \in 1..leases /\ kept' \subseteq kept
      BY <1>4, <2>1 DEF RegistryInv, HostTypes
    <2>6. TypeOK'
      BY <1>2, <1>3, <2>1, <2>2, <2>5 DEF RegistryInv, TypeOK
    <2> HIDE DEF l
    <2>7. HostTypes'
      <3>1. /\ todo' = todo /\ leases' = leases /\ \A r \in Hosts : Pending(r)' => lease'[r] \in 1..leases
        BY <2>2, <2>3, <2>5 DEF RegistryInv, HostTypes, Pending
      <3>2. \A r \in Hosts : \A i \in DOMAIN registered'[r] : i \in IDsOf(r) /\ registered'[r][i] \in 1..leases
        BY <2>4 DEF RegistryInv, HostTypes
      <3>3. \A r \in Hosts : stage'[r] \in {"grant", "put", "keepalive", "delete", "lastDelete"} =>
               r # h /\ stage'[r] = stage[r] /\ lease'[r] = lease[r]
        BY <2>2, <2>3
      <3>4. \A r \in Hosts : current'[r] # None => current'[r] \in IDsOf(r)
        BY <1>3 DEF RegistryInv, HostTypes
      <3> QED BY <2>3, <2>4, <3>1, <3>2, <3>3, <3>4 DEF RegistryInv, HostTypes
    <2>8. LeasesApart'
      <3>1. \A r \in Hosts : Pending(r)' => Pending(r) \/ r = h
        BY <2>3 DEF Pending
      <3>2. \A r \in Hosts : Pending(r) => lease[r] # l
        BY <1>4 DEF RegistryInv, LeasesApart, l
      <3>3. \A r \in Hosts : \A i \in DOMAIN registered[r] : registered[r][i] = l => r = h /\ i = id
        BY <1>4 DEF RegistryInv, LeasesApart, l
      <3> QED BY <2>3, <2>4, <3>1, <3>2, <3>3 DEF RegistryInv, LeasesApart
    <2>9. RevokedLast'
      BY <2>1, <2>2, <2>3, <2>4, <2>5 DEF RegistryInv, RevokedLast
    <2>10. OneKey'
      BY <2>2, <2>3 DEF RegistryInv, OneKey
    <2> QED BY <2>6, <2>7, <2>8, <2>9, <2>10 DEF RegistryInv
  <1>5. CASE id \notin DOMAIN registered[h]
    <2>1. /\ stage' = [stage EXCEPT ![h] = delete] /\ lease' = [lease EXCEPT ![h] = id]
          /\ UNCHANGED <<kept, registered>>
      BY <1>take, <1>5 DEF TakeRegistration, Goto
    <2>2. delete \in {"delete", "lastDelete"} /\ delete \in Stage
      BY DEF Stage
    <2>3. /\ \A r \in Hosts : r # h => stage'[r] = stage[r] /\ lease'[r] = lease[r]
          /\ stage'[h] = delete /\ lease'[h] = id /\ DOMAIN lease' = Hosts
      BY <1>2, <2>1 DEF RegistryInv, HostTypes
    <2>4. TypeOK'
      BY <1>2, <1>3, <2>1, <2>2 DEF RegistryInv, TypeOK
    <2>5. HostTypes'
      BY <1>1, <1>3, <2>1, <2>2, <2>3 DEF RegistryInv, HostTypes, Pending
    <2>6. LeasesApart' /\ RevokedLast' /\ OneKey'
      BY <2>1, <2>2, <2>3 DEF RegistryInv, LeasesApart, RevokedLast, OneKey, Pending
    <2> QED BY <2>4, <2>5, <2>6 DEF RegistryInv
  <1> QED BY <1>4, <1>5

LEMMA DeregisterKeeps ==
  ASSUME RegistryInv, NEW h \in Hosts, Deregister(h) \/ Shutdown(h)
  PROVE  RegistryInv'
  <1>1. CASE Deregister(h)
    BY <1>1, TakeKeeps DEF Deregister
  <1>2. CASE Shutdown(h) /\ current[h] # None
    <2>1. TakeRegistration(h, current[h], "lastRevoke", "lastDelete")
      BY <1>2 DEF Shutdown
    <2>2. /\ stage[h] \in {"serving", "failed"} /\ current[h] # None
          /\ current' = [current EXCEPT ![h] = None]
          /\ UNCHANGED <<kv, live, todo, leases, faults, cutOff>>
      BY <1>2 DEF Shutdown
    <2> QED BY <2>1, <2>2, TakeKeeps
  <1>3. CASE Shutdown(h) /\ current[h] = None
    <2>1. /\ stage' = [stage EXCEPT ![h] = "close"] /\ current' = [current EXCEPT ![h] = None]
          /\ UNCHANGED <<kept, lease, registered, kv, live, todo, leases, faults, cutOff>>
      BY <1>3 DEF Shutdown, Goto
    <2>2. TypeOK'
      BY <2>1 DEF RegistryInv, TypeOK, Stage
    <2>3. HostTypes' /\ LeasesApart' /\ RevokedLast' /\ OneKey'
      BY <2>1 DEF RegistryInv, TypeOK, HostTypes, LeasesApart, RevokedLast, OneKey, Pending
    <2> QED BY <2>2, <2>3 DEF RegistryInv
  <1> QED BY <1>1, <1>2, <1>3

(* Deregister's call to etcd. *)
LEMMA FinishKeeps == ASSUME RegistryInv, NEW h \in Hosts, FinishDeregister(h) PROVE RegistryInv'
  <1>1. /\ stage[h] \in {"revoke", "delete", "lastRevoke", "lastDelete"}
        /\ \E next \in {"serving", "close"} : stage' = [stage EXCEPT ![h] = next]
        /\ lease' = [lease EXCEPT ![h] = None]
        /\ UNCHANGED <<kept, todo, registered, current, leases, cutOff>>
    BY DEF FinishDeregister, Goto
  <1>2. faults' \in 0..MaxFaults
    <2>1. MaxFaults \in Nat /\ faults \in 0..MaxFaults
      BY RegistryAssumption DEF RegistryInv, TypeOK
    <2> QED BY <2>1 DEF FinishDeregister, Fault
  <1>3. /\ kv' \in [IDs -> Entry \cup {None}] /\ live' \subseteq 1..leases' /\ kept' \subseteq live'
        /\ \A id \in IDs : kv'[id] # None => /\ kv'[id] = kv[id]
                                             /\ kv'[id].instance.id = id /\ kv'[id].lease \in live'
    <2>1. CASE stage[h] \in {"revoke", "lastRevoke"} /\ EndLease(lease[h])
      BY <1>1, <2>1, EndLeaseKeeps DEF RegistryInv, RevokedLast
    <2>2. CASE kv' = [kv EXCEPT ![lease[h]] = None] /\ live' = live
      BY <1>1, <2>2 DEF RegistryInv, TypeOK
    <2>3. CASE UNCHANGED <<kv, live>>
      BY <1>1, <2>3 DEF RegistryInv, TypeOK
    <2> QED BY <2>1, <2>2, <2>3 DEF FinishDeregister
  <1>4. TypeOK'
    BY <1>1, <1>2, <1>3 DEF RegistryInv, TypeOK, Stage
  <1>5. HostTypes' /\ LeasesApart' /\ RevokedLast'
    BY <1>1 DEF RegistryInv, TypeOK, HostTypes, LeasesApart, RevokedLast, Pending
  <1>6. OneKey'
    <2>1. \A r \in Hosts : stage'[r] = "put" => stage[r] = "put" /\ lease'[r] = lease[r]
      BY <1>1 DEF RegistryInv, TypeOK
    <2> QED BY <1>3, <2>1 DEF RegistryInv, OneKey
  <1> QED BY <1>4, <1>5, <1>6 DEF RegistryInv

LEMMA CloseKeeps ==
  ASSUME RegistryInv, NEW h \in Hosts, Close(h) \/ CloseDone(h)
  PROVE  RegistryInv'
  <1>1. /\ \/ stage' = [stage EXCEPT ![h] = "down"] /\ UNCHANGED kept
           \/ stage' = [stage EXCEPT ![h] = "closing"] /\ kept' = kept \ LeasesOf(h)
        /\ \/ todo' = todo
           \/ todo' = [todo EXCEPT ![h] = <<>>]
        /\ \/ lease' = lease
           \/ lease' = [lease EXCEPT ![h] = None]
        /\ UNCHANGED <<kv, live, registered, current, leases, faults, cutOff>>
    BY DEF Close, CloseDone, Goto, etcdVars
  <1>2. TypeOK'
    BY <1>1 DEF RegistryInv, TypeOK, Stage
  <1>3. stage \in [Hosts -> Stage] /\ todo \in [Hosts -> Seq(Raw)] /\ DOMAIN lease = Hosts
    BY DEF RegistryInv, TypeOK, HostTypes
  <1>4. /\ \A r \in Hosts : r # h => stage'[r] = stage[r]
        /\ stage'[h] \in {"down", "closing"} /\ (stage'[h] = "closing" => kept' = kept \ LeasesOf(h))
    BY <1>1, <1>3
  <1>5. todo' \in [Hosts -> Seq(Raw)] /\ \A r \in Hosts : todo'[r] \in {todo[r], <<>>}
    <2>1. <<>> \in Seq(Raw)
      OBVIOUS
    <2> QED BY <1>1, <1>3, <2>1
  <1>6. DOMAIN lease' = Hosts /\ \A r \in Hosts : r # h => lease'[r] = lease[r]
    BY <1>1, <1>3
  <1>7. \A r \in Hosts : r # h => todo'[r] = todo[r]
    BY <1>1, <1>3
  <1>8. HostTypes'
    <2>1. \A r \in Hosts : \A i \in DOMAIN todo'[r] : Validate(todo'[r][i]).id \in IDsOf(r)
      BY <1>5 DEF RegistryInv, HostTypes
    <2>2. \A r \in Hosts : stage'[r] \in {"grant", "put", "keepalive", "delete", "lastDelete", "revoke", "lastRevoke"} =>
             r # h /\ stage'[r] = stage[r] /\ lease'[r] = lease[r] /\ todo'[r] = todo[r]
      BY <1>4, <1>6, <1>7
    <2> QED BY <1>1, <1>5, <1>6, <2>1, <2>2 DEF RegistryInv, HostTypes, Pending
  <1>9. LeasesApart' /\ OneKey'
    BY <1>1, <1>4, <1>6 DEF RegistryInv, LeasesApart, OneKey, Pending
  <1>10. kept' \subseteq kept
    BY <1>1
  <1>11. RevokedLast'
    BY <1>1, <1>4, <1>6, <1>10 DEF RegistryInv, RevokedLast, LeasesOf
  <1> QED BY <1>2, <1>8, <1>9, <1>11 DEF RegistryInv

LEMMA CloseRevokeKeeps == ASSUME RegistryInv, NEW h \in Hosts, CloseRevoke(h) PROVE RegistryInv'
  <1>1. PICK id \in DOMAIN registered[h] :
          /\ \/ EndLease(registered[h][id]) /\ UNCHANGED faults
             \/ Fault /\ UNCHANGED <<kv, live>>
          /\ registered' = [registered EXCEPT ![h] = [i \in DOMAIN registered[h] \ {id} |-> registered[h][i]]]
    BY DEF CloseRevoke
  <1>2. stage[h] = "closing" /\ UNCHANGED <<kept, stage, todo, lease, current, leases, cutOff>>
    BY DEF CloseRevoke
  <1>3. faults' \in 0..MaxFaults
    <2>1. MaxFaults \in Nat /\ faults \in 0..MaxFaults
      BY RegistryAssumption DEF RegistryInv, TypeOK
    <2> QED BY <1>1, <2>1 DEF Fault
  <1>4. /\ kv' \in [IDs -> Entry \cup {None}] /\ live' \subseteq 1..leases' /\ kept' \subseteq live'
        /\ \A i \in IDs : kv'[i] # None => /\ kv'[i] = kv[i]
                                            /\ kv'[i].instance.id = i /\ kv'[i].lease \in live'
    <2>1. CASE EndLease(registered[h][id])
      <3>1. registered[h][id] \notin kept'
        BY <1>2 DEF RegistryInv, RevokedLast
      <3> QED BY <1>2, <2>1, <3>1, EndLeaseKeeps
    <2>2. CASE UNCHANGED <<kv, live>>
      BY <1>2, <2>2 DEF RegistryInv, TypeOK
    <2> QED BY <1>1, <2>1, <2>2
  <1>5. /\ DOMAIN registered' = Hosts
        /\ \A r \in Hosts : DOMAIN registered'[r] \subseteq DOMAIN registered[r]
        /\ \A r \in Hosts : \A i \in DOMAIN registered'[r] : registered'[r][i] = registered[r][i]
    BY <1>1 DEF RegistryInv, HostTypes
  <1>6. TypeOK'
    BY <1>2, <1>3, <1>4 DEF RegistryInv, TypeOK
  <1>7. HostTypes' /\ LeasesApart' /\ RevokedLast'
    BY <1>2, <1>5 DEF RegistryInv, HostTypes, LeasesApart, RevokedLast, Pending
  <1>8. OneKey'
    BY <1>2, <1>4 DEF RegistryInv, OneKey
  <1> QED BY <1>6, <1>7, <1>8 DEF RegistryInv

LEMMA RegistryStep == RegistryInv /\ [Next]_vars => RegistryInv'
  <1> SUFFICES ASSUME RegistryInv, [Next]_vars PROVE RegistryInv'
    OBVIOUS
  <1>1. CASE EtcdStep
    BY <1>1, EtcdKeeps
  <1>2. ASSUME NEW h \in Hosts, HostStep(h) PROVE RegistryInv'
    BY <1>2, RestartKeeps, GrantKeeps, PutKeepsInv, KeepAliveKeeps, DeregisterKeeps, FinishKeeps,
       CloseKeeps, CloseRevokeKeeps DEF HostStep
  <1>3. CASE UNCHANGED vars
    BY <1>3 DEF vars, etcdVars, hostVars, RegistryInv, TypeOK, HostTypes, LeasesApart, RevokedLast,
       OneKey, Pending
  <1> QED BY <1>1, <1>2, <1>3 DEF Next

(* The state keeps its types: every key is there under a lease that runs,  *)
(* only running leases are kept alive.                                     *)
THEOREM RegistryTypes == Spec => []TypeOK
  <1>1. RegistryInv => TypeOK
    BY DEF RegistryInv
  <1> QED BY <1>1, RegistryInit, RegistryStep, PTL DEF Spec

-----------------------------------------------------------------------------
(* A registered instance is listed.                                        *)

(* What a host has still to register is not registered yet, *)
FreshTodo(h) ==
    /\ \A i, j \in DOMAIN todo[h] : Validate(todo[h][i]).id = Validate(todo[h][j]).id => i = j
    /\ \A i \in DOMAIN todo[h] : Validate(todo[h][i]).id \notin DOMAIN registered[h]

(* what it has registered is kept alive, unless it was cut off, and what   *)
(* it deletes by its key is not registered;                                *)
Kept(h) ==
    /\ stage[h] = "keepalive" /\ lease[h] \notin cutOff =>
          /\ lease[h] \in live /\ kv[Instance(h).id] # None
          /\ kv[Instance(h).id].lease = lease[h]
    /\ stage[h] # "closing" =>
          \A id \in DOMAIN registered[h] : registered[h][id] \in kept \cup cutOff
    /\ stage[h] \in {"delete", "lastDelete"} => lease[h] \notin DOMAIN registered[h]

Listed(h) ==
    stage[h] # "closing" => \A id \in DOMAIN registered[h] :
        registered[h][id] \notin cutOff =>
            kv[id] # None /\ kv[id].lease = registered[h][id]

HostInv(h) == FreshTodo(h) /\ Kept(h) /\ Listed(h)

ListInv == \A h \in Hosts : HostInv(h)

(* The leases that HostInv(h) speaks of. *)
Uses(h, l) ==
    \/ stage[h] = "keepalive" /\ l = lease[h]
    \/ stage[h] # "closing" /\ \E id \in DOMAIN registered[h] : l = registered[h][id]

(* A step that leaves a host's program alone, and the leases it uses. *)
LEMMA OtherHost ==
  ASSUME RegistryInv, NEW r \in Hosts, HostInv(r),
         stage'[r] = stage[r], todo'[r] = todo[r], lease'[r] = lease[r],
         registered'[r] = registered[r], cutOff \subseteq cutOff',
         \A l : Uses(r, l) /\ l \notin cutOff' =>
            /\ l \in kept => l \in kept'
            /\ l \in live => l \in live'
            /\ \A id \in IDsOf(r) : kv[id] # None /\ kv[id].lease = l => kv'[id] = kv[id]
  PROVE  HostInv(r)'
  <1>1. FreshTodo(r)'
    BY DEF HostInv, FreshTodo
  <1>2. Instance(r)' = Instance(r)
    BY DEF Instance
  <1>3. stage[r] = "keepalive" => Instance(r).id \in IDsOf(r)
    BY InstanceType DEF RegistryInv
  <1>4. \A id \in DOMAIN registered[r] : id \in IDsOf(r)
    BY DEF RegistryInv, HostTypes
  <1>5. stage[r] = "keepalive" /\ lease[r] \notin cutOff' =>
          /\ lease[r] \in live' /\ kv'[Instance(r).id] # None
          /\ kv'[Instance(r).id].lease = lease[r]
    BY <1>3 DEF HostInv, Kept, Uses
  <1>6. stage[r] # "closing" => \A id \in DOMAIN registered[r] : registered[r][id] \in kept' \cup cutOff'
    BY DEF HostInv, Kept, Uses
  <1>7. Kept(r)'
    BY <1>2, <1>5, <1>6 DEF HostInv, Kept
  <1>8. Listed(r)'
    BY <1>4 DEF HostInv, Listed, Uses
  <1> QED BY <1>1, <1>7, <1>8 DEF HostInv

(* A lease that ends takes no key along that is under another lease. *)
LEMMA EndLeaseSpares ==
  ASSUME RegistryInv, NEW l, EndLease(l)
  PROVE  /\ \A k \in live : k # l => k \in live'
         /\ \A id \in IDs : kv[id] # None /\ kv[id].lease # l => kv'[id] = kv[id]
  BY DEF EndLease, KeysOf

LEMMA ListStart == Init => ListInv
  BY DEF Init, ListInv, HostInv, FreshTodo, Kept, Listed

LEMMA EtcdLists == ASSUME RegistryInv, ListInv, EtcdStep PROVE ListInv'
  <1>1. PICK l \in live : LeaseExpire(l) \/ Partition(l)
    BY DEF EtcdStep
  <1>2. /\ EndLease(l) /\ UNCHANGED <<stage, todo, lease, registered>> /\ cutOff \subseteq cutOff'
        /\ \A k \in kept : k # l => k \in kept'
    BY <1>1 DEF LeaseExpire, Partition, hostVars
  <1>3. ASSUME NEW r \in Hosts, NEW k, Uses(r, k), k \notin cutOff'
        PROVE  k # l
    <2>1. CASE Partition(l)
      BY <1>3, <2>1 DEF Partition
    <2>2. CASE LeaseExpire(l)
      BY <1>2, <1>3, <2>2 DEF LeaseExpire, Wanted, Uses, ListInv, HostInv, Kept
    <2> QED BY <1>1, <2>1, <2>2
  <1>4. \A r \in Hosts : IDsOf(r) \subseteq IDs
    BY OffersAssumption
  <1>5. ASSUME NEW r \in Hosts PROVE HostInv(r)'
    BY <1>2, <1>3, <1>4, EndLeaseSpares, OtherHost DEF ListInv
  <1> QED BY <1>5 DEF ListInv

(* The leases of a host. *)
Own(h, l) ==
    \/ Pending(h) /\ l = lease[h]
    \/ \E id \in DOMAIN registered[h] : l = registered[h][id]

(* A step of one host, about its own leases and keys. *)
LEMMA OneHost ==
  ASSUME RegistryInv, ListInv, NEW h \in Hosts, cutOff' = cutOff,
         \A r \in Hosts : r # h => /\ stage'[r] = stage[r] /\ todo'[r] = todo[r]
                                  /\ lease'[r] = lease[r] /\ registered'[r] = registered[r],
         \A k \in kept : k \in kept' \/ Own(h, k),
         \A k \in live : k \in live' \/ Own(h, k),
         \A id \in IDs : kv[id] # None => kv'[id] = kv[id] \/ Own(h, kv[id].lease) \/ id \in IDsOf(h),
         HostInv(h)'
  PROVE  ListInv'
  <1>1. ASSUME NEW r \in Hosts, r # h, NEW k, Uses(r, k) PROVE ~ Own(h, k)
    BY <1>1 DEF Uses, Own, Pending, RegistryInv, LeasesApart
  <1>2. \A r \in Hosts : r # h => \A id \in IDsOf(r) : id \in IDs /\ id \notin IDsOf(h)
    BY OffersAssumption
  <1>3. ASSUME NEW r \in Hosts, r # h PROVE HostInv(r)'
    <2>1. HostInv(r)
      BY DEF ListInv
    <2>2. \A l : Uses(r, l) /\ l \notin cutOff' =>
            /\ l \in kept => l \in kept'
            /\ l \in live => l \in live'
            /\ \A id \in IDsOf(r) : kv[id] # None /\ kv[id].lease = l => kv'[id] = kv[id]
      BY <1>1, <1>2, <1>3
    <2> QED BY <1>3, <2>1, <2>2, OtherHost
  <1> QED BY <1>3 DEF ListInv

(* Start and end of a program: nothing is registered. *)
LEMMA RestartLists ==
  ASSUME RegistryInv, ListInv, NEW h \in Hosts, Connect(h) \/ Crash(h)
  PROVE  ListInv'
  <1>1. /\ \A r \in Hosts : r # h => stage'[r] = stage[r] /\ registered'[r] = registered[r]
        /\ stage'[h] \in {"grant", "down"} /\ registered'[h] = [id \in {} |-> None]
        /\ UNCHANGED <<kv, live, cutOff>>
    BY DEF Connect, Crash, Goto, etcdVars, RegistryInv, TypeOK, HostTypes
  <1>2. \A k \in kept : k \in kept' \/ Own(h, k)
    BY DEF Connect, Crash, etcdVars, LeasesOf, Own
  <1>3. \A r \in Hosts : r # h => todo'[r] = todo[r] /\ lease'[r] = lease[r]
    BY DEF Connect, Crash, RegistryInv, HostTypes
  <1>4. \A i, j \in DOMAIN todo'[h] : Validate(todo'[h][i]).id = Validate(todo'[h][j]).id => i = j
    <2>1. todo \in [Hosts -> Seq(Raw)]
      BY DEF RegistryInv, HostTypes
    <2>2. CASE Connect(h)
      BY <2>1, <2>2, OffersAssumption DEF Connect
    <2>3. CASE Crash(h)
      BY <2>1, <2>3 DEF Crash
    <2> QED BY <2>2, <2>3
  <1>5. HostInv(h)'
    BY <1>1, <1>4 DEF HostInv, FreshTodo, Kept, Listed
  <1> QED BY <1>1, <1>2, <1>3, <1>5, OneHost

LEMMA GrantLists == ASSUME RegistryInv, ListInv, NEW h \in Hosts, Grant(h) PROVE ListInv'
  <1>1. /\ \A r \in Hosts : r # h => stage'[r] = stage[r] /\ lease'[r] = lease[r]
        /\ stage'[h] = "put" /\ stage[h] = "grant" /\ live \subseteq live'
        /\ UNCHANGED <<kv, kept, todo, registered, cutOff>>
    BY DEF Grant, Goto, RegistryInv, TypeOK, HostTypes
  <1>2. HostInv(h)'
    BY <1>1 DEF ListInv, HostInv, FreshTodo, Kept, Listed
  <1> QED BY <1>1, <1>2, OneHost

LEMMA PutLists ==
  ASSUME RegistryInv, ListInv, NEW h \in Hosts, Put(h) \/ RegisterFails(h)
  PROVE  ListInv'
  <1>1. /\ stage[h] \in {"grant", "put"} /\ stage'[h] \in {"keepalive", "failed"}
        /\ \A r \in Hosts : r # h => stage'[r] = stage[r]
        /\ UNCHANGED <<live, kept, todo, lease, registered, cutOff>>
    BY DEF Put, RegisterFails, Goto, RegistryInv, TypeOK
  <1>2. /\ kv' = kv \/ (stage[h] = "put" /\ lease[h] \in live /\ PutInstance(h))
        /\ stage'[h] = "keepalive" => stage[h] = "put" /\ lease[h] \in live /\ PutInstance(h)
    BY DEF Put, RegisterFails, Goto, RegistryInv, TypeOK
  <1>3. CASE kv' = kv /\ stage'[h] = "failed"
    <2>1. HostInv(h)'
      BY <1>1, <1>3 DEF ListInv, HostInv, FreshTodo, Kept, Listed
    <2> QED BY <1>1, <1>3, <2>1, OneHost
  <1>4. CASE stage[h] = "put" /\ lease[h] \in live /\ PutInstance(h)
    <2> DEFINE id == Instance(h).id
    <2>1. /\ kv'[id] = [instance |-> Instance(h), lease |-> lease[h]]
          /\ \A i \in IDs : i # id => kv'[i] = kv[i]
          /\ id \in IDsOf(h) /\ id \in IDs /\ kv'[id] \in Entry \cup {None}
      BY <1>1, <1>4, PutKeeps, InstanceType DEF RegistryInv
    <2>2. kv'[id] # None /\ kv'[id].lease = lease[h]
      <3>1. Instance(h) \in Offered /\ lease[h] \in 1..leases
        BY <1>4, InstanceType DEF RegistryInv, HostTypes, Pending
      <3>2. lease[h] \in 1..MaxLeases
        <4>1. leases \in 0..MaxLeases /\ MaxLeases \in Nat
          BY RegistryAssumption DEF RegistryInv, TypeOK
        <4> QED BY <3>1, <4>1
      <3>3. [instance |-> Instance(h), lease |-> lease[h]] \in Entry
        BY <3>1, <3>2 DEF Entry
      <3> QED BY <2>1, <3>3, NoneAssumption
    <2>3. id \notin DOMAIN registered[h]
      <3>1. todo[h] \in Seq(Raw) /\ todo[h] # <<>>
        BY <1>4 DEF RegistryInv, HostTypes
      <3>2. 1 \in DOMAIN todo[h] /\ Head(todo[h]) = todo[h][1]
        BY <3>1
      <3> QED BY <3>2 DEF ListInv, HostInv, FreshTodo, Instance
    <2>4. DOMAIN registered[h] \subseteq IDs
      BY OffersAssumption DEF RegistryInv, HostTypes
    <2>5. Instance(h)' = Instance(h)
      BY <1>1 DEF Instance
    <2>6. Listed(h)'
      BY <1>1, <2>1, <2>3, <2>4 DEF ListInv, HostInv, Listed
    <2>7. Kept(h)'
      BY <1>1, <1>4, <2>2, <2>5 DEF ListInv, HostInv, Kept
    <2>8. FreshTodo(h)'
      BY <1>1 DEF ListInv, HostInv, FreshTodo
    <2> HIDE DEF id
    <2>9. \A i \in IDs : kv'[i] = kv[i] \/ i \in IDsOf(h)
      BY <2>1
    <2> QED BY <1>1, <2>6, <2>7, <2>8, <2>9, OneHost DEF HostInv
  <1> QED BY <1>1, <1>2, <1>3, <1>4

LEMMA KeepAliveLists == ASSUME RegistryInv, ListInv, NEW h \in Hosts, KeepAlive(h) PROVE ListInv'
  <1> DEFINE id == Instance(h).id
  <1>1. /\ stage[h] = "keepalive" /\ stage'[h] \in {"grant", "serving"}
        /\ \A r \in Hosts : r # h => /\ stage'[r] = stage[r] /\ todo'[r] = todo[r]
                                    /\ lease'[r] = lease[r]
        /\ todo'[h] = Tail(todo[h]) /\ kept' = kept \cup ({lease[h]} \cap live)
        /\ UNCHANGED <<kv, live, cutOff>>
    BY DEF KeepAlive, Goto, RegistryInv, TypeOK, HostTypes
  <1>2. /\ DOMAIN registered'[h] = DOMAIN registered[h] \cup {id}
        /\ registered'[h][id] = lease[h]
        /\ \A i \in DOMAIN registered[h] : i # id => registered'[h][i] = registered[h][i]
        /\ \A r \in Hosts : r # h => registered'[r] = registered[r]
    BY DEF KeepAlive, RegistryInv, HostTypes
  <1>3. todo[h] \in Seq(Raw) /\ todo[h] # <<>>
    BY <1>1 DEF RegistryInv, HostTypes
  <1>4. /\ 1 \in DOMAIN todo[h] /\ Head(todo[h]) = todo[h][1]
        /\ \A i \in DOMAIN Tail(todo[h]) : /\ i + 1 \in DOMAIN todo[h] /\ i + 1 # 1
                                          /\ Tail(todo[h])[i] = todo[h][i + 1]
        /\ \A i, j \in DOMAIN Tail(todo[h]) : i + 1 = j + 1 => i = j
    BY <1>3
  <1>5. id = Validate(todo[h][1]).id
    BY <1>4 DEF Instance
  <1> HIDE DEF id
  <1>6. FreshTodo(h)'
    <2>1. FreshTodo(h)
      BY DEF ListInv, HostInv
    <2>2. \A i, j \in DOMAIN Tail(todo[h]) :
             Validate(Tail(todo[h])[i]).id = Validate(Tail(todo[h])[j]).id => i = j
      BY <1>4, <2>1 DEF FreshTodo
    <2>3. \A i \in DOMAIN Tail(todo[h]) : /\ Validate(Tail(todo[h])[i]).id \notin DOMAIN registered[h]
                                          /\ Validate(Tail(todo[h])[i]).id # id
      BY <1>4, <1>5, <2>1 DEF FreshTodo
    <2> QED BY <1>1, <1>2, <2>2, <2>3 DEF FreshTodo
  <1>7. lease[h] \notin cutOff => /\ lease[h] \in live /\ kv[id] # None /\ kv[id].lease = lease[h]
    BY <1>1 DEF ListInv, HostInv, Kept, id
  <1>8. \A i \in DOMAIN registered[h] :
           /\ registered[h][i] \in kept \cup cutOff
           /\ registered[h][i] \notin cutOff => kv[i] # None /\ kv[i].lease = registered[h][i]
    BY <1>1 DEF ListInv, HostInv, Kept, Listed
  <1>9. Kept(h)' /\ Listed(h)'
    BY <1>1, <1>2, <1>7, <1>8 DEF Kept, Listed
  <1> QED BY <1>1, <1>2, <1>6, <1>9, OneHost DEF HostInv

LEMMA TakeLists ==
  ASSUME RegistryInv, ListInv, NEW h \in Hosts, stage[h] \in {"serving", "failed"}, current[h] # None,
         \/ TakeRegistration(h, current[h], "revoke", "delete")
         \/ TakeRegistration(h, current[h], "lastRevoke", "lastDelete"),
         UNCHANGED <<kv, live, todo, cutOff>>
  PROVE  ListInv'
  <1> DEFINE id == current[h]
  <1>1. /\ \A r \in Hosts : r # h => /\ stage'[r] = stage[r] /\ lease'[r] = lease[r]
                                    /\ registered'[r] = registered[r]
        /\ stage'[h] \in {"revoke", "lastRevoke", "delete", "lastDelete"}
    BY DEF TakeRegistration, Goto, RegistryInv, TypeOK, HostTypes
  <1>2. CASE id \in DOMAIN registered[h]
    <2>1. /\ stage'[h] \in {"revoke", "lastRevoke"} /\ kept' = kept \ {registered[h][id]}
          /\ DOMAIN registered'[h] = DOMAIN registered[h] \ {id}
          /\ \A i \in DOMAIN registered[h] : i # id => registered'[h][i] = registered[h][i]
      BY <1>2 DEF TakeRegistration, Goto, RegistryInv, TypeOK, HostTypes
    <2>2. \A i \in DOMAIN registered[h] : i # id => registered[h][i] # registered[h][id]
      BY <1>2 DEF RegistryInv, LeasesApart
    <2> HIDE DEF id
    <2>3. HostInv(h)'
      BY <2>1, <2>2 DEF ListInv, HostInv, FreshTodo, Kept, Listed
    <2>4. \A k \in kept : k \in kept' \/ Own(h, k)
      BY <1>2, <2>1 DEF Own
    <2> QED BY <1>1, <2>3, <2>4, OneHost
  <1>3. CASE id \notin DOMAIN registered[h]
    <2>1. /\ stage'[h] \in {"delete", "lastDelete"} /\ lease'[h] = id
          /\ UNCHANGED <<kept, registered>>
      BY <1>3 DEF TakeRegistration, Goto, RegistryInv, TypeOK, HostTypes
    <2> HIDE DEF id
    <2>2. HostInv(h)'
      BY <1>3, <2>1 DEF ListInv, HostInv, FreshTodo, Kept, Listed
    <2> QED BY <1>1, <2>1, <2>2, OneHost
  <1> QED BY <1>2, <1>3

LEMMA DeregisterLists ==
  ASSUME RegistryInv, ListInv, NEW h \in Hosts, Deregister(h) \/ Shutdown(h)
  PROVE  ListInv'
  <1>1. CASE Deregister(h)
    <2>1. stage[h] \in {"serving", "failed"} /\ TakeRegistration(h, current[h], "revoke", "delete")
      BY <1>1 DEF Deregister
    <2>2. current[h] # None /\ UNCHANGED <<kv, live, todo, cutOff>>
      BY <1>1 DEF Deregister
    <2> QED BY <2>1, <2>2, TakeLists
  <1>2. CASE Shutdown(h) /\ current[h] # None
    <2>1. TakeRegistration(h, current[h], "lastRevoke", "lastDelete")
      BY <1>2 DEF Shutdown
    <2>2. stage[h] \in {"serving", "failed"} /\ UNCHANGED <<kv, live, todo, cutOff>>
      BY <1>2 DEF Shutdown
    <2> QED BY <1>2, <2>1, <2>2, TakeLists
  <1>3. CASE Shutdown(h) /\ current[h] = None
    <2>1. /\ stage'[h] = "close" /\ stage[h] # "closing" /\ \A r \in Hosts : r # h => stage'[r] = stage[r]
          /\ UNCHANGED <<kept, lease, registered, kv, live, todo, cutOff>>
      BY <1>3 DEF Shutdown, Goto, RegistryInv, TypeOK
    <2>2. HostInv(h)'
      BY <2>1 DEF ListInv, HostInv, FreshTodo, Kept, Listed
    <2> QED BY <2>1, <2>2, OneHost
  <1> QED BY <1>1, <1>2, <1>3

LEMMA FinishLists == ASSUME RegistryInv, ListInv, NEW h \in Hosts, FinishDeregister(h) PROVE ListInv'
  <1>1. /\ stage[h] \in {"revoke", "delete", "lastRevoke", "lastDelete"}
        /\ stage'[h] \in {"serving", "close"}
        /\ \A r \in Hosts : r # h => stage'[r] = stage[r] /\ lease'[r] = lease[r]
        /\ UNCHANGED <<kept, todo, registered, cutOff>>
    BY DEF FinishDeregister, Goto, RegistryInv, TypeOK, HostTypes
  <1>2. \A id \in DOMAIN registered[h] : id \in IDs /\ id \in IDsOf(h)
    BY OffersAssumption DEF RegistryInv, HostTypes
  <1>3. /\ \A k \in live : k \in live' \/ Own(h, k)
        /\ \A id \in IDs : kv[id] # None => kv'[id] = kv[id] \/ Own(h, kv[id].lease) \/ id \in IDsOf(h)
        /\ \A id \in DOMAIN registered[h] : kv[id] # None /\ kv[id].lease = registered[h][id] => kv'[id] = kv[id]
    <2>1. CASE stage[h] \in {"revoke", "lastRevoke"} /\ EndLease(lease[h])
      <3>1. Own(h, lease[h]) /\ \A id \in DOMAIN registered[h] : registered[h][id] # lease[h]
        BY <2>1 DEF Own, Pending, RegistryInv, LeasesApart
      <3> QED BY <1>2, <2>1, <3>1, EndLeaseSpares
    <2>2. CASE stage[h] \in {"delete", "lastDelete"} /\ kv' = [kv EXCEPT ![lease[h]] = None] /\ live' = live
      <3>1. lease[h] \in IDsOf(h) /\ lease[h] \notin DOMAIN registered[h]
        BY <2>2 DEF RegistryInv, HostTypes, ListInv, HostInv, Kept
      <3>2. \A id \in IDs : id # lease[h] => kv'[id] = kv[id]
        BY <2>2 DEF RegistryInv, TypeOK
      <3> QED BY <1>2, <2>2, <3>1, <3>2
    <2>3. CASE UNCHANGED <<kv, live>>
      BY <2>3
    <2> QED BY <2>1, <2>2, <2>3 DEF FinishDeregister
  <1>4. HostInv(h)'
    BY <1>1, <1>3 DEF ListInv, HostInv, FreshTodo, Kept, Listed
  <1> QED BY <1>1, <1>3, <1>4, OneHost

LEMMA CloseLists ==
  ASSUME RegistryInv, ListInv, NEW h \in Hosts, Close(h) \/ CloseDone(h) \/ CloseRevoke(h)
  PROVE  ListInv'
  <1>1. CASE Close(h)
    <2>1. /\ stage'[h] = "closing" /\ \A r \in Hosts : r # h => stage'[r] = stage[r]
          /\ kept' = kept \ LeasesOf(h)
          /\ UNCHANGED <<kv, live, todo, lease, registered, cutOff>>
      BY <1>1 DEF Close, Goto, RegistryInv, TypeOK
    <2>2. HostInv(h)'
      BY <2>1 DEF ListInv, HostInv, FreshTodo, Kept, Listed
    <2>3. \A k \in kept : k \in kept' \/ Own(h, k)
      BY <2>1 DEF LeasesOf, Own
    <2> QED BY <2>1, <2>2, <2>3, OneHost
  <1>2. CASE CloseDone(h)
    <2>1. /\ stage'[h] = "down" /\ registered'[h] = [id \in {} |-> None] /\ todo'[h] = <<>>
          /\ \A r \in Hosts : r # h => stage'[r] = stage[r] /\ todo'[r] = todo[r] /\ lease'[r] = lease[r]
          /\ UNCHANGED <<kv, live, kept, registered, cutOff>>
      BY <1>2 DEF CloseDone, Goto, etcdVars, RegistryInv, TypeOK, HostTypes
    <2>2. HostInv(h)'
      BY <2>1 DEF HostInv, FreshTodo, Kept, Listed
    <2> QED BY <2>1, <2>2, OneHost
  <1>3. CASE CloseRevoke(h)
    <2>1. PICK id \in DOMAIN registered[h] :
            /\ EndLease(registered[h][id]) \/ UNCHANGED <<kv, live>>
            /\ registered' = [registered EXCEPT ![h] = [i \in DOMAIN registered[h] \ {id} |-> registered[h][i]]]
      BY <1>3 DEF CloseRevoke
    <2>2. stage[h] = "closing" /\ UNCHANGED <<kept, stage, todo, lease, cutOff>>
      BY <1>3 DEF CloseRevoke
    <2>3. /\ DOMAIN registered'[h] \subseteq DOMAIN registered[h]
          /\ \A r \in Hosts : r # h => registered'[r] = registered[r]
      BY <2>1 DEF RegistryInv, HostTypes
    <2>4. HostInv(h)'
      BY <2>2, <2>3 DEF ListInv, HostInv, FreshTodo, Kept, Listed
    <2>5. Own(h, registered[h][id])
      BY <2>1 DEF Own
    <2>6. /\ \A k \in live : k \in live' \/ Own(h, k)
          /\ \A i \in IDs : kv[i] # None => kv'[i] = kv[i] \/ Own(h, kv[i].lease)
      BY <2>1, <2>5, EndLeaseSpares
    <2> QED BY <2>2, <2>3, <2>4, <2>6, OneHost
  <1> QED BY <1>1, <1>2, <1>3

LEMMA ListStep == RegistryInv /\ ListInv /\ [Next]_vars => ListInv'
  <1> SUFFICES ASSUME RegistryInv, ListInv, [Next]_vars PROVE ListInv'
    OBVIOUS
  <1>1. CASE EtcdStep
    BY <1>1, EtcdLists
  <1>2. ASSUME NEW h \in Hosts, HostStep(h) PROVE ListInv'
    BY <1>2, RestartLists, GrantLists, PutLists, KeepAliveLists, DeregisterLists, FinishLists,
       CloseLists DEF HostStep
  <1>3. CASE UNCHANGED vars
    BY <1>3 DEF vars, etcdVars, hostVars, ListInv, HostInv, FreshTodo, Kept, Listed, Instance
  <1> QED BY <1>1, <1>2, <1>3 DEF Next

(* RegisteredIsListed: whatever calls fail, programs crash and leases of   *)
(* predecessors run out, a registered instance stays listed under its own  *)
(* lease unless its client was cut off.                                    *)
THEOREM RegisteredStaysListed == Spec => []RegisteredIsListed
  <1>1. ListInv => RegisteredIsListed
    BY DEF ListInv, HostInv, Listed, RegisteredIsListed
  <1> QED BY <1>1, RegistryInit, RegistryStep, ListStart, ListStep, PTL DEF Spec

-----------------------------------------------------------------------------
(* Registration implements the directory.                                  *)

(* What a step may do to the keys: nothing, remove one, or put one. *)
Remove(id) == kv' = [kv EXCEPT ![id] = None]

Write(inst, l) == kv' = [kv EXCEPT ![inst.id] = [instance |-> inst, lease |-> l]]

OneWrite ==
    \/ UNCHANGED kv
    \/ \E id \in IDs : Remove(id)
    \/ \E inst \in Offered : \E l \in 1..MaxLeases : inst.id \in IDs /\ Write(inst, l)

(* A lease has one key, so its end removes one. *)
LEMMA EndLeaseRemovesOne ==
  ASSUME RegistryInv, NEW l, EndLease(l)
  PROVE  OneWrite
  <1>1. kv \in [IDs -> Entry \cup {None}] /\ kv' = [id \in IDs |-> IF id \in KeysOf(l) THEN None ELSE kv[id]]
    BY DEF EndLease, RegistryInv, TypeOK
  <1>2. CASE KeysOf(l) = {}
    <2>1. kv' = kv
      BY <1>1, <1>2
    <2> QED BY <2>1 DEF OneWrite
  <1>3. ASSUME NEW id \in KeysOf(l) PROVE OneWrite
    <2>1. id \in IDs /\ KeysOf(l) = {id}
      BY DEF KeysOf, RegistryInv, OneKey
    <2>2. Remove(id)
      BY <1>1, <2>1 DEF Remove
    <2> QED BY <2>1, <2>2 DEF OneWrite
  <1> QED BY <1>2, <1>3

LEMMA PutWrites ==
  ASSUME RegistryInv, NEW h \in Hosts, stage[h] = "put", PutInstance(h)
  PROVE  OneWrite
  <1>1. Instance(h) \in Offered /\ Instance(h).id \in IDs
    BY InstanceType DEF RegistryInv
  <1>2. lease[h] \in 1..leases /\ leases \in 0..MaxLeases /\ MaxLeases \in Nat
    BY RegistryAssumption DEF RegistryInv, TypeOK, HostTypes, Pending
  <1>3. lease[h] \in 1..MaxLeases
    BY <1>2
  <1>4. Write(Instance(h), lease[h])
    BY DEF PutInstance, Write
  <1> QED BY <1>1, <1>3, <1>4 DEF OneWrite

LEMMA StepWritesOne == ASSUME RegistryInv, [Next]_vars PROVE OneWrite
  <1>1. CASE EtcdStep
    BY <1>1, EndLeaseRemovesOne DEF EtcdStep, LeaseExpire, Partition
  <1>2. ASSUME NEW h \in Hosts, Put(h) \/ RegisterFails(h) PROVE OneWrite
    BY <1>2, PutWrites DEF Put, RegisterFails, OneWrite
  <1>3. ASSUME NEW h \in Hosts, FinishDeregister(h) PROVE OneWrite
    <2>1. CASE EndLease(lease[h])
      BY <2>1, EndLeaseRemovesOne
    <2>2. CASE stage[h] \in {"delete", "lastDelete"} /\ Remove(lease[h])
      <3>1. lease[h] \in IDs
        BY <2>2, OffersAssumption DEF RegistryInv, HostTypes
      <3> QED BY <2>2, <3>1 DEF OneWrite
    <2>3. CASE UNCHANGED kv
      BY <2>3 DEF OneWrite
    <2> QED BY <1>3, <2>1, <2>2, <2>3 DEF FinishDeregister, Remove
  <1>4. ASSUME NEW h \in Hosts, CloseRevoke(h) PROVE OneWrite
    BY <1>4, EndLeaseRemovesOne DEF CloseRevoke, OneWrite
  <1>5. ASSUME NEW h \in Hosts,
               \/ Connect(h) \/ Grant(h) \/ KeepAlive(h) \/ Deregister(h) \/ Shutdown(h)
               \/ Close(h) \/ CloseDone(h) \/ Crash(h)
        PROVE  OneWrite
    BY <1>5 DEF Connect, Grant, KeepAlive, Deregister, Shutdown, Close, CloseDone, Crash,
       etcdVars, OneWrite
  <1>6. CASE UNCHANGED vars
    BY <1>6 DEF vars, etcdVars, OneWrite
  <1> QED BY <1>1, <1>2, <1>3, <1>4, <1>5, <1>6 DEF Next, HostStep

(* The directory that the keys stand for. *)
Listing == [id \in IDs |-> IF kv[id] = None THEN None ELSE kv[id].instance]

LEMMA WriteIsChange ==
  ASSUME RegistryInv, RegistryInv', OneWrite
  PROVE  Abstract!Change \/ Listing' = Listing
  <1>0. kv \in [IDs -> Entry \cup {None}] /\ kv' \in [IDs -> Entry \cup {None}]
    BY DEF RegistryInv, TypeOK
  <1>1. CASE UNCHANGED kv
    BY <1>1 DEF Listing
  <1>2. ASSUME NEW id \in IDs, Remove(id) PROVE Abstract!Change \/ Listing' = Listing
    <2>1. CASE kv[id] = None
      <3>1. kv' = kv
        BY <1>0, <1>2, <2>1 DEF Remove
      <3> QED BY <3>1 DEF Listing
    <2>2. CASE kv[id] # None
      <3>1. kv[id].instance # None
        BY <1>0, <2>2, NoneAssumption DEF Entry
      <3>2. Listing[id] # None
        BY <2>2, <3>1 DEF Listing
      <3>3. Listing' = [Listing EXCEPT ![id] = None]
        BY <1>0, <1>2 DEF Listing, Remove
      <3>4. Abstract!Withdraw(id)
        BY <3>2, <3>3 DEF Abstract!Withdraw, Listing
      <3> QED BY <3>4 DEF Abstract!Change
    <2> QED BY <2>1, <2>2
  <1>3. ASSUME NEW inst \in Offered, NEW l \in 1..MaxLeases, inst.id \in IDs, Write(inst, l)
        PROVE  Abstract!Change
    <2>1. [instance |-> inst, lease |-> l] \in Entry
      BY DEF Entry
    <2>2. [instance |-> inst, lease |-> l] # None /\ [instance |-> inst, lease |-> l].instance = inst
      BY <2>1, NoneAssumption
    <2>3. Listing' = [Listing EXCEPT ![inst.id] = inst]
      BY <1>0, <1>3, <2>2 DEF Listing, Write
    <2>4. Abstract!Publish(inst)
      BY <2>3 DEF Abstract!Publish, Listing
    <2> QED BY <2>4 DEF Abstract!Change
  <1> QED BY <1>1, <1>2, <1>3 DEF OneWrite

LEMMA DirectoryStart == Init => Abstract!DirectoryInit
  BY DEF Init, Abstract!DirectoryInit

LEMMA DirectoryStep ==
  RegistryInv /\ RegistryInv' /\ [Next]_vars => Abstract!Change \/ Listing' = Listing
  BY StepWritesOne, WriteIsChange

(* ImplementsDirectory: registrations, expiries, revocations and failures, *)
(* however they interleave, show to those who discover as a directory in   *)
(* which one entry appears, changes or goes at a time.                     *)
THEOREM RegistryImplementsDirectory == Spec => ImplementsDirectory
  <1>1. RegistryInv /\ RegistryInv' /\ [Next]_vars =>
          [Abstract!Change]_([id \in IDs |-> IF kv[id] = None THEN None ELSE kv[id].instance])
    BY DirectoryStep DEF Listing
  <1> QED BY <1>1, RegistryInit, RegistryStep, DirectoryStart, PTL
      DEF Spec, ImplementsDirectory, Abstract!Changing
=============================================================================
