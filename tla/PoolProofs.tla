----------------------------- MODULE PoolProofs -----------------------------
(***************************************************************************)
(* Proofs about ResolverPool, for any requests, resolvers, instances and   *)
(* strategies, and any number of changes and faults: who owns the          *)
(* resolvers; the lists they keep, which folds over pipes and keys build,  *)
(* and how far they follow the directory; the slices that requests pick    *)
(* from; and the weighted round robin.                                     *)
(***************************************************************************)
EXTENDS ResolverPool, FoldLemmas, SequenceTheorems, TLAPS

PickerFields == {"strategy", "counter", "nodes", "fingerprint", "torn"}

PoolTypes ==
    /\ loop \in [Slots -> Loop] /\ closed \subseteq Slots
    /\ DOMAIN picker = Slots /\ \A r \in Slots : DOMAIN picker[r] = PickerFields
    /\ pooled \in Slots \cup {None} /\ lock \in Requests \cup {None}
    /\ rpc \in [Requests -> RequestPC]
    /\ using \in [Requests -> Slots \cup {None}]

(* Who creates a resolver holds the lock, and the pool has none then;      *)
(* nothing refers to a free slot, and the pooled resolver is open.         *)
PoolRefs ==
    /\ \A q \in Requests :
          /\ rpc[q] \in {"fetching", "watching"} <=> lock = q
          /\ using[q] # None <=> rpc[q] \in {"watching", "resolve", "pick", "fingerprint", "rebuild"}
          /\ using[q] # None => loop[using[q]] # "free"
          /\ rpc[q] = "watching" => using[q] \notin closed
    /\ lock # None => pooled = None
    /\ pooled # None => loop[pooled] # "free" /\ pooled \notin closed
    /\ \A r \in closed : loop[r] # "free"

PoolInv == PoolTypes /\ PoolRefs /\ PoolOwnsResolvers

-----------------------------------------------------------------------------
LEMMA NewPickerFields == ASSUME NEW s PROVE DOMAIN NewPicker(s) = PickerFields
  BY DEF NewPicker, PickerFields

(* Picking leaves the strategy of a picker alone. *)
LEMMA PicksKeepStrategy ==
  ASSUME NEW p, DOMAIN p = PickerFields, NEW instances, NEW choice \in Picks(p, instances)
  PROVE  choice.picker.strategy = p.strategy /\ DOMAIN choice.picker = PickerFields
  <1>1. CASE choice \in {[instance |-> instances[i], picker |-> p] : i \in DOMAIN instances}
    BY <1>1
  <1>2. CASE choice = RoundRobin(p, instances)
    BY <1>2 DEF RoundRobin, PickerFields
  <1> QED BY <1>1, <1>2 DEF Picks

LEMMA PoolInit == Init => PoolInv
  BY PoolAssumption, NewPickerFields DEF Init, PoolInv, PoolTypes, PoolRefs, PoolOwnsResolvers, Loop,
     RequestPC

(* The directory, and the watch loops. *)
LEMMA ResolverKeeps ==
  ASSUME PoolInv,
         \/ \E inst \in Instances : InstancePut(inst)
         \/ \E id \in IDs : InstanceDeleted(id)
         \/ \E r \in Slots : HandleEvent(r) \/ WatchLost(r) \/ FullRefresh(r) \/ LoopReturn(r)
  PROVE  PoolInv'
  <1>1. /\ UNCHANGED <<closed, picker, poolVars, rpc, using>>
        /\ \/ loop' = loop
           \/ \E r \in Slots, next \in {"lost", "ended"} :
                 loop[r] # "free" /\ loop' = [loop EXCEPT ![r] = next]
    BY DEF InstancePut, InstanceDeleted, Tell, HandleEvent, WatchLost, FullRefresh, LoopReturn,
           registryVars, requestVars
  <1>2. loop' \in [Slots -> Loop] /\ \A r \in Slots : loop'[r] = "free" <=> loop[r] = "free"
    BY <1>1 DEF PoolInv, PoolTypes, Loop
  <1>3. UNCHANGED <<closed, picker, pooled, strategy, lock, rpc, using>>
    BY <1>1 DEF poolVars
  <1> QED BY <1>2, <1>3 DEF PoolInv, PoolTypes, PoolRefs, PoolOwnsResolvers

LEMMA CollectKeeps == ASSUME PoolInv, NEW r \in Slots, Collect(r) PROVE PoolInv'
  <1>1. /\ r \in closed /\ \A q \in Requests : using[q] # r
        /\ loop' = [loop EXCEPT ![r] = "free"] /\ closed' = closed \ {r}
        /\ picker' = [picker EXCEPT ![r] = NewPicker("round_robin")]
        /\ UNCHANGED <<pooled, strategy, lock, rpc, using>>
    BY DEF Collect, poolVars, requestVars
  <1>2. /\ loop' \in [Slots -> Loop] /\ closed' \subseteq Slots
        /\ \A s \in Slots : s # r => loop'[s] = loop[s] /\ picker'[s] = picker[s]
        /\ loop'[r] = "free" /\ DOMAIN picker' = Slots /\ DOMAIN picker'[r] = PickerFields
    BY <1>1, NewPickerFields DEF PoolInv, PoolTypes, Loop
  <1>3. PoolTypes'
    BY <1>1, <1>2 DEF PoolInv, PoolTypes
  <1>4. PoolRefs'
    BY <1>1, <1>2 DEF PoolInv, PoolTypes, PoolRefs
  <1>5. PoolOwnsResolvers'
    BY <1>1, <1>2 DEF PoolInv, PoolOwnsResolvers
  <1> QED BY <1>3, <1>4, <1>5 DEF PoolInv

(* A request that finds the resolver in the pool, or goes on to create it. *)
LEMMA LookupKeeps ==
  ASSUME PoolInv, NEW q \in Requests, Lookup(q) \/ Relookup(q) \/ FetchFails(q)
  PROVE  PoolInv'
  <1>1. UNCHANGED <<loop, closed, picker, pooled, strategy>>
    BY DEF Lookup, Relookup, FetchFails, resolverVars, poolVars
  <1>2. /\ rpc[q] \in {"idle", "locking", "fetching"} /\ (rpc[q] = "fetching" \/ lock = None)
        /\ \/ /\ \E next \in {"idle", "locking"} : rpc' = [rpc EXCEPT ![q] = next]
              /\ \/ using' = using
                 \/ pooled = None /\ using' = [using EXCEPT ![q] = pooled]
              /\ lock' = None
           \/ /\ pooled # None /\ rpc' = [rpc EXCEPT ![q] = "resolve"]
              /\ using' = [using EXCEPT ![q] = pooled] /\ lock' = None
           \/ /\ pooled = None /\ rpc' = [rpc EXCEPT ![q] = "fetching"]
              /\ using' = using /\ lock' = q
    BY DEF Lookup, Relookup, FetchFails, RequestGoto, poolVars
  <1>3. q # None /\ None \notin Requests
    BY PoolAssumption
  <1>4. PoolTypes'
    BY <1>1, <1>2 DEF PoolInv, PoolTypes, RequestPC
  <1>5. PoolRefs'
    BY <1>1, <1>2, <1>3 DEF PoolInv, PoolTypes, PoolRefs
  <1>6. lock # None /\ using[lock] # None => lock' = lock /\ using' = using
    BY <1>1, <1>2, <1>3 DEF PoolInv, PoolTypes, PoolRefs
  <1>7. PoolOwnsResolvers'
    BY <1>1, <1>2, <1>3, <1>6 DEF PoolInv, PoolTypes, PoolRefs, PoolOwnsResolvers
  <1> QED BY <1>4, <1>5, <1>7 DEF PoolInv

LEMMA FetchKeeps == ASSUME PoolInv, NEW q \in Requests, Fetch(q) PROVE PoolInv'
  <1>1. PICK r \in Slots :
          /\ loop[r] = "free" /\ using' = [using EXCEPT ![q] = r]
          /\ loop' = [loop EXCEPT ![r] = "created"]
          /\ picker' = [picker EXCEPT ![r] = NewPicker(strategy)]
    BY DEF Fetch
  <1>2. /\ rpc[q] = "fetching" /\ rpc' = [rpc EXCEPT ![q] = "watching"]
        /\ UNCHANGED <<closed, pooled, strategy, lock>>
    BY DEF Fetch, RequestGoto, poolVars
  <1>3. r # None /\ q # None /\ lock = q /\ r \notin closed
    BY <1>1, <1>2, PoolAssumption DEF PoolInv, PoolRefs
  <1>4. PoolTypes'
    BY <1>1, <1>2, NewPickerFields DEF PoolInv, PoolTypes, Loop, RequestPC
  <1>5. PoolRefs'
    BY <1>1, <1>2, <1>3 DEF PoolInv, PoolTypes, PoolRefs
  <1>6. /\ \A s \in Slots : s # r => loop'[s] = loop[s] /\ picker'[s] = picker[s]
        /\ picker'[r] = NewPicker(strategy) /\ using'[q] = r
    BY <1>1 DEF PoolInv, PoolTypes
  <1>7. using[q] = None
    BY <1>2 DEF PoolInv, PoolRefs
  <1>8. PoolOwnsResolvers'
    BY <1>2, <1>3, <1>6, <1>7, PoolAssumption DEF PoolInv, PoolOwnsResolvers
  <1> QED BY <1>4, <1>5, <1>8 DEF PoolInv

LEMMA WatchKeeps == ASSUME PoolInv, NEW q \in Requests, Watch(q) PROVE PoolInv'
  <1>1. /\ rpc[q] = "watching" /\ rpc' = [rpc EXCEPT ![q] = "resolve"]
        /\ loop' = [loop EXCEPT ![using[q]] = "watching"]
        /\ pooled' = using[q] /\ lock' = None
        /\ UNCHANGED <<closed, picker, strategy, using>>
    BY DEF Watch, RequestGoto
  <1>2. /\ lock = q /\ q # None /\ pooled = None /\ using[q] \in Slots /\ using[q] # None
        /\ loop[using[q]] # "free"
    BY <1>1, PoolAssumption DEF PoolInv, PoolTypes, PoolRefs
  <1>3. \A r \in Slots : loop'[r] = "free" <=> loop[r] = "free"
    BY <1>1, <1>2 DEF PoolInv, PoolTypes
  <1>4. PoolTypes'
    BY <1>1, <1>2 DEF PoolInv, PoolTypes, Loop, RequestPC
  <1>5. \A p \in Requests : p # q => rpc'[p] = rpc[p] /\ rpc[p] \notin {"fetching", "watching"} /\ p # None
    BY <1>1, <1>2, PoolAssumption DEF PoolInv, PoolTypes, PoolRefs
  <1>6. rpc'[q] = "resolve" /\ using[q] \notin closed
    BY <1>1 DEF PoolInv, PoolTypes, PoolRefs
  <1>7. \A p \in Requests : using'[p] # None => loop'[using'[p]] # "free"
    BY <1>1, <1>3 DEF PoolInv, PoolTypes, PoolRefs
  <1>8. PoolRefs'
    <2>1. \A r \in closed' : loop'[r] # "free"
      BY <1>1, <1>3 DEF PoolInv, PoolTypes, PoolRefs
    <2>2. \A p \in Requests : using'[p] # None <=> rpc'[p] \in {"watching", "resolve", "pick", "fingerprint", "rebuild"}
      BY <1>1, <1>2, <1>5, <1>6 DEF PoolInv, PoolRefs
    <2>3. \A p \in Requests : rpc'[p] \notin {"fetching", "watching"} /\ p # None
      BY <1>2, <1>5, <1>6
    <2>4. loop'[pooled'] # "free" /\ pooled' \notin closed'
      BY <1>1, <1>2, <1>3, <1>6
    <2> QED BY <1>1, <1>7, <2>1, <2>2, <2>3, <2>4 DEF PoolRefs
  <1>9. PoolOwnsResolvers'
    <2>1. ASSUME NEW r \in Slots, loop'[r] # "free", r \notin closed' PROVE r = pooled'
      <3>1. loop[r] # "free" /\ r \notin closed
        BY <1>1, <1>3, <2>1
      <3>2. r = pooled \/ (lock # None /\ using[lock] = r)
        BY <3>1 DEF PoolInv, PoolOwnsResolvers
      <3> QED BY <1>1, <1>2, <3>2, PoolAssumption
    <2>2. ASSUME NEW r \in Slots, loop'[r] # "free", r \notin closed'
          PROVE  picker'[r].strategy = NewPicker(strategy').strategy
      <3>1. loop[r] # "free" /\ r \notin closed
        BY <1>1, <1>3, <2>2
      <3>2. picker[r].strategy = NewPicker(strategy).strategy
        BY <3>1 DEF PoolInv, PoolOwnsResolvers
      <3> QED BY <1>1, <3>2 DEF NewPicker
    <2> QED BY <2>1, <2>2 DEF PoolOwnsResolvers
  <1> QED BY <1>4, <1>8, <1>9 DEF PoolInv

(* UpdateStrategy and Close: no request holds the lock, so every open      *)
(* resolver is in the pool.                                                *)
LEMMA CloseAllKeeps ==
  ASSUME PoolInv, (\E s \in Strategies : UpdateStrategy(s)) \/ Close
  PROVE  PoolInv'
  <1>1. /\ lock = None /\ closed' = closed \cup ({pooled} \ {None}) /\ pooled' = None
        /\ UNCHANGED <<loop, picker, lock, rpc, using>>
    BY DEF UpdateStrategy, Close, CloseAll, requestVars
  <1>2. PoolTypes'
    BY <1>1 DEF PoolInv, PoolTypes
  <1>3. \A q \in Requests : rpc[q] # "watching"
    BY <1>1, PoolAssumption DEF PoolInv, PoolRefs
  <1>4. PoolRefs'
    BY <1>1, <1>3 DEF PoolInv, PoolTypes, PoolRefs
  <1>5. \A r \in Slots : loop[r] # "free" => r \in closed'
    BY <1>1, PoolAssumption DEF PoolInv, PoolOwnsResolvers
  <1>6. PoolOwnsResolvers'
    BY <1>1, <1>5 DEF PoolOwnsResolvers
  <1> QED BY <1>2, <1>4, <1>6 DEF PoolInv

(* A request picks an instance. *)
LEMMA ResolveKeeps ==
  ASSUME PoolInv, NEW q \in Requests,
         ResolveNone(q) \/ Resolve(q) \/ Pick(q) \/ ReadCell(q) \/ KeepNodes(q) \/ Differs(q)
           \/ RebuildNodes(q)
  PROVE  PoolInv'
  <1>1. /\ rpc[q] \in {"resolve", "pick", "fingerprint", "rebuild"}
        /\ \/ rpc' = [rpc EXCEPT ![q] = "idle"] /\ using' = [using EXCEPT ![q] = None]
           \/ /\ \E next \in {"pick", "fingerprint", "rebuild"} : rpc' = [rpc EXCEPT ![q] = next]
              /\ using' = using
           \/ UNCHANGED <<rpc, using>>
        /\ UNCHANGED <<loop, closed, pooled, strategy, lock>>
    BY DEF ResolveNone, Resolve, Pick, ReadCell, KeepNodes, Differs, RebuildNodes, EndPick, Reads,
           RequestGoto, resolverVars, poolVars
  <1>2. /\ DOMAIN picker' = Slots
        /\ \A r \in Slots : picker'[r].strategy = picker[r].strategy /\ DOMAIN picker'[r] = PickerFields
    <2>1. CASE UNCHANGED picker
      BY <2>1 DEF PoolInv, PoolTypes
    <2>2. CASE Pick(q)
      <3>1. using[q] \in Slots
        BY <2>2 DEF Pick, PoolInv, PoolTypes, PoolRefs
      <3>2. PICK choice \in Picks(picker[using[q]], view[q]) :
               picker' = [picker EXCEPT ![using[q]] = choice.picker]
        BY <2>2 DEF Pick
      <3>3. DOMAIN picker = Slots /\ \A r \in Slots : DOMAIN picker[r] = PickerFields
        BY DEF PoolInv, PoolTypes
      <3>4. choice.picker.strategy = picker[using[q]].strategy /\ DOMAIN choice.picker = PickerFields
        BY <3>1, <3>2, <3>3, PicksKeepStrategy
      <3> QED BY <3>1, <3>2, <3>3, <3>4
    <2>3. CASE KeepNodes(q) \/ RebuildNodes(q)
      BY <2>3 DEF KeepNodes, RebuildNodes, PoolInv, PoolTypes, PickerFields
    <2> QED BY <2>1, <2>2, <2>3 DEF ResolveNone, Resolve, ReadCell, Differs, resolverVars
  <1>3. PoolTypes'
    BY <1>1, <1>2 DEF PoolInv, PoolTypes, RequestPC
  <1>4. rpc[q] \notin {"fetching", "watching"} /\ lock # q
    BY <1>1 DEF PoolInv, PoolRefs
  <1>5. PoolRefs'
    BY <1>1, <1>4 DEF PoolInv, PoolTypes, PoolRefs
  <1>6. lock # None => using'[lock] = using[lock]
    BY <1>1, <1>4 DEF PoolInv, PoolTypes
  <1>7. PoolOwnsResolvers'
    BY <1>1, <1>2, <1>6 DEF PoolInv, PoolOwnsResolvers
  <1> QED BY <1>3, <1>5, <1>7 DEF PoolInv

LEMMA PoolStep == PoolInv /\ [Next]_vars => PoolInv'
  <1> SUFFICES ASSUME PoolInv, [Next]_vars PROVE PoolInv'
    OBVIOUS
  <1>1. CASE UNCHANGED vars
    BY <1>1 DEF vars, resolverVars, poolVars, requestVars, PoolInv, PoolTypes, PoolRefs,
       PoolOwnsResolvers
  <1>2. ASSUME NEW q \in Requests, RequestStep(q) PROVE PoolInv'
    BY <1>2, LookupKeeps, FetchKeeps, WatchKeeps, ResolveKeeps DEF RequestStep
  <1>3. ASSUME NEW r \in Slots, ResolverStep(r) PROVE PoolInv'
    BY <1>3, ResolverKeeps, CollectKeeps DEF ResolverStep
  <1> QED BY <1>1, <1>2, <1>3, ResolverKeeps, CloseAllKeeps DEF Next

(* PoolOwnsResolvers: however requests that create resolvers, failing      *)
(* fetches and changes of the strategy interleave, every open resolver is  *)
(* the pooled one or its creator's, and picks by the strategy in force.    *)
THEOREM PoolOwnsItsResolvers == Spec => []PoolOwnsResolvers
  <1>1. PoolInv => PoolOwnsResolvers
    BY DEF PoolInv
  <1> QED BY <1>1, PoolInit, PoolStep, PTL DEF Spec

-----------------------------------------------------------------------------
(* What handleEvent makes of a list.                                       *)

Events ==
    [type : {"put"}, instance : Instances]
      \cup [type : {"delete"}, key : {BuildKey(RegistryPrefix, id) : id \in IDs}]

NoIDTwice(instances) ==
    \A i, j \in DOMAIN instances : instances[i].id = instances[j].id => i = j

(* Every instance whose ID is still in the list has not moved back. *)
MovesForward(instances, after) ==
    \A i \in DOMAIN instances :
        instances[i].id \in IDsIn(after) =>
            \E j \in DOMAIN after : j <= i /\ after[j].id = instances[i].id

LEMMA FirstIndex ==
  ASSUME NEW n \in Nat, NEW s \in SUBSET (1 .. n), s # {}
  PROVE  Min(s) \in s
  <1>1. PICK i \in s : \A j \in s : i <= j
    BY LeastNumber
  <1> QED BY <1>1 DEF Min

LEMMA RemovedAt ==
  ASSUME NEW s \in Seq(Instances), NEW d \in 1 .. Len(s)
  PROVE  /\ RemoveAt(s, d) \in Seq(Instances)
         /\ Len(RemoveAt(s, d)) = Len(s) - 1
         /\ \A i \in 1 .. Len(s) - 1 : RemoveAt(s, d)[i] = IF i < d THEN s[i] ELSE s[i + 1]
  <1> DEFINE a == SubSeq(s, 1, d - 1)
             b == SubSeq(s, d + 1, Len(s))
  <1>1. Len(s) \in Nat /\ \A i \in 1 .. Len(s) : s[i] \in Instances
    OBVIOUS
  <1>2. a \in Seq(Instances) /\ Len(a) = d - 1 /\ \A i \in 1 .. d - 1 : a[i] = s[i]
    BY <1>1, SubSeqProperties
  <1>3. b \in Seq(Instances) /\ Len(b) = Len(s) - d /\ \A i \in 1 .. Len(s) - d : b[i] = s[d + i]
    BY <1>1, SubSeqProperties
  <1>4. /\ a \o b \in Seq(Instances) /\ Len(a \o b) = Len(a) + Len(b)
        /\ \A i \in 1 .. Len(a) + Len(b) :
              (a \o b)[i] = IF i <= Len(a) THEN a[i] ELSE b[i - Len(a)]
    BY <1>2, <1>3, ConcatProperties
  <1>5. RemoveAt(s, d) = a \o b
    BY DEF RemoveAt
  <1> HIDE DEF a, b
  <1>6. ASSUME NEW i \in 1 .. Len(s) - 1 PROVE RemoveAt(s, d)[i] = IF i < d THEN s[i] ELSE s[i + 1]
    <2>1. CASE i < d
      BY <1>1, <1>2, <1>3, <1>4, <1>5, <2>1
    <2>2. CASE ~ (i < d)
      <3>1. /\ i \in 1 .. Len(a) + Len(b) /\ ~ (i <= Len(a)) /\ i - Len(a) = (i + 1) - d
            /\ (i + 1) - d \in 1 .. Len(s) - d /\ d + ((i + 1) - d) = i + 1
        BY <1>1, <1>2, <1>3, <2>2
      <3> QED BY <1>3, <1>4, <1>5, <2>2, <3>1
    <2> QED BY <2>1, <2>2
  <1>7. RemoveAt(s, d) \in Seq(Instances)
    BY <1>4, <1>5
  <1>8. Len(RemoveAt(s, d)) = Len(s) - 1
    BY <1>1, <1>2, <1>3, <1>4, <1>5
  <1> QED BY <1>6, <1>7, <1>8

(* The list after an event, by cases: as before; one longer; the same      *)
(* length with another instance at d; one shorter, without the one at d.   *)
LEMMA HandleCases ==
  ASSUME NEW s \in Seq(Instances), NEW e \in Events
  PROVE  LET t == Handle(s, e)
             id == EventID(e)
             n == Len(s)
         IN  \/ /\ e.type = "put" /\ ~ Accepts(e.instance) /\ t = s
             \/ /\ e.type = "put" /\ Accepts(e.instance)
                /\ \A i \in 1 .. n : s[i].id # id
                /\ t = Append(s, e.instance)
             \/ /\ e.type = "put" /\ Accepts(e.instance)
                /\ \E d \in 1 .. n : s[d].id = id /\ t = [s EXCEPT ![d] = e.instance]
             \/ /\ e.type = "delete"
                /\ RegistryPrefix = ResolverPrefix => \A i \in 1 .. n : s[i].id # id
                /\ t = s
             \/ /\ e.type = "delete"
                /\ \E d \in 1 .. n : /\ RegistryPrefix = ResolverPrefix => s[d].id = id
                                     /\ t = RemoveAt(s, d)
  <1> DEFINE n == Len(s)
             t == Handle(s, e)
  <1>1. n \in Nat /\ DOMAIN s = 1 .. n
    OBVIOUS
  <1>2. CASE e.type = "put"
    <2> DEFINE same == {i \in DOMAIN s : s[i].id = e.instance.id}
    <2>1. EventID(e) = e.instance.id /\ t = HandlePut(s, e.instance)
      BY <1>2 DEF EventID, Handle
    <2>2. CASE ~ Accepts(e.instance)
      BY <1>2, <2>1, <2>2 DEF HandlePut
    <2>3. CASE Accepts(e.instance) /\ same = {}
      BY <1>1, <1>2, <2>1, <2>3 DEF HandlePut
    <2>4. CASE Accepts(e.instance) /\ same # {}
      <3>1. Min(same) \in same
        BY <1>1, <2>4, FirstIndex
      <3>2. t = [s EXCEPT ![Min(same)] = e.instance]
        BY <2>1, <2>4 DEF HandlePut
      <3> QED BY <1>1, <1>2, <2>1, <2>4, <3>1, <3>2
    <2> QED BY <2>2, <2>3, <2>4
  <1>3. CASE e.type = "delete"
    <2> DEFINE matching == {i \in DOMAIN s : Matches(s[i], e.key)}
    <2>1. PICK id \in IDs : e.key = <<RegistryPrefix, id>>
      BY <1>3 DEF Events, BuildKey
    <2>2. EventID(e) = id /\ t = HandleDelete(s, e.key)
      BY <1>3, <2>1 DEF EventID, Handle
    <2>3. RegistryPrefix = ResolverPrefix => \A i \in 1 .. n : i \in matching <=> s[i].id = id
      BY <1>1, <2>1 DEF Matches, BuildKey
    <2>4. CASE matching = {}
      BY <1>3, <2>2, <2>3, <2>4 DEF HandleDelete
    <2>5. CASE matching # {}
      <3>1. Min(matching) \in matching /\ Min(matching) \in 1 .. n
        BY <1>1, <2>5, FirstIndex
      <3>2. t = RemoveAt(s, Min(matching))
        BY <2>2, <2>5 DEF HandleDelete
      <3> HIDE DEF matching
      <3> QED BY <1>3, <2>2, <2>3, <3>1, <3>2
    <2> QED BY <2>4, <2>5
  <1>4. e.type \in {"put", "delete"}
    BY DEF Events
  <1> QED BY <1>2, <1>3, <1>4

(* The instances with an ID: at most one, when no ID is there twice. *)
Under(instances, id) == {inst \in Range(instances) : inst.id = id}

Kept(s, t) ==
    /\ t \in Seq(Instances) /\ NoIDTwice(t) /\ Len(t) <= Len(s) + 1 /\ MovesForward(s, t)
    /\ (\A i \in DOMAIN s : Accepts(s[i])) => \A i \in DOMAIN t : Accepts(t[i])

(* Only what is under id changes, to now. *)
Changed(s, t, id, now) ==
    Under(t, id) = now /\ \A other \in IDs \ {id} : Under(t, other) = Under(s, other)

LEMMA AppendKeeps ==
  ASSUME NEW s \in Seq(Instances), NoIDTwice(s), NEW inst \in Instances, Accepts(inst),
         \A i \in 1 .. Len(s) : s[i].id # inst.id, NEW t, t = Append(s, inst)
  PROVE  Kept(s, t) /\ Changed(s, t, inst.id, {inst})
  <1>1. /\ DOMAIN s = 1 .. Len(s) /\ Len(s) \in Nat /\ t \in Seq(Instances)
        /\ Len(t) = Len(s) + 1 /\ DOMAIN t = 1 .. Len(s) + 1
        /\ \A i \in 1 .. Len(s) : t[i] = s[i]
        /\ t[Len(s) + 1] = inst
    BY AppendProperties
  <1>2. NoIDTwice(t)
    BY <1>1 DEF NoIDTwice
  <1>3. MovesForward(s, t)
    BY <1>1 DEF MovesForward
  <1>4. Range(t) = Range(s) \cup {inst}
    BY <1>1 DEF Range
  <1>5. \A x \in Range(s) : x.id # inst.id
    BY <1>1 DEF Range
  <1>6. (\A i \in DOMAIN s : Accepts(s[i])) => \A i \in DOMAIN t : Accepts(t[i])
    BY <1>1
  <1> QED BY <1>1, <1>2, <1>3, <1>4, <1>5, <1>6 DEF Kept, Under, Changed

LEMMA ReplaceKeeps ==
  ASSUME NEW s \in Seq(Instances), NoIDTwice(s), NEW inst \in Instances, Accepts(inst),
         NEW d \in 1 .. Len(s), s[d].id = inst.id, NEW t, t = [s EXCEPT ![d] = inst]
  PROVE  Kept(s, t) /\ Changed(s, t, inst.id, {inst})
  <1>1. /\ DOMAIN s = 1 .. Len(s) /\ Len(s) \in Nat /\ t \in Seq(Instances)
        /\ Len(t) = Len(s) /\ DOMAIN t = 1 .. Len(s)
        /\ \A i \in 1 .. Len(s) : t[i] = IF i = d THEN inst ELSE s[i]
    BY ExceptSeq
  <1>2. \A i \in 1 .. Len(s) : t[i].id = s[i].id
    BY <1>1
  <1>3. NoIDTwice(t)
    BY <1>1, <1>2 DEF NoIDTwice
  <1>4. MovesForward(s, t)
    BY <1>1, <1>2 DEF MovesForward
  <1>5. (\A i \in DOMAIN s : Accepts(s[i])) => \A i \in DOMAIN t : Accepts(t[i])
    BY <1>1
  <1>6. \A i \in 1 .. Len(s) : t[i].id = inst.id => i = d
    BY <1>1, <1>2 DEF NoIDTwice
  <1>7. Under(t, inst.id) = {inst}
    BY <1>1, <1>6 DEF Under, Range
  <1>8. ASSUME NEW id \in IDs \ {inst.id} PROVE Under(t, id) = Under(s, id)
    <2>1. \A i \in 1 .. Len(s) : t[i].id = id \/ s[i].id = id => i # d /\ t[i] = s[i]
      BY <1>1
    <2> QED BY <1>1, <2>1 DEF Under, Range
  <1>9. Len(t) <= Len(s) + 1
    BY <1>1
  <1> QED BY <1>1, <1>3, <1>4, <1>5, <1>7, <1>8, <1>9 DEF Kept, Changed

LEMMA RemoveKeeps ==
  ASSUME NEW s \in Seq(Instances), NoIDTwice(s), NEW d \in 1 .. Len(s), NEW t, t = RemoveAt(s, d)
  PROVE  Kept(s, t) /\ Changed(s, t, s[d].id, {})
  <1> DEFINE n == Len(s)
  <1>1. /\ DOMAIN s = 1 .. n /\ n \in Nat /\ t \in Seq(Instances)
        /\ Len(t) = n - 1 /\ DOMAIN t = 1 .. n - 1
        /\ \A i \in 1 .. n - 1 : t[i] = IF i < d THEN s[i] ELSE s[i + 1]
    BY RemovedAt
  <1> HIDE DEF n
  <1>2. \A i \in 1 .. n - 1 :
           \E k \in 1 .. n : t[i] = s[k] /\ k # d /\ k = IF i < d THEN i ELSE i + 1
    BY <1>1
  <1>3. \A k \in 1 .. n : k # d => \E i \in 1 .. n - 1 : t[i] = s[k] /\ i <= k
    <2>1. ASSUME NEW k \in 1 .. n, k < d PROVE \E i \in 1 .. n - 1 : t[i] = s[k] /\ i <= k
      <3>1. k \in 1 .. n - 1 /\ t[k] = s[k]
        BY <1>1, <2>1 DEF n
      <3> QED BY <3>1
    <2>2. ASSUME NEW k \in 1 .. n, k > d PROVE \E i \in 1 .. n - 1 : t[i] = s[k] /\ i <= k
      <3>1. k - 1 \in 1 .. n - 1 /\ ~ (k - 1 < d) /\ (k - 1) + 1 = k /\ k - 1 <= k
        BY <1>1, <2>2 DEF n
      <3>2. t[k - 1] = s[k]
        BY <1>1, <3>1
      <3> QED BY <3>1, <3>2
    <2> QED BY <2>1, <2>2, <1>1 DEF n
  <1>4. \A i \in 1 .. n - 1 : t[i].id # s[d].id
    BY <1>1, <1>2 DEF NoIDTwice, n
  <1>5. NoIDTwice(t)
    <2>1. ASSUME NEW i \in 1 .. n - 1, NEW j \in 1 .. n - 1, t[i].id = t[j].id PROVE i = j
      <3>1. PICK k \in 1 .. n : t[i] = s[k] /\ k = IF i < d THEN i ELSE i + 1
        BY <1>2
      <3>2. PICK l \in 1 .. n : t[j] = s[l] /\ l = IF j < d THEN j ELSE j + 1
        BY <1>2
      <3>3. k = l
        BY <1>1, <2>1, <3>1, <3>2 DEF NoIDTwice
      <3> QED BY <1>1, <3>1, <3>2, <3>3 DEF n
    <2> QED BY <1>1, <2>1 DEF NoIDTwice
  <1>6. MovesForward(s, t)
    <2>1. ASSUME NEW k \in 1 .. n, s[k].id \in IDsIn(t)
          PROVE  \E j \in DOMAIN t : j <= k /\ t[j].id = s[k].id
      <3>1. k # d
        BY <1>1, <1>4, <2>1 DEF IDsIn
      <3>2. PICK i \in 1 .. n - 1 : t[i] = s[k] /\ i <= k
        BY <1>3, <3>1
      <3> QED BY <1>1, <3>2
    <2> QED BY <1>1, <2>1 DEF MovesForward
  <1>7. Under(t, s[d].id) = {}
    BY <1>1, <1>4 DEF Under, Range
  <1>8. Range(t) \subseteq Range(s)
    <2>1. ASSUME NEW i \in 1 .. n - 1 PROVE t[i] \in Range(s)
      BY <1>1, <1>2 DEF Range
    <2> QED BY <1>1, <2>1 DEF Range
  <1>9. \A x \in Range(s) : x.id # s[d].id => x \in Range(t)
    <2>1. ASSUME NEW k \in 1 .. n, k # d PROVE s[k] \in Range(t)
      BY <1>1, <1>3, <2>1 DEF Range
    <2>2. \A x \in Range(s) : x.id # s[d].id => \E k \in 1 .. n : k # d /\ x = s[k]
      BY <1>1 DEF Range
    <2> QED BY <2>1, <2>2
  <1>10. ASSUME NEW id \in IDs \ {s[d].id} PROVE Under(t, id) = Under(s, id)
    BY <1>8, <1>9 DEF Under
  <1>11. (\A i \in DOMAIN s : Accepts(s[i])) => \A i \in DOMAIN t : Accepts(t[i])
    BY <1>8 DEF Range
  <1>12. Len(t) <= Len(s) + 1
    BY <1>1 DEF n
  <1> QED BY <1>1, <1>5, <1>6, <1>12, <1>7, <1>10, <1>11 DEF Kept, Changed

LEMMA Unchanged ==
  ASSUME NEW s \in Seq(Instances), NoIDTwice(s)
  PROVE  Kept(s, s)
  <1>1. \A i \in DOMAIN s : i <= i
    OBVIOUS
  <1>2. Len(s) \in Nat
    OBVIOUS
  <1> QED BY <1>1, <1>2 DEF Kept, MovesForward

LEMMA HandleKeeps ==
  ASSUME NEW s \in Seq(Instances), NoIDTwice(s), NEW e \in Events
  PROVE  Kept(s, Handle(s, e))
  <1> DEFINE t == Handle(s, e)
  <1>1. e.type = "put" => e.instance \in Instances /\ EventID(e) = e.instance.id
    BY DEF Events, EventID
  <1>2. \/ t = s
        \/ /\ e.type = "put" /\ Accepts(e.instance) /\ t = Append(s, e.instance)
           /\ \A i \in 1 .. Len(s) : s[i].id # EventID(e)
        \/ /\ e.type = "put" /\ Accepts(e.instance)
           /\ \E d \in 1 .. Len(s) : s[d].id = EventID(e) /\ t = [s EXCEPT ![d] = e.instance]
        \/ \E d \in 1 .. Len(s) : t = RemoveAt(s, d)
    BY HandleCases
  <1> HIDE DEF t
  <1>3. Kept(s, t)
    BY <1>1, <1>2, Unchanged, AppendKeeps, ReplaceKeeps, RemoveKeeps
  <1> QED BY <1>3 DEF t

(* When the registry's prefix is the resolver's, and the instances of an   *)
(* ID are all accepted or all not, the list follows the event.             *)
OneProtocolPerID ==
    \A i, j \in Instances : i.id = j.id => (Accepts(i) <=> Accepts(j))

LEMMA HandleFollows ==
  ASSUME RegistryPrefix = ResolverPrefix, OneProtocolPerID,
         NEW s \in Seq(Instances), NoIDTwice(s), \A i \in DOMAIN s : Accepts(s[i]),
         NEW e \in Events
  PROVE  Changed(s, Handle(s, e), EventID(e),
                 IF e.type = "put" /\ Accepts(e.instance) THEN {e.instance} ELSE {})
  <1> DEFINE t == Handle(s, e)
             id == EventID(e)
  <1>1. /\ e.type = "put" => e.instance \in Instances /\ id = e.instance.id
        /\ DOMAIN s = 1 .. Len(s) /\ \A i \in 1 .. Len(s) : s[i] \in Instances
        /\ "put" # "delete"
    BY DEF Events, EventID
  <1>2. ASSUME t = s, \A i \in 1 .. Len(s) : s[i].id # id PROVE Changed(s, t, id, {})
    BY <1>1, <1>2 DEF Changed, Under, Range
  <1>3. CASE e.type = "put" /\ ~ Accepts(e.instance)
    <2>1. \A i \in 1 .. Len(s) : s[i].id # id
      BY <1>1, <1>3 DEF OneProtocolPerID
    <2>2. t = s
      BY <1>1, <1>3, HandleCases
    <2> QED BY <1>2, <1>3, <2>1, <2>2
  <1>4. CASE e.type = "put" /\ Accepts(e.instance)
    <2>1. \/ t = Append(s, e.instance) /\ \A i \in 1 .. Len(s) : s[i].id # id
          \/ \E d \in 1 .. Len(s) : s[d].id = id /\ t = [s EXCEPT ![d] = e.instance]
      BY <1>1, <1>4, HandleCases
    <2> HIDE DEF t
    <2>2. Changed(s, t, e.instance.id, {e.instance})
      BY <1>1, <1>4, <2>1, AppendKeeps, ReplaceKeeps
    <2> QED BY <1>1, <1>4, <2>2 DEF t
  <1>5. CASE e.type = "delete"
    <2>1. \/ t = s /\ \A i \in 1 .. Len(s) : s[i].id # id
          \/ \E d \in 1 .. Len(s) : s[d].id = id /\ t = RemoveAt(s, d)
      BY <1>1, <1>5, HandleCases
    <2> HIDE DEF t
    <2>2. Changed(s, t, id, {})
      BY <1>2, <2>1, RemoveKeeps
    <2> QED BY <1>1, <1>5, <2>2 DEF t
  <1> QED BY <1>3, <1>4, <1>5 DEF Events

(* The lists a resolver may have, and what handling the events of a pipe   *)
(* one after another makes of them.                                        *)
Lists == {s \in Seq(Instances) : NoIDTwice(s) /\ \A i \in DOMAIN s : Accepts(s[i])}

After(s, events) == FoldLeft(Handle, s, events)

HandleStep == [x \in Lists \X Events |-> Handle(x[1], x[2])]

LEMMA HandleSteps ==
  /\ HandleStep \in [Lists \X Events -> Lists]
  /\ \A s \in Lists, e \in Events :
        HandleStep[<<s, e>>] = Handle(s, e) /\ Handle(s, e) \in Lists
  <1>1. ASSUME NEW s \in Lists, NEW e \in Events PROVE Handle(s, e) \in Lists
    BY HandleKeeps DEF Lists, Kept
  <1> QED BY <1>1 DEF HandleStep

LEMMA HandleRuns ==
  ASSUME NEW s \in Lists, NEW p \in Seq(Events)
  PROVE  \E run : IsRun(run, Lists, Events, HandleStep, s, p) /\ After(s, p) = run[Len(p)]
  <1> DEFINE Eq(h) == h = [k \in SUBSET DOMAIN p |->
                              IF k = {} THEN s
                              ELSE Handle(h[k \ {Max(k)}], p[Max(k)])]
             fold == CHOOSE h : Eq(h)
  <1>1. PICK h : IsFold(h, Lists, Events, HandleStep, s, p)
    BY HandleSteps, FoldExists
  <1>2. ASSUME NEW k \in (SUBSET DOMAIN p) \ {{}}
        PROVE  h[k] = Handle(h[k \ {Max(k)}], p[Max(k)]) /\ Max(k) \in k
    <2>1. Max(k) \in k /\ h[k] = HandleStep[<<h[k \ {Max(k)}], p[Max(k)]>>]
      BY <1>1 DEF IsFold
    <2>2. h[k \ {Max(k)}] \in Lists /\ p[Max(k)] \in Events
      BY <1>1, <2>1 DEF IsFold
    <2> QED BY <2>1, <2>2, HandleSteps
  <1>3. h[{}] = s /\ h \in [SUBSET DOMAIN p -> Lists]
    BY <1>1 DEF IsFold
  <1>4. Eq(h)
    BY <1>2, <1>3
  <1>5. Eq(fold)
    <2> HIDE DEF Eq
    <2> QED BY <1>4
  <1>6. After(s, p) = fold[DOMAIN p]
    BY DEF After, FoldLeft, MapThenFoldSet
  <1> HIDE DEF fold
  <1>7. fold[DOMAIN p] = h[DOMAIN p]
    <2> DEFINE F == {k \in SUBSET DOMAIN p : fold[k] = h[k]}
    <2>1. {} \in F
      BY <1>3, <1>5
    <2>2. ASSUME NEW k \in SUBSET DOMAIN p, k # {}, \A i \in k : k \ {i} \in F PROVE k \in F
      <3>1. fold[k] = Handle(fold[k \ {Max(k)}], p[Max(k)])
        BY <1>5, <2>2
      <3> QED BY <1>2, <2>2, <3>1
    <2>3. IsFiniteSet(DOMAIN p)
      BY FS_Interval
    <2>4. \A k \in SUBSET DOMAIN p : k \in F
      <3> HIDE DEF F
      <3> QED BY <2>1, <2>2, <2>3, SubsetInduction
    <2> QED BY <2>4
  <1> QED BY <1>1, <1>6, <1>7, FoldIsRun

(* A pipe is handled from its head, and grows at its end. *)
LEMMA AfterEvents ==
  ASSUME NEW s \in Lists, NEW p \in Seq(Events)
  PROVE  /\ After(s, p) \in Lists
         /\ p = <<>> => After(s, p) = s
         /\ p # <<>> => After(Handle(s, Head(p)), Tail(p)) = After(s, p)
         /\ \A e \in Events : After(s, Append(p, e)) = Handle(After(s, p), e)
  <1>1. PICK f : IsRun(f, Lists, Events, HandleStep, s, p) /\ After(s, p) = f[Len(p)]
    BY HandleRuns
  <1>2. Len(p) \in Nat
    OBVIOUS
  <1>3. After(s, p) \in Lists
    BY <1>1, <1>2 DEF IsRun
  <1>4. p = <<>> => After(s, p) = s
    BY <1>1 DEF IsRun
  <1>5. ASSUME p # <<>> PROVE After(Handle(s, Head(p)), Tail(p)) = After(s, p)
    <2> DEFINE first == Handle(s, Head(p))
               rest == Tail(p)
    <2>1. Head(p) \in Events /\ rest \in Seq(Events)
      BY <1>5
    <2>2. first \in Lists /\ first = HandleStep[<<s, Head(p)>>]
      BY <2>1, HandleSteps
    <2>3. PICK g : IsRun(g, Lists, Events, HandleStep, first, rest) /\ After(first, rest) = g[Len(rest)]
      <3> HIDE DEF first, rest
      <3> QED BY <2>1, <2>2, HandleRuns
    <2>4. f[Len(p)] = g[Len(rest)]
      <3>1. HeadAndTail(p, Head(p), rest)
        BY <1>5 DEF HeadAndTail
      <3> HIDE DEF rest
      <3> QED BY <1>1, <2>2, <2>3, <3>1, RunHead
    <2> QED BY <1>1, <2>3, <2>4
  <1>6. ASSUME NEW e \in Events PROVE After(s, Append(p, e)) = Handle(After(s, p), e)
    <2> DEFINE q == Append(p, e)
    <2>1. q \in Seq(Events) /\ Longer(p, e, q)
      BY DEF Longer
    <2> HIDE DEF q
    <2>2. PICK g : IsRun(g, Lists, Events, HandleStep, s, q) /\ After(s, q) = g[Len(q)]
      BY <2>1, HandleRuns
    <2>3. g[Len(q)] = HandleStep[<<f[Len(p)], e>>]
      BY <1>1, <2>1, <2>2, RunLast
    <2>4. After(s, q) = Handle(After(s, p), e)
      BY <1>1, <1>3, <2>2, <2>3, HandleSteps
    <2> QED BY <2>4 DEF q
  <1> QED BY <1>3, <1>4, <1>5, <1>6

(* What Discover finds.                                                    *)
DirectoryOK ==
    /\ listed \in [IDs -> Instances \cup {None}]
    /\ \A id \in IDs : listed[id] # None => listed[id].id = id

Wanted(id) == listed[id] # None /\ Accepts(listed[id])

Offers == Instances \cup {None}

FoundStep == [x \in Seq(Instances) \X Offers |-> AddFound(x[1], x[2])]

LEMMA FoundSteps ==
  /\ FoundStep \in [Seq(Instances) \X Offers -> Seq(Instances)]
  /\ \A s \in Seq(Instances), e \in Offers :
        FoundStep[<<s, e>>] = AddFound(s, e) /\ AddFound(s, e) \in Seq(Instances)
  <1>1. ASSUME NEW s \in Seq(Instances), NEW e \in Offers PROVE AddFound(s, e) \in Seq(Instances)
    BY AppendProperties DEF AddFound, Offers
  <1> QED BY <1>1 DEF FoundStep

LEMMA FoundRuns ==
  ASSUME NEW p \in Seq(Offers)
  PROVE  \E run : /\ IsRun(run, Seq(Instances), Offers, FoundStep, <<>>, p)
                  /\ FoldLeft(AddFound, <<>>, p) = run[Len(p)]
  <1> DEFINE Eq(h) == h = [k \in SUBSET DOMAIN p |->
                              IF k = {} THEN <<>>
                              ELSE AddFound(h[k \ {Max(k)}], p[Max(k)])]
             fold == CHOOSE h : Eq(h)
  <1>1. PICK h : IsFold(h, Seq(Instances), Offers, FoundStep, <<>>, p)
    <2>1. <<>> \in Seq(Instances)
      OBVIOUS
    <2> QED BY <2>1, FoundSteps, FoldExists
  <1>2. ASSUME NEW k \in (SUBSET DOMAIN p) \ {{}}
        PROVE  h[k] = AddFound(h[k \ {Max(k)}], p[Max(k)]) /\ Max(k) \in k
    <2>1. Max(k) \in k /\ h[k] = FoundStep[<<h[k \ {Max(k)}], p[Max(k)]>>]
      BY <1>1 DEF IsFold
    <2>2. h[k \ {Max(k)}] \in Seq(Instances) /\ p[Max(k)] \in Offers
      BY <1>1, <2>1 DEF IsFold
    <2> QED BY <2>1, <2>2, FoundSteps
  <1>3. h[{}] = <<>> /\ h \in [SUBSET DOMAIN p -> Seq(Instances)]
    BY <1>1 DEF IsFold
  <1>4. Eq(h)
    BY <1>2, <1>3
  <1>5. Eq(fold)
    <2> HIDE DEF Eq
    <2> QED BY <1>4
  <1>6. FoldLeft(AddFound, <<>>, p) = fold[DOMAIN p]
    BY DEF FoldLeft, MapThenFoldSet
  <1> HIDE DEF fold
  <1>7. fold[DOMAIN p] = h[DOMAIN p]
    <2> DEFINE F == {k \in SUBSET DOMAIN p : fold[k] = h[k]}
    <2>1. {} \in F
      BY <1>3, <1>5
    <2>2. ASSUME NEW k \in SUBSET DOMAIN p, k # {}, \A i \in k : k \ {i} \in F PROVE k \in F
      <3>1. fold[k] = AddFound(fold[k \ {Max(k)}], p[Max(k)])
        BY <1>5, <2>2
      <3> QED BY <1>2, <2>2, <3>1
    <2>3. IsFiniteSet(DOMAIN p)
      BY FS_Interval
    <2>4. \A k \in SUBSET DOMAIN p : k \in F
      <3> HIDE DEF F
      <3> QED BY <2>1, <2>2, <2>3, SubsetInduction
    <2> QED BY <2>4
  <1> QED BY <1>1, <1>6, <1>7, FoldIsRun

LEMMA DiscoveredList ==
  ASSUME DirectoryOK
  PROVE  /\ Discovered \in Lists
         /\ \A id \in IDs : Under(Discovered, id) = IF Wanted(id) THEN {listed[id]} ELSE {}
  <1> DEFINE p == [i \in DOMAIN KeyOrder |-> listed[KeyOrder[i]]]
             n == Len(KeyOrder)
  <1>1. n \in Nat /\ DOMAIN KeyOrder = 1 .. n /\ \A i \in 1 .. n : KeyOrder[i] \in IDs
    BY KeysAssumption
  <1>2. /\ p \in Seq(Offers) /\ Len(p) = n
        /\ \A i \in 1 .. n : p[i] = listed[KeyOrder[i]] /\ p[i] \in Offers
    BY <1>1 DEF DirectoryOK, Offers
  <1>3. Discovered = FoldLeft(AddFound, <<>>, p)
    BY DEF Discovered
  <1> HIDE DEF p, n
  <1>4. PICK run : /\ IsRun(run, Seq(Instances), Offers, FoundStep, <<>>, p)
                   /\ FoldLeft(AddFound, <<>>, p) = run[Len(p)]
    BY <1>2, FoundRuns
  <1> DEFINE Found(k) == {listed[id] : id \in {KeyOrder[j] : j \in {i \in 1 .. k : Wanted(KeyOrder[i])}}}
             T == {k \in 0 .. n : run[k] \in Lists /\ Range(run[k]) = Found(k)}
  <1>5. 0 \in T
    <2>1. run[0] = <<>>
      BY <1>4 DEF IsRun
    <2>2. <<>> \in Lists
      BY DEF Lists, NoIDTwice
    <2>3. Range(<<>>) = {} /\ Found(0) = {}
      BY DEF Range
    <2> QED BY <1>1, <2>1, <2>2, <2>3
  <1>6. ASSUME NEW k \in 0 .. n - 1, k \in T PROVE k + 1 \in T
    <2> DEFINE id == KeyOrder[k + 1]
               s == run[k]
               t == run[k + 1]
    <2>1. /\ k + 1 \in 1 .. n /\ (k + 1) - 1 = k /\ k + 1 \in 0 .. n /\ k \in 0 .. n
          /\ id \in IDs /\ p[k + 1] = listed[id] /\ listed[id] \in Offers
      BY <1>1, <1>2
    <2>2. s \in Lists /\ s \in Seq(Instances) /\ NoIDTwice(s) /\ Range(s) = Found(k)
      BY <1>6 DEF Lists
    <2>3. t = AddFound(s, listed[id])
      <3>1. t = FoundStep[<<s, listed[id]>>]
        BY <1>2, <1>4, <2>1 DEF IsRun
      <3> QED BY <2>1, <2>2, <3>1, FoundSteps
    <2>4. \A j \in 1 .. k + 1 : j \in 1 .. k \/ j = k + 1
      BY <2>1
    <2>5. \A j \in 1 .. k : j \in 1 .. k + 1 /\ j # k + 1 /\ j \in 1 .. n
      BY <1>1, <2>1
    <2>6. CASE ~ Wanted(id)
      <3>1. t = s
        BY <2>3, <2>6 DEF AddFound, Wanted
      <3>2. Found(k + 1) = Found(k)
        BY <2>4, <2>5, <2>6
      <3> QED BY <2>1, <2>2, <3>1, <3>2
    <2>7. CASE Wanted(id)
      <3>1. t = Append(s, listed[id]) /\ listed[id] \in Instances /\ listed[id].id = id
        BY <2>1, <2>3, <2>7 DEF AddFound, Wanted, DirectoryOK, Offers
      <3>2. \A i \in 1 .. Len(s) : s[i].id # listed[id].id
        <4>1. ASSUME NEW i \in 1 .. Len(s) PROVE s[i].id # id
          <5>1. s[i] \in Found(k)
            <6>1. i \in DOMAIN s
              BY <2>2
            <6> QED BY <2>2, <6>1 DEF Range
          <5>2. PICK j \in 1 .. k : s[i] = listed[KeyOrder[j]] /\ Wanted(KeyOrder[j])
            BY <5>1
          <5>3. s[i].id = KeyOrder[j]
            BY <1>1, <2>5, <5>2 DEF Wanted, DirectoryOK
          <5> QED BY <1>1, <2>1, <2>5, <5>3, KeysAssumption
        <4> QED BY <3>1, <4>1
      <3>3. Kept(s, t)
        <4> HIDE DEF s, t, id
        <4> QED BY <2>2, <2>7, <3>1, <3>2, AppendKeeps DEF Wanted
      <3>4. t \in Lists
        BY <2>2, <3>3 DEF Kept, Lists
      <3>5. Range(t) = Range(s) \cup {listed[id]}
        <4> HIDE DEF t, id
        <4>1. /\ DOMAIN s = 1 .. Len(s) /\ DOMAIN t = 1 .. Len(s) + 1 /\ Len(s) \in Nat
              /\ \A i \in 1 .. Len(s) : t[i] = s[i]
              /\ t[Len(s) + 1] = listed[id]
          BY <2>2, <3>1, AppendProperties
        <4> HIDE DEF s
        <4> QED BY <4>1 DEF Range
      <3>6. Found(k + 1) = Found(k) \cup {listed[id]}
        BY <2>1, <2>4, <2>5, <2>7
      <3> QED BY <2>1, <2>2, <3>4, <3>5, <3>6
    <2> QED BY <2>6, <2>7
  <1>7. \A k \in 0 .. n : k \in T
    <2> HIDE DEF T
    <2> QED BY <1>1, <1>5, <1>6, BoundedInduction
  <1>8. Discovered \in Lists /\ Range(Discovered) = Found(n)
    BY <1>1, <1>2, <1>3, <1>4, <1>7
  <1>9. \A id \in IDs : \E i \in 1 .. n : KeyOrder[i] = id
    BY <1>1, KeysAssumption
  <1>10. \A x : x \in Range(Discovered) <=> \E id \in IDs : Wanted(id) /\ x = listed[id]
    BY <1>1, <1>8, <1>9
  <1>11. \A id \in IDs : Under(Discovered, id) = IF Wanted(id) THEN {listed[id]} ELSE {}
    BY <1>10 DEF Under, Wanted, DirectoryOK
  <1> QED BY <1>8, <1>11

(* The resolvers' lists and the events on their way to them.               *)
ListInv ==
    /\ DirectoryOK
    /\ list \in [Slots -> Lists] /\ room \in [Slots -> Nat]
    /\ \A r \in Slots : Len(list[r]) <= room[r]
    /\ pipe \in [Slots -> Seq(Events)] /\ missed \in [Slots -> SUBSET IDs]
    /\ \A r \in Slots : /\ loop[r] \in {"free", "created", "ended"} => pipe[r] = <<>>
                        /\ loop[r] = "free" => list[r] = <<>>

LEMMA EmptyLists == <<>> \in Lists /\ <<>> \in Seq(Events) /\ Len(<<>>) = 0
  BY DEF Lists, NoIDTwice

LEMMA ListInit == Init => ListInv
  BY EmptyLists DEF Init, DirectoryInit, ListInv, DirectoryOK

LEMMA TellKeepsLists ==
  ASSUME PoolInv, ListInv,
         NEW id \in IDs, NEW event \in Events, Tell(id, event), DirectoryOK'
  PROVE  ListInv'
  <1>1. UNCHANGED <<list, room, loop>>
    BY DEF Tell
  <1>2. /\ pipe' \in [Slots -> Seq(Events)]
        /\ \A r \in Slots : loop[r] # "watching" => pipe'[r] = pipe[r]
    <2>1. \A r \in Slots : Append(pipe[r], event) \in Seq(Events)
      BY AppendProperties DEF ListInv
    <2> QED BY <2>1 DEF Tell, ListInv
  <1>3. missed' \in [Slots -> SUBSET IDs]
    BY DEF Tell, ListInv
  <1> QED BY <1>1, <1>2, <1>3 DEF ListInv

LEMMA PutTells ==
  ASSUME DirectoryOK, NEW inst \in Instances, InstancePut(inst)
  PROVE  LET event == [type |-> "put", instance |-> inst] IN
         /\ DirectoryOK' /\ Tell(inst.id, event) /\ inst.id \in IDs
         /\ event \in Events /\ EventID(event) = inst.id
         /\ listed' = [listed EXCEPT ![inst.id] = inst] /\ inst # None
  <1>1. inst.id \in IDs /\ inst # None /\ listed' = [listed EXCEPT ![inst.id] = inst]
    BY InstancesAssumption DEF InstancePut, Publish
  <1>2. DirectoryOK'
    BY <1>1 DEF DirectoryOK
  <1> QED BY <1>1, <1>2 DEF InstancePut, Events, EventID

LEMMA DeleteTells ==
  ASSUME DirectoryOK, NEW id \in IDs, InstanceDeleted(id)
  PROVE  LET event == [type |-> "delete", key |-> BuildKey(RegistryPrefix, id)] IN
         /\ DirectoryOK' /\ Tell(id, event)
         /\ event \in Events /\ EventID(event) = id
         /\ listed' = [listed EXCEPT ![id] = None]
  <1>1. listed' = [listed EXCEPT ![id] = None]
    BY DEF InstanceDeleted, Withdraw
  <1>2. DirectoryOK'
    BY <1>1 DEF DirectoryOK
  <1> QED BY <1>1, <1>2 DEF InstanceDeleted, Events, EventID, BuildKey

(* The event that the watch loop takes out of the pipe. *)
LEMMA HandledEvent ==
  ASSUME ListInv, NEW r \in Slots, HandleEvent(r)
  PROVE  /\ pipe[r] \in Seq(Events) /\ pipe[r] # <<>>
         /\ Head(pipe[r]) \in Events /\ Tail(pipe[r]) \in Seq(Events)
         /\ list[r] \in Lists /\ Kept(list[r], Handle(list[r], Head(pipe[r])))
         /\ Handle(list[r], Head(pipe[r])) \in Lists
         /\ list' = [list EXCEPT ![r] = Handle(list[r], Head(pipe[r]))]
         /\ pipe' = [pipe EXCEPT ![r] = Tail(pipe[r])]
         /\ loop[r] \in {"watching", "lost"}
         /\ UNCHANGED <<listed, loop, closed, rpc, using>>
  <1>1. /\ pipe[r] \in Seq(Events) /\ pipe[r] # <<>> /\ list[r] \in Lists
        /\ list' = [list EXCEPT ![r] = Handle(list[r], Head(pipe[r]))]
        /\ pipe' = [pipe EXCEPT ![r] = Tail(pipe[r])]
        /\ loop[r] \in {"watching", "lost"}
        /\ UNCHANGED <<listed, loop, closed, rpc, using>>
    BY DEF ListInv, HandleEvent, WriteList, registryVars
  <1>2. Head(pipe[r]) \in Events /\ Tail(pipe[r]) \in Seq(Events)
    BY <1>1
  <1>3. Kept(list[r], Handle(list[r], Head(pipe[r])))
    BY <1>1, <1>2, HandleKeeps DEF Lists
  <1>4. Handle(list[r], Head(pipe[r])) \in Lists
    BY <1>1, <1>2, HandleSteps
  <1> QED BY <1>1, <1>2, <1>3, <1>4

LEMMA HandleEventKeepsLists ==
  ASSUME ListInv, NEW r \in Slots, HandleEvent(r)
  PROVE  ListInv'
  <1> DEFINE after == Handle(list[r], Head(pipe[r]))
  <1>1. /\ after \in Lists /\ Len(after) <= Len(list[r]) + 1 /\ Len(after) \in Nat
        /\ list' = [list EXCEPT ![r] = after] /\ Tail(pipe[r]) \in Seq(Events)
        /\ pipe' = [pipe EXCEPT ![r] = Tail(pipe[r])]
        /\ loop[r] \in {"watching", "lost"} /\ UNCHANGED <<listed, loop>>
    BY HandledEvent DEF Kept
  <1>2. /\ list' \in [Slots -> Lists] /\ pipe' \in [Slots -> Seq(Events)]
        /\ \A s \in Slots : s # r => list'[s] = list[s] /\ pipe'[s] = pipe[s]
        /\ list'[r] = after
    BY <1>1 DEF ListInv
  <1>3. missed' \in [Slots -> SUBSET IDs]
    BY DEF HandleEvent, ListInv
  <1>4. /\ room' \in [Slots -> Nat] /\ \A s \in Slots : s # r => room'[s] = room[s]
        /\ Len(after) <= room'[r]
    <2>1. room[r] \in Nat /\ Len(list[r]) <= room[r] /\ Len(list[r]) \in Nat
      BY DEF ListInv, Lists
    <2>2. CASE Len(after) <= room[r]
      <3>1. UNCHANGED room
        BY <2>2 DEF HandleEvent, WriteList
      <3> QED BY <2>2, <3>1 DEF ListInv
    <2>3. CASE ~ (Len(after) <= room[r])
      <3> DEFINE more == IF room[r] = 0 THEN 1 ELSE 2 * room[r]
      <3>1. room' = [room EXCEPT ![r] = more]
        BY <2>3 DEF HandleEvent, WriteList
      <3>2. more \in Nat /\ Len(after) <= more
        BY <1>1, <2>1, <2>3
      <3> HIDE DEF more, after
      <3> QED BY <3>1, <3>2 DEF ListInv
    <2> QED BY <2>2, <2>3
  <1> HIDE DEF after
  <1>5. \A s \in Slots : Len(list'[s]) <= room'[s]
    BY <1>2, <1>4 DEF ListInv
  <1>6. \A s \in Slots : /\ loop'[s] \in {"free", "created", "ended"} => pipe'[s] = <<>>
                         /\ loop'[s] = "free" => list'[s] = <<>>
    BY <1>1, <1>2 DEF ListInv
  <1>7. DirectoryOK'
    BY <1>1 DEF ListInv, DirectoryOK
  <1> QED BY <1>2, <1>3, <1>4, <1>5, <1>6, <1>7 DEF ListInv

(* A fetched list replaces r's, or it stays. *)
LEMMA FetchedKeepsLists ==
  ASSUME PoolInv, ListInv, NEW r \in Slots, UNCHANGED <<listed, pipe>>,
         \/ UNCHANGED <<list, room>>
         \/ /\ list' = [list EXCEPT ![r] = Discovered]
            /\ room' = [room EXCEPT ![r] = Len(Discovered)],
         missed' \in [Slots -> SUBSET IDs],
         NEW next \in {"created", "lost", "ended"}, loop' = [loop EXCEPT ![r] = next],
         next # "lost" => pipe[r] = <<>>
  PROVE  ListInv'
  <1>1. Discovered \in Lists /\ Len(Discovered) \in Nat
    BY DiscoveredList DEF ListInv, Lists
  <1>2. list' \in [Slots -> Lists] /\ room' \in [Slots -> Nat]
    BY <1>1 DEF ListInv
  <1>3. \A s \in Slots : Len(list'[s]) <= room'[s]
    BY <1>1 DEF ListInv
  <1>4. \A s \in Slots : /\ loop'[s] \in {"free", "created", "ended"} => pipe'[s] = <<>>
                         /\ loop'[s] = "free" => list'[s] = <<>>
    BY DEF ListInv, PoolInv, PoolTypes
  <1> QED BY <1>2, <1>3, <1>4 DEF ListInv, DirectoryOK

LEMMA ListStep == PoolInv /\ ListInv /\ [Next]_vars => ListInv'
  <1> SUFFICES ASSUME PoolInv, ListInv, [Next]_vars PROVE ListInv'
    OBVIOUS
  <1>1. ASSUME UNCHANGED <<listed, list, room, loop, pipe, missed>> PROVE ListInv'
    BY <1>1 DEF ListInv, DirectoryOK
  <1>2. ASSUME NEW inst \in Instances, InstancePut(inst) PROVE ListInv'
    BY <1>2, PutTells, TellKeepsLists DEF ListInv
  <1>3. ASSUME NEW id \in IDs, InstanceDeleted(id) PROVE ListInv'
    BY <1>3, DeleteTells, TellKeepsLists DEF ListInv
  <1>4. ASSUME NEW r \in Slots, WatchLost(r) PROVE ListInv'
    <2>1. UNCHANGED <<listed, list, room, pipe, missed>> /\ loop' = [loop EXCEPT ![r] = "lost"]
      BY <1>4 DEF WatchLost
    <2>2. missed' \in [Slots -> SUBSET IDs]
      BY <2>1 DEF ListInv
    <2> QED BY <2>1, <2>2, FetchedKeepsLists
  <1>5. ASSUME NEW r \in Slots, FullRefresh(r) PROVE ListInv'
    <2>1. /\ UNCHANGED <<listed, pipe>> /\ loop' = [loop EXCEPT ![r] = "ended"]
          /\ pipe[r] = <<>>
          /\ \/ UNCHANGED <<list, room>>
             \/ /\ list' = [list EXCEPT ![r] = Discovered]
                /\ room' = [room EXCEPT ![r] = Len(Discovered)]
      BY <1>5 DEF FullRefresh, ReplaceList
    <2>2. missed' \in [Slots -> SUBSET IDs]
      BY <1>5 DEF FullRefresh, ListInv
    <2> QED BY <2>1, <2>2, FetchedKeepsLists
  <1>6. ASSUME NEW r \in Slots, LoopReturn(r) PROVE ListInv'
    <2>1. /\ UNCHANGED <<listed, list, room, missed>> /\ loop' = [loop EXCEPT ![r] = "ended"]
          /\ pipe' = [pipe EXCEPT ![r] = <<>>]
      BY <1>6 DEF LoopReturn, registryVars
    <2>2. pipe' \in [Slots -> Seq(Events)] /\ pipe'[r] = <<>>
      BY <2>1, EmptyLists DEF ListInv
    <2>3. \A s \in Slots : /\ loop'[s] \in {"free", "created", "ended"} => pipe'[s] = <<>>
                           /\ loop'[s] = "free" => list'[s] = <<>>
      BY <2>1 DEF ListInv, PoolInv, PoolTypes
    <2> QED BY <2>1, <2>2, <2>3 DEF ListInv, DirectoryOK
  <1>7. ASSUME NEW r \in Slots, Collect(r) PROVE ListInv'
    <2>1. /\ UNCHANGED <<listed, pipe>> /\ loop' = [loop EXCEPT ![r] = "free"] /\ loop[r] = "ended"
          /\ list' = [list EXCEPT ![r] = <<>>] /\ room' = [room EXCEPT ![r] = 0]
          /\ missed' = [missed EXCEPT ![r] = {}]
      BY <1>7 DEF Collect, registryVars
    <2>2. list' \in [Slots -> Lists] /\ room' \in [Slots -> Nat] /\ missed' \in [Slots -> SUBSET IDs]
      BY <2>1, EmptyLists DEF ListInv
    <2>3. \A s \in Slots : Len(list'[s]) <= room'[s]
      BY <2>1, EmptyLists DEF ListInv
    <2>4. \A s \in Slots : /\ loop'[s] \in {"free", "created", "ended"} => pipe'[s] = <<>>
                           /\ loop'[s] = "free" => list'[s] = <<>>
      BY <2>1 DEF ListInv, PoolInv, PoolTypes
    <2> QED BY <2>1, <2>2, <2>3, <2>4 DEF ListInv, DirectoryOK
  <1>8. ASSUME NEW q \in Requests, Fetch(q) PROVE ListInv'
    <2>1. PICK r \in Slots : /\ loop[r] = "free" /\ list' = [list EXCEPT ![r] = Discovered]
                             /\ room' = [room EXCEPT ![r] = Len(Discovered)]
                             /\ loop' = [loop EXCEPT ![r] = "created"]
      BY <1>8 DEF Fetch
    <2>2. UNCHANGED <<listed, pipe, missed>> /\ pipe[r] = <<>>
      BY <1>8, <2>1 DEF Fetch, registryVars, ListInv
    <2>3. missed' \in [Slots -> SUBSET IDs]
      BY <2>2 DEF ListInv
    <2> QED BY <2>1, <2>2, <2>3, FetchedKeepsLists
  <1>9. ASSUME NEW q \in Requests, Watch(q) PROVE ListInv'
    <2>1. UNCHANGED <<listed, list, room, pipe, missed>> /\ loop' = [loop EXCEPT ![using[q]] = "watching"]
      BY <1>9 DEF Watch, registryVars
    <2>2. \A s \in Slots : loop'[s] = loop[s] \/ loop'[s] = "watching"
      BY <2>1 DEF PoolInv, PoolTypes
    <2> QED BY <2>1, <2>2 DEF ListInv, DirectoryOK
  <1>10. ASSUME NEW q \in Requests,
                \/ Lookup(q) \/ Relookup(q) \/ FetchFails(q) \/ ResolveNone(q) \/ Resolve(q) \/ Pick(q)
                \/ ReadCell(q) \/ KeepNodes(q) \/ Differs(q) \/ RebuildNodes(q)
         PROVE  ListInv'
    <2>1. UNCHANGED <<listed, list, room, loop, pipe, missed>>
      BY <1>10 DEF Lookup, Relookup, FetchFails, ResolveNone, Resolve, Pick, ReadCell, KeepNodes, Differs,
                   RebuildNodes, EndPick, registryVars, resolverVars
    <2> QED BY <1>1, <2>1
  <1>11. ASSUME (\E s \in Strategies : UpdateStrategy(s)) \/ Close PROVE ListInv'
    BY <1>1, <1>11 DEF UpdateStrategy, Close, CloseAll, registryVars
  <1>12. ASSUME UNCHANGED vars PROVE ListInv'
    BY <1>1, <1>12 DEF vars, registryVars, resolverVars
  <1>13. ASSUME NEW r \in Slots, HandleEvent(r) PROVE ListInv'
    BY <1>13, HandleEventKeepsLists
  <1> QED BY <1>2, <1>3, <1>4, <1>5, <1>6, <1>7, <1>8, <1>9, <1>10, <1>11, <1>12, <1>13
          DEF Next, ResolverStep, RequestStep

-----------------------------------------------------------------------------
(* The slices that requests pick from: the cells that the list reaches are *)
(* the list's, as long as the slice is in its array.                       *)
SameCells(slice, s) == \A i \in DOMAIN slice \cap DOMAIN s : slice[i] = s[i]

SliceInv ==
    /\ view \in [Requests -> Seq(Instances)] /\ stayed \in [Requests -> SUBSET IDs]
    /\ shared \subseteq {q \in Requests : HasSlice(q)}
    /\ \A q \in Requests : HasSlice(q) =>
          view[q] # <<>> /\ stayed[q] \subseteq IDsIn(view[q]) \cap IDsIn(list[using[q]])
    /\ \A q \in shared :
          Len(view[q]) <= room[using[q]] /\ SameCells(view[q], list[using[q]])

LEMMA SliceInit == Init => SliceInv
  <1> SUFFICES ASSUME Init PROVE SliceInv
    OBVIOUS
  <1>1. \A q \in Requests : ~ HasSlice(q)
    BY DEF Init, HasSlice, Reads
  <1> QED BY <1>1 DEF Init, SliceInv

(* An event is handled in the array of a slice: what has stayed in the     *)
(* list has not moved beyond the end of the slice.                         *)
LEMMA OverwriteKeeps ==
  ASSUME NEW s \in Seq(Instances), NEW v \in Seq(Instances), v # <<>>, SameCells(v, s),
         NEW after, Kept(s, after), NEW ids, ids \subseteq IDsIn(v) \cap IDsIn(s),
         NEW w, w = Overwrite(v, after)
  PROVE  /\ w \in Seq(Instances) /\ Len(w) = Len(v) /\ w # <<>> /\ SameCells(w, after)
         /\ ids \cap IDsIn(after) \subseteq IDsIn(w)
  <1>1. /\ Len(v) \in Nat /\ DOMAIN v = 1 .. Len(v) /\ Len(s) \in Nat /\ DOMAIN s = 1 .. Len(s)
        /\ after \in Seq(Instances) /\ Len(after) \in Nat /\ DOMAIN after = 1 .. Len(after)
        /\ \A i \in 1 .. Len(v) : v[i] \in Instances
        /\ \A i \in 1 .. Len(after) : after[i] \in Instances
    BY DEF Kept
  <1>2. /\ w \in [1 .. Len(v) -> Instances]
        /\ \A i \in 1 .. Len(v) : w[i] = IF i <= Len(after) THEN after[i] ELSE v[i]
    BY <1>1 DEF Overwrite
  <1>3. w \in Seq(Instances) /\ Len(w) = Len(v) /\ DOMAIN w = 1 .. Len(v)
    BY <1>1, <1>2
  <1>4. w # <<>>
    BY <1>1, <1>3
  <1>5. SameCells(w, after)
    BY <1>1, <1>2, <1>3 DEF SameCells
  <1>6. ASSUME NEW id \in ids, id \in IDsIn(after) PROVE id \in IDsIn(w)
    <2>1. PICK k \in 1 .. Len(v) : v[k].id = id
      BY <1>1 DEF IDsIn
    <2>2. PICK l \in 1 .. Len(s) : s[l].id = id
      BY <1>1 DEF IDsIn
    <2>3. \E i \in 1 .. Len(s) : i <= Len(v) /\ s[i].id = id
      BY <1>1, <2>1, <2>2 DEF SameCells
    <2>4. PICK i \in 1 .. Len(s) : i <= Len(v) /\ s[i].id = id
      BY <2>3
    <2>5. PICK j \in 1 .. Len(after) : j <= i /\ after[j].id = id
      BY <1>1, <1>6, <2>4 DEF Kept, MovesForward
    <2>6. j \in 1 .. Len(v) /\ w[j].id = id
      BY <1>1, <1>2, <2>4, <2>5
    <2> QED BY <1>3, <2>6 DEF IDsIn
  <1> QED BY <1>3, <1>4, <1>5, <1>6

LEMMA HandleEventKeepsSlices ==
  ASSUME PoolInv, ListInv, SliceInv, NEW r \in Slots, HandleEvent(r)
  PROVE  SliceInv'
  <1> USE DEF HasSlice, Reads
  <1> DEFINE after == Handle(list[r], Head(pipe[r]))
             picking == {q \in Requests : using[q] = r /\ HasSlice(q)}
  <1>1. /\ list[r] \in Seq(Instances) /\ Kept(list[r], after)
        /\ list' = [list EXCEPT ![r] = after] /\ UNCHANGED <<rpc, using>>
    BY HandledEvent DEF Lists
  <1>2. /\ \/ /\ view' = [q \in Requests |-> IF q \in picking \cap shared
                                             THEN Overwrite(view[q], after) ELSE view[q]]
              /\ UNCHANGED <<room, shared>>
           \/ /\ \A s \in Slots : s # r => room'[s] = room[s]
              /\ shared' = shared \ picking
              /\ UNCHANGED view
        /\ stayed' = [q \in Requests |-> IF q \in picking THEN stayed[q] \cap IDsIn(after)
                                                          ELSE stayed[q]]
    BY DEF HandleEvent, WriteList, ListInv
  <1>3. list'[r] = after /\ \A s \in Slots : s # r => list'[s] = list[s]
    BY <1>1 DEF ListInv
  <1> HIDE DEF after
  <1>4. stayed' \in [Requests -> SUBSET IDs]
    BY <1>2 DEF SliceInv
  <1>5. shared' \subseteq {q \in Requests : HasSlice(q)'}
    BY <1>1, <1>2 DEF SliceInv
  <1>6. ASSUME NEW q \in Requests, q \in picking \cap shared', q \in shared
        PROVE  /\ view'[q] \in Seq(Instances) /\ Len(view'[q]) = Len(view[q]) /\ view'[q] # <<>>
               /\ SameCells(view'[q], after) /\ UNCHANGED room
               /\ stayed'[q] \subseteq IDsIn(view'[q]) \cap IDsIn(after)
    <2>1. /\ UNCHANGED room /\ view'[q] = Overwrite(view[q], after)
          /\ stayed'[q] = stayed[q] \cap IDsIn(after)
      BY <1>2, <1>6
    <2>2. /\ view[q] \in Seq(Instances) /\ view[q] # <<>> /\ SameCells(view[q], list[r])
          /\ stayed[q] \subseteq IDsIn(view[q]) \cap IDsIn(list[r])
      BY <1>6 DEF SliceInv
    <2> QED BY <1>1, <2>1, <2>2, OverwriteKeeps
  <1>7. ASSUME NEW q \in Requests, q \notin picking \/ q \notin shared'
        PROVE  /\ view'[q] = view[q] /\ (q \in shared' => q \in shared /\ q \notin picking)
    BY <1>2, <1>7
  <1>8. view' \in [Requests -> Seq(Instances)]
    <2>1. \A q \in Requests : view'[q] \in Seq(Instances)
      BY <1>2, <1>6, <1>7 DEF SliceInv
    <2>2. DOMAIN view' = Requests /\ view' = [q \in Requests |-> view'[q]]
      BY <1>2 DEF SliceInv
    <2> QED BY <2>1, <2>2
  <1>9. ASSUME NEW q \in Requests, HasSlice(q)'
        PROVE  view'[q] # <<>> /\ stayed'[q] \subseteq IDsIn(view'[q]) \cap IDsIn(list'[using'[q]])
    <2>1. /\ HasSlice(q) /\ using[q] \in Slots /\ view[q] # <<>>
          /\ stayed[q] \subseteq IDsIn(view[q]) \cap IDsIn(list[using[q]])
      BY <1>1, <1>9 DEF PoolInv, PoolTypes, PoolRefs, SliceInv
    <2>2. CASE q \in picking /\ q \in shared'
      BY <1>1, <1>2, <1>3, <1>6, <2>2
    <2>3. CASE q \in picking /\ q \notin shared'
      BY <1>1, <1>2, <1>3, <1>7, <2>1, <2>3
    <2>4. CASE q \notin picking
      BY <1>1, <1>2, <1>3, <1>7, <2>1, <2>4
    <2> QED BY <2>2, <2>3, <2>4
  <1>10. ASSUME NEW q \in shared'
         PROVE  Len(view'[q]) <= room'[using'[q]] /\ SameCells(view'[q], list'[using'[q]])
    <2>1. /\ q \in Requests /\ HasSlice(q) /\ using[q] \in Slots /\ q \in shared
          /\ Len(view[q]) <= room[using[q]] /\ SameCells(view[q], list[using[q]])
      BY <1>2, <1>10 DEF PoolInv, PoolTypes, PoolRefs, SliceInv
    <2>2. CASE q \in picking
      BY <1>1, <1>3, <1>6, <1>10, <2>1, <2>2
    <2>3. CASE q \notin picking
      BY <1>1, <1>2, <1>3, <1>7, <2>1, <2>3
    <2> QED BY <2>2, <2>3
  <1> QED BY <1>4, <1>5, <1>8, <1>9, <1>10 DEF SliceInv

(* Slices of other resolvers' lists, or of an array the resolver has left. *)
LEMMA FetchedKeepsSlices ==
  ASSUME PoolInv, ListInv, SliceInv, NEW r \in Slots,
         NEW picking, picking = {q \in Requests : using[q] = r /\ HasSlice(q)},
         UNCHANGED view, \A s \in Slots : s # r => list'[s] = list[s] /\ room'[s] = room[s],
         shared' = shared \ picking, stayed' \in [Requests -> SUBSET IDs],
         \A q \in Requests : stayed'[q] \subseteq stayed[q],
         \A q \in picking : stayed'[q] \subseteq IDsIn(list'[r]),
         \A q \in Requests : HasSlice(q)' <=> HasSlice(q),
         \A q \in Requests : HasSlice(q) => using'[q] = using[q]
  PROVE  SliceInv'
  <1>1. view' \in [Requests -> Seq(Instances)] /\ shared' \subseteq {q \in Requests : HasSlice(q)'}
    BY DEF SliceInv
  <1>2. \A q \in Requests : HasSlice(q) => using[q] \in Slots
    BY DEF PoolInv, PoolTypes, PoolRefs, HasSlice, Reads
  <1>3. \A q \in Requests : HasSlice(q)' =>
          view'[q] # <<>> /\ stayed'[q] \subseteq IDsIn(view'[q]) \cap IDsIn(list'[using'[q]])
    BY <1>2 DEF SliceInv
  <1>4. \A q \in shared' :
          Len(view'[q]) <= room'[using'[q]] /\ SameCells(view'[q], list'[using'[q]])
    BY <1>2 DEF SliceInv
  <1> QED BY <1>1, <1>3, <1>4 DEF SliceInv

LEMMA ResolveKeepsSlices ==
  ASSUME PoolInv, ListInv, SliceInv, NEW q \in Requests, Resolve(q)
  PROVE  SliceInv'
  <1> USE DEF HasSlice, Reads
  <1> DEFINE s == list[using[q]]
  <1>1. /\ rpc[q] = "resolve" /\ s # <<>> /\ rpc' = [rpc EXCEPT ![q] = "pick"]
        /\ view' = [view EXCEPT ![q] = s] /\ shared' = shared \cup {q}
        /\ stayed' = [stayed EXCEPT ![q] = IDsIn(s)] /\ UNCHANGED <<list, room, using>>
    BY DEF Resolve, RequestGoto, resolverVars
  <1>2. using[q] \in Slots /\ s \in Seq(Instances) /\ Len(s) <= room[using[q]]
    BY <1>1 DEF PoolInv, PoolTypes, PoolRefs, ListInv, Lists
  <1>3. SameCells(s, s)
    BY DEF SameCells
  <1>4. IDsIn(s) \subseteq IDs
    <2>1. \A i \in DOMAIN s : s[i] \in Instances
      BY <1>2
    <2> QED BY <2>1, InstancesAssumption DEF IDsIn
  <1>5. /\ HasSlice(q)' /\ view'[q] = s /\ stayed'[q] = IDsIn(s)
        /\ \A p \in Requests : p # q => rpc'[p] = rpc[p] /\ view'[p] = view[p] /\ stayed'[p] = stayed[p]
    BY <1>1 DEF SliceInv, PoolInv, PoolTypes
  <1> HIDE DEF s
  <1>6. view' \in [Requests -> Seq(Instances)] /\ stayed' \in [Requests -> SUBSET IDs]
    BY <1>1, <1>2, <1>4 DEF SliceInv
  <1>7. shared' \subseteq {p \in Requests : HasSlice(p)'}
    BY <1>1, <1>5 DEF SliceInv
  <1>8. \A p \in Requests : HasSlice(p)' =>
          view'[p] # <<>> /\ stayed'[p] \subseteq IDsIn(view'[p]) \cap IDsIn(list'[using'[p]])
    BY <1>1, <1>5 DEF SliceInv, s
  <1>9. \A p \in shared' :
          Len(view'[p]) <= room'[using'[p]] /\ SameCells(view'[p], list'[using'[p]])
    BY <1>1, <1>2, <1>3, <1>5 DEF SliceInv, s
  <1> QED BY <1>6, <1>7, <1>8, <1>9 DEF SliceInv

LEMMA PickKeepsSlices ==
  ASSUME PoolInv, SliceInv, NEW q \in Requests, EndPick(q)
  PROVE  SliceInv'
  <1> USE DEF HasSlice, Reads
  <1>1. /\ rpc' = [rpc EXCEPT ![q] = "idle"] /\ using' = [using EXCEPT ![q] = None]
        /\ view' = [view EXCEPT ![q] = <<>>] /\ shared' = shared \ {q}
        /\ stayed' = [stayed EXCEPT ![q] = {}] /\ UNCHANGED <<list, room>>
    BY DEF EndPick, RequestGoto
  <1>2. /\ rpc'[q] = "idle"
        /\ \A p \in Requests : p # q => /\ rpc'[p] = rpc[p] /\ view'[p] = view[p]
                                        /\ stayed'[p] = stayed[p] /\ using'[p] = using[p]
    BY <1>1 DEF SliceInv, PoolInv, PoolTypes
  <1>3. view' \in [Requests -> Seq(Instances)] /\ stayed' \in [Requests -> SUBSET IDs]
    BY <1>1 DEF SliceInv
  <1>4. shared' \subseteq {p \in Requests : HasSlice(p)'}
    BY <1>1, <1>2 DEF SliceInv
  <1>5. \A p \in Requests : HasSlice(p)' =>
          view'[p] # <<>> /\ stayed'[p] \subseteq IDsIn(view'[p]) \cap IDsIn(list'[using'[p]])
    BY <1>1, <1>2 DEF SliceInv
  <1>6. \A p \in shared' :
          Len(view'[p]) <= room'[using'[p]] /\ SameCells(view'[p], list'[using'[p]])
    BY <1>1, <1>2 DEF SliceInv
  <1> QED BY <1>3, <1>4, <1>5, <1>6 DEF SliceInv

LEMMA SliceStep == PoolInv /\ ListInv /\ SliceInv /\ [Next]_vars => SliceInv'
  <1> SUFFICES ASSUME PoolInv, ListInv, SliceInv, [Next]_vars PROVE SliceInv'
    OBVIOUS
  <1>1. ASSUME UNCHANGED <<list, room, viewVars>>,
               \A q \in Requests : /\ HasSlice(q)' <=> HasSlice(q)
                                   /\ HasSlice(q) => using'[q] = using[q]
        PROVE  SliceInv'
    <2>1. UNCHANGED <<list, room, view, shared, stayed>>
      BY <1>1 DEF viewVars
    <2> QED BY <1>1, <2>1 DEF SliceInv
  <1>2. ASSUME UNCHANGED <<list, room, requestVars>> PROVE SliceInv'
    BY <1>1, <1>2 DEF requestVars, HasSlice, Reads
  <1>3. ASSUME NEW r \in Slots, HandleEvent(r) PROVE SliceInv'
    BY <1>3, HandleEventKeepsSlices
  <1>4. ASSUME NEW r \in Slots, FullRefresh(r) PROVE SliceInv'
    <2>1. UNCHANGED <<rpc, using>>
      BY <1>4 DEF FullRefresh
    <2>2. CASE UNCHANGED <<list, room, viewVars>>
      BY <1>1, <2>1, <2>2 DEF HasSlice, Reads
    <2>3. CASE ReplaceList(r)
      <3> DEFINE picking == {q \in Requests : using[q] = r /\ HasSlice(q)}
      <3>1. /\ UNCHANGED view /\ shared' = shared \ picking
            /\ list' = [list EXCEPT ![r] = Discovered] /\ room' = [room EXCEPT ![r] = Len(Discovered)]
            /\ stayed' = [q \in Requests |-> IF q \in picking THEN stayed[q] \cap IDsIn(Discovered)
                                                              ELSE stayed[q]]
        BY <2>3 DEF ReplaceList
      <3>2. list'[r] = Discovered /\ \A s \in Slots : s # r => list'[s] = list[s] /\ room'[s] = room[s]
        BY <3>1 DEF ListInv
      <3>3. /\ stayed' \in [Requests -> SUBSET IDs] /\ \A q \in Requests : stayed'[q] \subseteq stayed[q]
            /\ \A q \in picking : stayed'[q] \subseteq IDsIn(list'[r])
        BY <3>1, <3>2 DEF SliceInv
      <3>4. \A q \in Requests : HasSlice(q)' <=> HasSlice(q)
        BY <2>1 DEF HasSlice, Reads
      <3> QED BY <2>1, <3>1, <3>2, <3>3, <3>4, FetchedKeepsSlices
    <2> QED BY <1>4, <2>2, <2>3 DEF FullRefresh
  (* Nobody picks from a free resolver, or one that becomes free. *)
  <1>5. ASSUME NEW r \in Slots, \A q \in Requests : using[q] # r \/ ~ HasSlice(q),
               \A s \in Slots : s # r => list'[s] = list[s] /\ room'[s] = room[s],
               UNCHANGED viewVars,
               \A q \in Requests : /\ HasSlice(q)' <=> HasSlice(q)
                                   /\ HasSlice(q) => using'[q] = using[q]
        PROVE  SliceInv'
    <2> DEFINE picking == {q \in Requests : using[q] = r /\ HasSlice(q)}
    <2>1. UNCHANGED <<view, shared, stayed>>
      BY <1>5 DEF viewVars
    <2>2. picking = {} /\ shared' = shared \ picking /\ stayed' \in [Requests -> SUBSET IDs]
      BY <1>5, <2>1 DEF SliceInv
    <2>3. /\ \A q \in Requests : stayed'[q] \subseteq stayed[q]
          /\ \A q \in picking : stayed'[q] \subseteq IDsIn(list'[r])
      BY <2>1, <2>2
    <2> HIDE DEF picking
    <2>4. picking = {q \in Requests : using[q] = r /\ HasSlice(q)}
      BY DEF picking
    <2> QED BY <1>5, <2>1, <2>2, <2>3, <2>4, FetchedKeepsSlices
  <1>6. ASSUME NEW r \in Slots, Collect(r) PROVE SliceInv'
    <2>1. /\ \A q \in Requests : using[q] # r
          /\ list' = [list EXCEPT ![r] = <<>>] /\ room' = [room EXCEPT ![r] = 0]
          /\ UNCHANGED <<rpc, using, viewVars>>
      BY <1>6 DEF Collect, requestVars
    <2>2. \A s \in Slots : s # r => list'[s] = list[s] /\ room'[s] = room[s]
      BY <2>1 DEF ListInv
    <2>3. \A q \in Requests : HasSlice(q)' <=> HasSlice(q)
      BY <2>1 DEF HasSlice, Reads
    <2> QED BY <1>5, <2>1, <2>2, <2>3
  <1>7. ASSUME NEW q \in Requests, Fetch(q) PROVE SliceInv'
    <2>1. PICK r \in Slots : /\ loop[r] = "free" /\ using' = [using EXCEPT ![q] = r]
                             /\ list' = [list EXCEPT ![r] = Discovered]
                             /\ room' = [room EXCEPT ![r] = Len(Discovered)]
      BY <1>7 DEF Fetch
    <2>2. UNCHANGED viewVars /\ rpc[q] = "fetching" /\ rpc' = [rpc EXCEPT ![q] = "watching"]
      BY <1>7 DEF Fetch, RequestGoto
    <2>3. \A p \in Requests : using[p] # r \/ ~ HasSlice(p)
      BY <2>1 DEF PoolInv, PoolRefs, HasSlice, Reads
    <2>4. \A s \in Slots : s # r => list'[s] = list[s] /\ room'[s] = room[s]
      BY <2>1 DEF ListInv
    <2>5. \A p \in Requests : /\ HasSlice(p)' <=> HasSlice(p)
                              /\ HasSlice(p) => using'[p] = using[p]
      BY <2>1, <2>2 DEF PoolInv, PoolTypes, HasSlice, Reads
    <2> QED BY <1>5, <2>2, <2>3, <2>4, <2>5
  <1>8. ASSUME NEW q \in Requests, Lookup(q) \/ Relookup(q) \/ FetchFails(q) \/ Watch(q) \/ ResolveNone(q)
        PROVE  SliceInv'
    <2>1. /\ UNCHANGED <<list, room, viewVars>> /\ ~ HasSlice(q)
          /\ \E next \in {"idle", "locking", "fetching", "watching", "resolve"} :
                rpc' = [rpc EXCEPT ![q] = next]
          /\ \/ UNCHANGED using
             \/ \E s \in Slots \cup {None} : using' = [using EXCEPT ![q] = s]
      BY <1>8 DEF Lookup, Relookup, FetchFails, Watch, ResolveNone, RequestGoto, resolverVars,
                  PoolInv, PoolTypes, HasSlice, Reads
    <2>2. \A p \in Requests : /\ HasSlice(p)' <=> HasSlice(p)
                              /\ HasSlice(p) => using'[p] = using[p]
      BY <2>1 DEF PoolInv, PoolTypes, HasSlice, Reads
    <2> QED BY <1>1, <2>1, <2>2
  <1>9. ASSUME \/ \E inst \in Instances : InstancePut(inst)
               \/ \E id \in IDs : InstanceDeleted(id)
        PROVE  SliceInv'
    BY <1>2, <1>9 DEF InstancePut, InstanceDeleted, Tell
  <1>10. ASSUME NEW r \in Slots, WatchLost(r) \/ LoopReturn(r) PROVE SliceInv'
    BY <1>2, <1>10 DEF WatchLost, LoopReturn
  <1>11. ASSUME (\E s \in Strategies : UpdateStrategy(s)) \/ Close PROVE SliceInv'
    BY <1>2, <1>11 DEF UpdateStrategy, Close, CloseAll
  <1>12. ASSUME UNCHANGED vars PROVE SliceInv'
    BY <1>2, <1>12 DEF vars, resolverVars
  <1>13. ASSUME NEW q \in Requests, ReadCell(q) \/ Differs(q) PROVE SliceInv'
    <2>1. /\ UNCHANGED <<list, room, viewVars, using>> /\ HasSlice(q)
          /\ \/ UNCHANGED rpc
             \/ \E next \in {"fingerprint", "rebuild"} : rpc' = [rpc EXCEPT ![q] = next]
      BY <1>13 DEF ReadCell, Differs, RequestGoto, resolverVars, HasSlice, Reads
    <2>2. \A p \in Requests : /\ HasSlice(p)' <=> HasSlice(p)
                              /\ HasSlice(p) => using'[p] = using[p]
      BY <2>1 DEF PoolInv, PoolTypes, HasSlice, Reads
    <2> QED BY <1>1, <2>1, <2>2
  <1>14. ASSUME NEW q \in Requests, Pick(q) \/ KeepNodes(q) \/ RebuildNodes(q) PROVE SliceInv'
    BY <1>14, PickKeepsSlices DEF Pick, KeepNodes, RebuildNodes
  <1> QED BY <1>3, <1>4, <1>6, <1>7, <1>8, <1>9, <1>10, <1>11, <1>12, <1>13, <1>14,
             ResolveKeepsSlices DEF Next, ResolverStep, RequestStep

PoolStateInv == PoolInv /\ ListInv /\ SliceInv

LEMMA PoolStateInvariant == Spec => []PoolStateInv
  <1>1. Init => PoolStateInv
    BY PoolInit, ListInit, SliceInit DEF PoolStateInv
  <1>2. PoolStateInv /\ [Next]_vars => PoolStateInv'
    BY PoolStep, ListStep, SliceStep DEF PoolStateInv
  <1> QED BY <1>1, <1>2, PTL DEF Spec

(* SlicesStayWhole: however events shift, overwrite and extend the array   *)
(* under it, the slice that a request picks from has no empty cell and     *)
(* loses no instance that has been listed ever since the request looked.   *)
THEOREM SlicesAreWhole == Spec => []SlicesStayWhole
  <1>1. ASSUME PoolStateInv PROVE SlicesStayWhole
    <2>1. \A q \in Requests : \A i \in DOMAIN view[q] : view[q][i] # None
      BY <1>1, InstancesAssumption DEF PoolStateInv, SliceInv
    <2> QED BY <1>1, <2>1 DEF PoolStateInv, SliceInv, SlicesStayWhole
  <1> QED BY <1>1, PoolStateInvariant, PTL

-----------------------------------------------------------------------------
(* The lists follow the directory.                                         *)
Sought(id) == IF Wanted(id) THEN {listed[id]} ELSE {}

Pending(events) == {EventID(events[i]) : i \in DOMAIN events}

(* Of these IDs, the events on their way to r are all that it lacks.       *)
Told(r) == {id \in IDs : \/ id \notin missed[r]
                         \/ loop[r] = "watching" /\ id \in Pending(pipe[r])}

Follows(r) == \A id \in Told(r) : Under(After(list[r], pipe[r]), id) = Sought(id)

FollowInv ==
    /\ \A q \in Requests : rpc[q] = "watching" => loop[using[q]] = "created"
    /\ \A r \in Slots : loop[r] # "free" /\ r \notin closed => Follows(r)

LEMMA PendingIDs ==
  ASSUME NEW p \in Seq(Events)
  PROVE  /\ p = <<>> => Pending(p) = {}
         /\ p # <<>> => Pending(p) = Pending(Tail(p)) \cup {EventID(Head(p))}
         /\ \A e \in Events : Pending(Append(p, e)) = Pending(p) \cup {EventID(e)}
  <1>1. DOMAIN p = 1 .. Len(p) /\ Len(p) \in Nat
    OBVIOUS
  <1>2. p = <<>> => Pending(p) = {}
    BY DEF Pending
  <1>3. ASSUME p # <<>> PROVE Pending(p) = Pending(Tail(p)) \cup {EventID(Head(p))}
    <2> DEFINE t == Tail(p)
    <2>1. /\ DOMAIN t = 1 .. Len(p) - 1 /\ Len(p) >= 1
          /\ \A i \in 1 .. Len(p) - 1 : t[i] = p[i + 1]
          /\ Head(p) = p[1]
      BY <1>1, <1>3
    <2> HIDE DEF t
    <2>2. \A i \in 1 .. Len(p) : i = 1 \/ (i - 1 \in 1 .. Len(p) - 1 /\ t[i - 1] = p[i])
      BY <1>1, <2>1
    <2>3. \A i \in 1 .. Len(p) - 1 : i + 1 \in 1 .. Len(p)
      BY <1>1
    <2>4. 1 \in 1 .. Len(p)
      BY <1>1, <2>1
    <2>5. ASSUME NEW id \in Pending(p) PROVE id \in Pending(t) \cup {EventID(Head(p))}
      <3>1. PICK i \in 1 .. Len(p) : id = EventID(p[i])
        BY <1>1 DEF Pending
      <3> QED BY <2>1, <2>2, <3>1 DEF Pending
    <2>6. ASSUME NEW id \in Pending(t) PROVE id \in Pending(p)
      <3>1. PICK i \in 1 .. Len(p) - 1 : id = EventID(t[i])
        BY <2>1, <2>6 DEF Pending
      <3> QED BY <1>1, <2>1, <2>3, <3>1 DEF Pending
    <2>7. EventID(Head(p)) \in Pending(p)
      BY <1>1, <2>1, <2>4 DEF Pending
    <2> QED BY <2>5, <2>6, <2>7 DEF t
  <1>4. ASSUME NEW e \in Events PROVE Pending(Append(p, e)) = Pending(p) \cup {EventID(e)}
    <2> DEFINE q == Append(p, e)
    <2>1. /\ DOMAIN q = 1 .. Len(p) + 1
          /\ \A i \in 1 .. Len(p) : q[i] = p[i]
          /\ q[Len(p) + 1] = e
      BY AppendProperties
    <2> HIDE DEF q
    <2>2. \A i \in 1 .. Len(p) + 1 : i \in 1 .. Len(p) \/ i = Len(p) + 1
      BY <1>1
    <2>3. Len(p) + 1 \in 1 .. Len(p) + 1 /\ \A i \in 1 .. Len(p) : i \in 1 .. Len(p) + 1
      BY <1>1
    <2> QED BY <1>1, <2>1, <2>2, <2>3 DEF Pending, q
  <1> QED BY <1>2, <1>3, <1>4

LEMMA FollowInit == Init => FollowInv
  BY DEF Init, FollowInv

(* An event reaches the resolvers that watch, and the others miss it. *)
LEMMA TellFollows ==
  ASSUME RegistryPrefix = ResolverPrefix, OneProtocolPerID, PoolInv, ListInv, FollowInv,
         NEW id \in IDs, NEW event \in Events, EventID(event) = id, Tell(id, event),
         NEW now, listed' = [listed EXCEPT ![id] = now],
         \/ event.type = "put" /\ now = event.instance /\ now # None
         \/ event.type = "delete" /\ now = None
  PROVE  FollowInv'
  <1>1. UNCHANGED <<list, loop, closed, rpc, using>>
    BY DEF Tell, requestVars
  <1>2. /\ Sought(id)' = IF event.type = "put" /\ Accepts(event.instance) THEN {event.instance} ELSE {}
        /\ \A other \in IDs \ {id} : Sought(other)' = Sought(other)
    BY DEF Sought, Wanted, ListInv, DirectoryOK
  <1>3. ASSUME NEW r \in Slots, loop'[r] # "free", r \notin closed' PROVE Follows(r)'
    <2>1. Follows(r) /\ list[r] \in Lists /\ pipe[r] \in Seq(Events) /\ loop[r] \in Loop
          /\ loop[r] # "free" /\ r \notin closed
      BY <1>1, <1>3 DEF FollowInv, ListInv, PoolInv, PoolTypes
    <2>2. CASE loop[r] = "watching"
      <3> DEFINE now1 == IF event.type = "put" /\ Accepts(event.instance) THEN {event.instance} ELSE {}
                 s == After(list[r], pipe[r])
                 p == Append(pipe[r], event)
      <3>1. pipe'[r] = p /\ missed'[r] = missed[r]
        BY <2>1, <2>2 DEF Tell, ListInv
      <3>2. s \in Lists /\ After(list[r], p) = Handle(s, event)
        BY <2>1, AfterEvents
      <3>3. Changed(s, Handle(s, event), id, now1)
        BY <3>2, HandleFollows DEF Lists
      <3>4. Pending(p) = Pending(pipe[r]) \cup {id}
        BY <2>1, PendingIDs
      <3>5. \A other \in Told(r)' : other = id \/ other \in Told(r)
        BY <1>1, <3>1, <3>4 DEF Told
      <3>6. After(list[r], pipe[r])' = Handle(s, event)
        BY <1>1, <3>1, <3>2
      <3> HIDE DEF p, s
      <3>7. \A other \in Told(r)' : Under(Handle(s, event), other) = Sought(other)'
        BY <1>2, <2>1, <3>3, <3>5 DEF Changed, Follows, s, Told
      <3> QED BY <3>6, <3>7 DEF Follows
    <2>3. CASE loop[r] # "watching"
      <3>1. pipe'[r] = pipe[r] /\ missed'[r] = missed[r] \cup {id}
        BY <2>1, <2>3 DEF Tell, ListInv, Loop
      <3>2. Told(r)' \subseteq Told(r) \ {id}
        BY <1>1, <2>3, <3>1 DEF Told
      <3> QED BY <1>1, <1>2, <2>1, <3>1, <3>2 DEF Follows, Told
    <2> QED BY <2>2, <2>3
  <1>4. \A q \in Requests : rpc'[q] = "watching" => loop'[using'[q]] = "created"
    BY <1>1 DEF FollowInv
  <1> QED BY <1>3, <1>4 DEF FollowInv

LEMMA HandleEventFollows ==
  ASSUME ListInv, FollowInv, NEW r \in Slots, HandleEvent(r), r \notin closed
  PROVE  Follows(r)'
  <1> DEFINE after == Handle(list[r], Head(pipe[r]))
             p == pipe[r]
             rest == Tail(pipe[r])
  <1>1. /\ p \in Seq(Events) /\ p # <<>> /\ list[r] \in Lists
        /\ list'[r] = after /\ pipe'[r] = rest /\ UNCHANGED <<listed, loop>>
        /\ loop[r] \in {"watching", "lost"}
    BY HandledEvent DEF ListInv
  <1>2. missed'[r] = IF loop[r] = "watching" THEN missed[r] \ {EventID(Head(p))} ELSE missed[r]
    BY DEF HandleEvent, ListInv
  <1>3. After(after, rest) = After(list[r], p)
    BY <1>1, AfterEvents
  <1>4. Pending(p) = Pending(rest) \cup {EventID(Head(p))}
    BY <1>1, PendingIDs
  <1> HIDE DEF after, rest
  <1>5. Told(r)' \subseteq Told(r)
    BY <1>1, <1>2, <1>4 DEF Told
  <1>6. Follows(r)
    BY <1>1 DEF FollowInv
  <1>7. \A id \in IDs : Sought(id)' = Sought(id)
    BY <1>1 DEF Sought, Wanted
  <1> QED BY <1>1, <1>3, <1>5, <1>6, <1>7 DEF Follows, Told

(* A list that has just been fetched lacks nothing. *)
LEMMA FetchedFollows ==
  ASSUME ListInv, NEW r \in Slots, UNCHANGED listed, list'[r] = Discovered, pipe'[r] = <<>>
  PROVE  Follows(r)'
  <1>1. /\ Discovered \in Lists
        /\ \A id \in IDs : Under(Discovered, id) = Sought(id) /\ Sought(id)' = Sought(id)
    BY DiscoveredList DEF ListInv, Sought, Wanted
  <1>2. After(Discovered, <<>>) = Discovered
    BY <1>1, AfterEvents, EmptyLists
  <1> QED BY <1>1, <1>2 DEF Follows, Told

LEMMA StillFollows ==
  ASSUME NEW r \in Slots, Follows(r), UNCHANGED listed, list'[r] = list[r], pipe'[r] = pipe[r],
         missed'[r] = missed[r], loop'[r] = "watching" => loop[r] = "watching" \/ pipe[r] = <<>>
  PROVE  Follows(r)'
  <1>1. pipe[r] = <<>> => Pending(pipe[r]) = {}
    BY DEF Pending
  <1>2. Told(r)' \subseteq Told(r)
    BY <1>1 DEF Told
  <1>3. \A id \in IDs : Sought(id)' = Sought(id)
    BY DEF Sought, Wanted
  <1> QED BY <1>2, <1>3 DEF Follows, Told

LEMMA ResolverFollows ==
  ASSUME PoolInv, ListInv, FollowInv, NEW r \in Slots, ResolverStep(r)
  PROVE  FollowInv'
  <1>1. /\ UNCHANGED <<listed, rpc, using>>
        /\ \A s \in Slots : s # r => /\ list'[s] = list[s] /\ pipe'[s] = pipe[s]
                                     /\ missed'[s] = missed[s] /\ loop'[s] = loop[s]
                                     /\ s \in closed' <=> s \in closed
    BY DEF ResolverStep, HandleEvent, WriteList, WatchLost, FullRefresh, ReplaceList, LoopReturn, Collect,
           registryVars, requestVars, viewVars, ListInv, PoolInv, PoolTypes
  <1>2. loop[r] # "created" /\ \A q \in Requests : rpc[q] = "watching" => using[q] \in Slots
    BY DEF ResolverStep, HandleEvent, WatchLost, FullRefresh, LoopReturn, Collect,
           PoolInv, PoolTypes, PoolRefs
  <1>3. \A q \in Requests : rpc'[q] = "watching" => loop'[using'[q]] = "created"
    BY <1>1, <1>2 DEF FollowInv
  <1>4. \A s \in Slots : s # r /\ loop'[s] # "free" /\ s \notin closed' => Follows(s)'
    BY <1>1, StillFollows DEF FollowInv
  <1>5. ASSUME loop'[r] # "free", r \notin closed' PROVE Follows(r)'
    <2>1. CASE HandleEvent(r)
      BY <1>5, <2>1, HandleEventFollows DEF HandleEvent
    <2>2. CASE WatchLost(r)
      <3>1. /\ UNCHANGED <<listed, list, pipe, missed>> /\ loop'[r] = "lost" /\ loop[r] = "watching"
            /\ r \notin closed
        BY <2>2 DEF WatchLost, PoolInv, PoolTypes
      <3> QED BY <3>1, StillFollows DEF FollowInv
    <2>3. CASE FullRefresh(r)
      <3>1. /\ UNCHANGED <<listed, pipe, closed>> /\ pipe[r] = <<>> /\ loop'[r] = "ended" /\ loop[r] # "free"
            /\ \/ UNCHANGED <<list, missed>>
               \/ list'[r] = Discovered
        BY <2>3 DEF FullRefresh, ReplaceList, ListInv, PoolInv, PoolTypes
      <3> QED BY <1>5, <3>1, FetchedFollows, StillFollows DEF FollowInv
    <2>4. CASE LoopReturn(r) \/ Collect(r)
      BY <1>5, <2>4 DEF LoopReturn, Collect, PoolInv, PoolTypes
    <2> QED BY <2>1, <2>2, <2>3, <2>4 DEF ResolverStep
  <1> QED BY <1>3, <1>4, <1>5 DEF FollowInv

LEMMA RequestFollows ==
  ASSUME PoolInv, ListInv, FollowInv, NEW q \in Requests, RequestStep(q)
  PROVE  FollowInv'
  <1>1. CASE Fetch(q)
    <2>1. PICK r \in Slots : /\ loop[r] = "free" /\ using' = [using EXCEPT ![q] = r]
                             /\ list' = [list EXCEPT ![r] = Discovered]
                             /\ loop' = [loop EXCEPT ![r] = "created"]
      BY <1>1 DEF Fetch
    <2>2. /\ rpc[q] = "fetching" /\ rpc' = [rpc EXCEPT ![q] = "watching"]
          /\ UNCHANGED <<listed, pipe, missed, closed>> /\ pipe[r] = <<>>
      BY <1>1, <2>1 DEF Fetch, RequestGoto, registryVars, ListInv
    <2>3. /\ list'[r] = Discovered /\ loop'[r] = "created" /\ using'[q] = r /\ rpc'[q] = "watching"
          /\ \A s \in Slots : s # r => list'[s] = list[s] /\ loop'[s] = loop[s]
          /\ \A p \in Requests : p # q => using'[p] = using[p] /\ rpc'[p] = rpc[p]
      BY <2>1, <2>2 DEF ListInv, PoolInv, PoolTypes
    <2>4. Follows(r)'
      BY <2>2, <2>3, FetchedFollows
    <2>5. \A s \in Slots : s # r /\ loop'[s] # "free" /\ s \notin closed' => Follows(s)'
      BY <2>2, <2>3, StillFollows DEF FollowInv
    <2>6. \A p \in Requests : rpc'[p] = "watching" => loop'[using'[p]] = "created"
      <3>1. \A p \in Requests : rpc[p] = "watching" => using[p] \in Slots /\ using[p] # r
        BY <2>1 DEF PoolInv, PoolTypes, PoolRefs
      <3> QED BY <2>3, <3>1 DEF FollowInv
    <2> QED BY <2>4, <2>5, <2>6 DEF FollowInv
  <1>2. CASE Watch(q)
    <2>1. /\ rpc[q] = "watching" /\ rpc' = [rpc EXCEPT ![q] = "resolve"]
          /\ loop' = [loop EXCEPT ![using[q]] = "watching"]
          /\ UNCHANGED <<listed, list, pipe, missed, closed, using>>
      BY <1>2 DEF Watch, RequestGoto, registryVars
    <2>2. /\ using[q] \in Slots /\ loop[using[q]] = "created" /\ pipe[using[q]] = <<>>
      BY <2>1 DEF PoolInv, PoolTypes, PoolRefs, ListInv, FollowInv
    <2>3. \A p \in Requests : rpc[p] = "watching" => lock = p
      BY DEF PoolInv, PoolRefs
    <2>4. \A p \in Requests : rpc'[p] # "watching"
      BY <2>1, <2>3 DEF PoolInv, PoolTypes
    <2>5. \A s \in Slots : s = using[q] \/ loop'[s] = loop[s]
      BY <2>1 DEF PoolInv, PoolTypes
    <2>6. ASSUME NEW s \in Slots, loop'[s] # "free", s \notin closed' PROVE Follows(s)'
      <3>1. Follows(s)
        BY <2>1, <2>2, <2>5, <2>6 DEF FollowInv
      <3> QED BY <2>1, <2>2, <2>5, <3>1, StillFollows
    <2> QED BY <2>4, <2>6 DEF FollowInv
  <1>3. CASE \/ Lookup(q) \/ Relookup(q) \/ FetchFails(q) \/ ResolveNone(q) \/ Resolve(q) \/ Pick(q)
             \/ ReadCell(q) \/ KeepNodes(q) \/ Differs(q) \/ RebuildNodes(q)
    <2>1. /\ UNCHANGED <<listed, list, loop, pipe, missed, closed>>
          /\ \/ UNCHANGED <<rpc, using>>
             \/ /\ \E next \in RequestPC \ {"watching"} : rpc' = [rpc EXCEPT ![q] = next]
                /\ using' = using \/ \E s : using' = [using EXCEPT ![q] = s]
      BY <1>3 DEF Lookup, Relookup, FetchFails, ResolveNone, Resolve, Pick, ReadCell, KeepNodes, Differs,
                  RebuildNodes, EndPick, RequestGoto, RequestPC, registryVars, resolverVars
    <2>2. \A p \in Requests : rpc'[p] = "watching" => loop'[using'[p]] = "created"
      BY <2>1 DEF FollowInv, PoolInv, PoolTypes
    <2>3. \A s \in Slots : loop'[s] # "free" /\ s \notin closed' => Follows(s)'
      BY <2>1, StillFollows DEF FollowInv
    <2> QED BY <2>2, <2>3 DEF FollowInv
  <1> QED BY <1>1, <1>2, <1>3 DEF RequestStep

LEMMA FollowStep ==
  ASSUME RegistryPrefix = ResolverPrefix, OneProtocolPerID
  PROVE  PoolInv /\ ListInv /\ FollowInv /\ [Next]_vars => FollowInv'
  <1> SUFFICES ASSUME PoolInv, ListInv, FollowInv, [Next]_vars PROVE FollowInv'
    OBVIOUS
  <1>1. ASSUME NEW inst \in Instances, InstancePut(inst) PROVE FollowInv'
    <2> DEFINE event == [type |-> "put", instance |-> inst]
    <2>1. /\ Tell(inst.id, event) /\ inst.id \in IDs /\ event \in Events /\ EventID(event) = inst.id
          /\ listed' = [listed EXCEPT ![inst.id] = inst] /\ inst # None
      BY <1>1, PutTells DEF ListInv
    <2>2. event.type = "put" /\ event.instance = inst
      OBVIOUS
    <2> HIDE DEF event
    <2> QED BY <2>1, <2>2, TellFollows
  <1>2. ASSUME NEW id \in IDs, InstanceDeleted(id) PROVE FollowInv'
    <2> DEFINE event == [type |-> "delete", key |-> BuildKey(RegistryPrefix, id)]
    <2>1. /\ Tell(id, event) /\ event \in Events /\ EventID(event) = id
          /\ listed' = [listed EXCEPT ![id] = None]
      BY <1>2, DeleteTells DEF ListInv
    <2>2. event.type = "delete"
      OBVIOUS
    <2> HIDE DEF event
    <2> QED BY <2>1, <2>2, TellFollows
  <1>3. ASSUME (\E s \in Strategies : UpdateStrategy(s)) \/ Close PROVE FollowInv'
    <2>1. UNCHANGED <<listed, list, loop, pipe, missed, rpc, using>> /\ closed \subseteq closed'
      BY <1>3 DEF UpdateStrategy, Close, CloseAll, registryVars, requestVars
    <2>2. \A s \in Slots : loop'[s] # "free" /\ s \notin closed' => Follows(s)'
      BY <2>1, StillFollows DEF FollowInv
    <2> QED BY <2>1, <2>2 DEF FollowInv
  <1>4. ASSUME UNCHANGED vars PROVE FollowInv'
    <2>1. UNCHANGED <<listed, list, loop, pipe, missed, closed, rpc, using>>
      BY <1>4 DEF vars, registryVars, resolverVars, requestVars
    <2>2. \A s \in Slots : loop'[s] # "free" /\ s \notin closed' => Follows(s)'
      BY <2>1, StillFollows DEF FollowInv
    <2> QED BY <2>1, <2>2 DEF FollowInv
  <1> QED BY <1>1, <1>2, <1>3, <1>4, ResolverFollows, RequestFollows DEF Next

LEMMA IDsCounted ==
  ASSUME NEW s \in Lists
  PROVE  Len(s) = Cardinality(IDsIn(s))
  <1> DEFINE f == [i \in DOMAIN s |-> s[i].id]
  <1>1. Len(s) \in Nat /\ DOMAIN s = 1 .. Len(s) /\ NoIDTwice(s)
    BY DEF Lists
  <1>2. f \in Bijection(1 .. Len(s), IDsIn(s))
    BY <1>1 DEF Bijection, Injection, Surjection, IDsIn, NoIDTwice, IsInjective
  <1>3. ExistsBijection(1 .. Len(s), IDsIn(s))
    BY <1>2 DEF ExistsBijection
  <1>4. \A n \in Nat : IsFiniteSet(1 .. n) /\ Cardinality(1 .. n) = n
    BY FS_Interval
  <1> QED BY <1>1, <1>3, <1>4, FS_Bijection

(* ListFollows: a resolver's list, once the pending events are handled,    *)
(* agrees with etcd on every ID whose changes the resolver was told of,    *)
(* and has no ID twice. It takes resolvers that assume the registry's own  *)
(* prefix, and IDs that do not change between protocols the resolvers ask  *)
(* for and others (the pool's ask for any).                                *)
THEOREM ListsFollow ==
  ASSUME RegistryPrefix = ResolverPrefix, OneProtocolPerID
  PROVE  Spec => []ListFollows
  <1>1. Init => FollowInv
    BY FollowInit
  <1>2. PoolStateInv /\ FollowInv /\ [Next]_vars => FollowInv'
    BY FollowStep DEF PoolStateInv
  <1>3. ASSUME PoolStateInv, FollowInv PROVE ListFollows
    <2> SUFFICES ASSUME NEW r \in Slots, loop[r] # "free", r \notin closed
                 PROVE  LET after == FoldLeft(Handle, list[r], pipe[r]) IN
                        /\ Len(after) = Cardinality(IDsIn(after))
                        /\ \A id \in IDs \ missed[r] :
                              {inst \in Range(after) : inst.id = id} =
                                 IF listed[id] # None /\ Accepts(listed[id]) THEN {listed[id]} ELSE {}
      BY DEF ListFollows
    <2>1. After(list[r], pipe[r]) \in Lists
      BY <1>3, AfterEvents DEF PoolStateInv, ListInv
    <2>2. \A id \in IDs \ missed[r] : Under(After(list[r], pipe[r]), id) = Sought(id)
      BY <1>3 DEF FollowInv, Follows, Told
    <2>3. Len(After(list[r], pipe[r])) = Cardinality(IDsIn(After(list[r], pipe[r])))
      BY <2>1, IDsCounted
    <2> QED BY <2>2, <2>3 DEF After, Under, Sought, Wanted
  <1> QED BY <1>1, <1>2, <1>3, PoolStateInvariant, PTL DEF Spec

-----------------------------------------------------------------------------
(* The weighted round robin. With w the weights, c the current weights and *)
(* s the picks of a cycle, every c[x] says how far the picks of x are      *)
(* behind its weight's share of all the picks.                             *)
Balanced(S, w, c, s) ==
    /\ IsFiniteSet(S)
    /\ w \in [S -> Nat \ {0}] /\ c \in [S -> Int] /\ s \in [S -> Nat]
    /\ Total(s) <= Total(w) /\ Total(c) = 0
    /\ \A x \in S : c[x] = Total(s) * w[x] - s[x] * Total(w) /\ c[x] > - Total(w)

LEMMA BalancedTotals ==
  ASSUME NEW S, NEW w, NEW c, NEW s, Balanced(S, w, c, s)
  PROVE  /\ IsFiniteSet(S) /\ w \in [S -> Int] /\ c \in [S -> Int] /\ s \in [S -> Int]
         /\ Total(w) \in Nat /\ Total(s) \in Nat
         /\ S # {} => Total(w) > 0
  <1>1. IsFiniteSet(S) /\ w \in [S -> Int] /\ c \in [S -> Int] /\ s \in [S -> Int]
    BY DEF Balanced
  <1>2. \A x \in S : w[x] >= 0 /\ s[x] >= 0 /\ w[x] > 0
    BY DEF Balanced
  <1>3. Total(w) \in Int /\ Total(s) \in Int
    BY <1>1, TotalInt
  <1>4. Total(w) >= 0 /\ Total(s) >= 0
    BY <1>1, <1>2, TotalNat
  <1>5. ASSUME NEW x \in S, Total(w) = 0 PROVE FALSE
    <2> DEFINE z == [y \in S |-> 0]
    <2>1. z \in [S -> Int] /\ (\A y \in S : z[y] = 0) /\ z[x] = 0
      OBVIOUS
    <2> HIDE DEF z
    <2>2. Total(z) = 0
      BY <1>1, <2>1, TotalZero
    <2>3. z = w
      BY <1>1, <1>2, <1>5, <2>1, <2>2, TotalMonotonic
    <2> QED BY <1>2, <2>1, <2>3
  <1> QED BY <1>1, <1>3, <1>4, <1>5

(* Products of integers, for the steps below. *)
LEMMA AtLeast ==
  ASSUME NEW W \in Int, W > 0, NEW a \in Int, NEW b \in Int, W * a - b * W > - W
  PROVE  b <= a
  <1>1. SUFFICES ASSUME b >= a + 1 PROVE FALSE
    OBVIOUS
  <1>2. W * a - b * W = W * (a - b)
    OBVIOUS
  <1>3. a - b <= -1 => W * (a - b) <= - W
    OBVIOUS
  <1> QED BY <1>1, <1>2, <1>3

LEMMA FullCycle ==
  ASSUME NEW S, NEW w, NEW c, NEW s, Balanced(S, w, c, s), Total(s) = Total(w)
  PROVE  s = w /\ \A x \in S : c[x] = 0
  <1>1. /\ IsFiniteSet(S) /\ w \in [S -> Int] /\ s \in [S -> Int]
        /\ Total(w) \in Int /\ \A x \in S : Total(w) > 0
    BY BalancedTotals
  <1>2. ASSUME NEW x \in S PROVE s[x] <= w[x]
    <2>1. c[x] = Total(w) * w[x] - s[x] * Total(w) /\ c[x] > - Total(w)
      BY DEF Balanced
    <2>2. w[x] \in Int /\ s[x] \in Int /\ Total(w) > 0
      BY <1>1
    <2> QED BY <1>1, <2>1, <2>2, AtLeast
  <1>3. s = w
    BY <1>1, <1>2, TotalMonotonic
  <1>4. ASSUME NEW x \in S PROVE c[x] = 0
    <2>1. c[x] = Total(w) * w[x] - w[x] * Total(w) /\ w[x] \in Int
      BY <1>1, <1>3 DEF Balanced
    <2> QED BY <1>1, <2>1
  <1> QED BY <1>3, <1>4

(* A turn: every c[x] gains w[x], and the highest pays for all the gains.  *)
LEMMA OneTurn ==
  ASSUME NEW S, NEW w, NEW c, NEW s, Balanced(S, w, c, s), Total(s) < Total(w),
         NEW best \in S, \A x \in S : c[x] + w[x] <= c[best] + w[best],
         NEW d \in [S -> Int],
         \A x \in S : d[x] = IF x = best THEN c[x] + w[x] - Total(w) ELSE c[x] + w[x],
         NEW t \in [S -> Nat], t = [s EXCEPT ![best] = s[best] + 1]
  PROVE  Balanced(S, w, d, t)
  <1> DEFINE W == Total(w)
             K == Total(s)
             up == [x \in S |-> c[x] + w[x]]
  <1>1. /\ IsFiniteSet(S) /\ w \in [S -> Int] /\ c \in [S -> Int] /\ s \in [S -> Int]
        /\ W \in Int /\ K \in Int /\ W > 0
    BY BalancedTotals
  <1>2. up \in [S -> Int] /\ \A x \in S : up[x] = c[x] + w[x]
    BY <1>1
  <1> HIDE DEF W, K, up
  <1>3. Total(up) = W
    <2>1. Total(up) = Total(c) + Total(w)
      BY <1>1, <1>2, TotalAdds
    <2> QED BY <1>1, <2>1 DEF W, Balanced
  <1>4. up[best] > 0
    <2>1. PICK x \in S : up[x] > 0
      BY <1>1, <1>2, <1>3, TotalPositive
    <2>2. up[x] <= up[best] /\ up[x] \in Int /\ up[best] \in Int
      BY <1>2
    <2> QED BY <2>1, <2>2
  <1>5. Total(d) = 0
    <2>1. d = [up EXCEPT ![best] = up[best] - W]
      <3>1. \A x \in S : d[x] = IF x = best THEN up[best] - W ELSE up[x]
        BY <1>1, <1>2 DEF W
      <3> QED BY ONLY <1>2, <3>1, d \in [S -> Int], best \in S
    <2>2. up[best] \in Int /\ up[best] - W \in Int
      BY <1>1, <1>2
    <2>3. \A v \in Int : Total([up EXCEPT ![best] = v]) = Total(up) - up[best] + v
      BY ONLY <1>1, <1>2, best \in S, TotalUpdate
    <2>4. Total(d) = Total(up) - up[best] + (up[best] - W)
      BY <2>1, <2>2, <2>3
    <2> QED BY <1>1, <1>3, <2>2, <2>4
  <1>6. Total(t) = K + 1
    <2>1. s[best] \in Int /\ s[best] + 1 \in Int
      BY <1>1
    <2>2. \A v \in Int : Total([s EXCEPT ![best] = v]) = Total(s) - s[best] + v
      BY ONLY <1>1, best \in S, TotalUpdate
    <2>3. Total(t) = K - s[best] + (s[best] + 1)
      BY <2>1, <2>2 DEF K
    <2> QED BY <1>1, <2>1, <2>3
  <1>7. ASSUME NEW x \in S PROVE d[x] = (K + 1) * w[x] - t[x] * W /\ d[x] > - W
    <2>1. /\ c[x] \in Int /\ w[x] \in Int /\ s[x] \in Int /\ w[x] > 0
          /\ c[x] = K * w[x] - s[x] * W /\ c[x] > - W
      BY <1>1 DEF Balanced, K, W
    <2>2. (K + 1) * w[x] = K * w[x] + w[x] /\ (s[x] + 1) * W = s[x] * W + W
      BY <1>1, <2>1
    <2>3. K * w[x] \in Int /\ s[x] * W \in Int
      BY <1>1, <2>1
    <2>4. CASE x = best
      <3>1. d[x] = c[x] + w[x] - W /\ t[x] = s[x] + 1 /\ up[x] = c[x] + w[x] /\ up[x] > 0
        BY <1>1, <1>2, <1>4, <2>4 DEF W
      <3> QED BY <1>1, <2>1, <2>2, <2>3, <3>1
    <2>5. CASE x # best
      <3>1. d[x] = c[x] + w[x] /\ t[x] = s[x]
        BY <1>1, <2>5
      <3> QED BY <1>1, <2>1, <2>2, <2>3, <3>1
    <2> QED BY <2>4, <2>5
  <1>8. K + 1 <= W
    BY <1>1 DEF K, W
  <1> QED BY <1>1, <1>5, <1>6, <1>7, <1>8 DEF Balanced, W

(* A cycle begins. *)
LEMMA Start ==
  ASSUME NEW S, IsFiniteSet(S), NEW w \in [S -> Nat \ {0}],
         NEW c \in [S -> Int], \A x \in S : c[x] = 0,
         NEW s \in [S -> Nat], \A x \in S : s[x] = 0
  PROVE  Balanced(S, w, c, s) /\ Total(s) = 0 /\ (S # {} => Total(w) > 0)
  <1>1. w \in [S -> Int] /\ s \in [S -> Int] /\ \A x \in S : w[x] > 0 /\ w[x] >= 0 /\ w[x] \in Int
    OBVIOUS
  <1>2. Total(c) = 0 /\ Total(s) = 0
    BY <1>1, TotalZero
  <1>3. Total(w) \in Int /\ Total(w) >= 0
    BY <1>1, TotalInt, TotalNat
  <1>4. ASSUME NEW x \in S PROVE Total(w) > 0
    <2>1. c = s /\ \A y \in S : s[y] <= w[y]
      BY <1>1
    <2>2. Total(w) # 0
      BY <1>1, <1>2, <1>4, TotalMonotonic
    <2> QED BY <1>3, <2>2
  <1>5. ASSUME NEW x \in S PROVE c[x] = 0 * w[x] - 0 * Total(w) /\ 0 > - Total(w)
    BY <1>1, <1>3, <1>4
  <1> QED BY <1>2, <1>3, <1>4, <1>5 DEF Balanced

Nodes == [instance : Instances, weight : Nat \ {0}, current : Int, served : Nat]

Weights(nodes) == [i \in DOMAIN nodes |-> nodes[i].weight]
Currents(nodes) == [i \in DOMAIN nodes |-> nodes[i].current]
Serves(nodes) == [i \in DOMAIN nodes |-> nodes[i].served]

Fair(nodes) ==
    nodes \in Seq(Nodes) /\ Balanced(DOMAIN nodes, Weights(nodes), Currents(nodes), Serves(nodes))

LEMMA NodeTotals ==
  ASSUME NEW nodes
  PROVE  TotalWeight(nodes) = Total(Weights(nodes)) /\ TotalServed(nodes) = Total(Serves(nodes))
  BY DEF TotalWeight, TotalServed, Total, Weights, Serves

LEMMA FirstHighest ==
  ASSUME NEW n \in Nat \ {0}, NEW c \in [1 .. n -> Int]
  PROVE  \E i \in 1 .. n : \A j \in 1 .. n : c[i] > c[j] \/ (c[i] = c[j] /\ i <= j)
  <1> DEFINE Highest(i, k) == \A j \in 1 .. k : c[i] > c[j] \/ (c[i] = c[j] /\ i <= j)
             T == {k \in 0 .. n : k # 0 => \E i \in 1 .. k : Highest(i, k)}
  <1>1. 0 \in T
    OBVIOUS
  <1>2. ASSUME NEW k \in 0 .. n - 1, k \in T PROVE k + 1 \in T
    <2>1. \A j \in 1 .. k + 1 : j \in 1 .. k \/ j = k + 1
      OBVIOUS
    <2>2. k + 1 \in 1 .. n /\ c[k + 1] \in Int /\ \A j \in 1 .. k : j \in 1 .. n /\ c[j] \in Int
      OBVIOUS
    <2>3. CASE k = 0
      <3>1. Highest(1, 1) /\ 1 \in 1 .. 1 /\ 1 \in 0 .. n
        BY <2>2, <2>3
      <3> QED BY <2>3, <3>1
    <2>4. CASE k # 0
      <3>1. PICK i \in 1 .. k : Highest(i, k)
        BY <1>2, <2>4
      <3>2. CASE c[k + 1] > c[i]
        <4>1. ASSUME NEW j \in 1 .. k PROVE c[k + 1] > c[j]
          <5>1. c[i] \in Int /\ c[j] \in Int /\ (c[i] > c[j] \/ c[i] = c[j])
            BY <2>2, <3>1
          <5> QED BY <2>2, <3>2, <5>1
        <4>2. ASSUME NEW j \in 1 .. k + 1
              PROVE  c[k + 1] > c[j] \/ (c[k + 1] = c[j] /\ k + 1 <= j)
          <5>1. CASE j = k + 1
            BY <5>1
          <5>2. CASE j \in 1 .. k
            BY <4>1, <5>2
          <5> QED BY <2>1, <5>1, <5>2
        <4> QED BY <2>2, <4>2
      <3>3. CASE ~ (c[k + 1] > c[i])
        <4>1. Highest(i, k + 1)
          BY <2>1, <2>2, <3>1, <3>3
        <4> QED BY <2>2, <3>1, <4>1
      <3> QED BY <3>2, <3>3
    <2> QED BY <2>3, <2>4
  <1>3. \A k \in 0 .. n : k \in T
    <2> HIDE DEF T
    <2> QED BY <1>1, <1>2, BoundedInduction
  <1>4. n \in 0 .. n
    OBVIOUS
  <1>5. n \in T
    BY <1>3, <1>4
  <1> QED BY <1>5

LEMMA RebuiltIsFair ==
  ASSUME NEW instances \in Seq(Instances)
  PROVE  /\ Fair(Rebuild(instances)) /\ DOMAIN Rebuild(instances) = DOMAIN instances
         /\ \A i \in DOMAIN instances : Rebuild(instances)[i].instance = instances[i]
  <1> DEFINE nodes == Rebuild(instances)
             n == Len(instances)
  <1>1. n \in Nat /\ DOMAIN instances = 1 .. n /\ IsFiniteSet(1 .. n)
    <2>1. \A k \in Nat : IsFiniteSet(1 .. k)
      BY FS_Interval
    <2> QED BY <2>1
  <1>2. \A i \in 1 .. n : /\ Node(instances[i]) \in Nodes
                          /\ Node(instances[i]).current = 0 /\ Node(instances[i]).served = 0
                          /\ Node(instances[i]).instance = instances[i]
    BY <1>1, InstancesAssumption DEF Node, Nodes
  <1>3. /\ DOMAIN nodes = 1 .. n /\ nodes \in Seq(Nodes)
        /\ \A i \in 1 .. n : nodes[i] = Node(instances[i])
    BY <1>1, <1>2 DEF Rebuild
  <1> HIDE DEF nodes, n
  <1>4. /\ Weights(nodes) \in [1 .. n -> Nat \ {0}]
        /\ Currents(nodes) \in [1 .. n -> Int] /\ \A i \in 1 .. n : Currents(nodes)[i] = 0
        /\ Serves(nodes) \in [1 .. n -> Nat] /\ \A i \in 1 .. n : Serves(nodes)[i] = 0
    BY <1>2, <1>3 DEF Weights, Currents, Serves, Nodes
  <1>5. Fair(nodes)
    BY <1>1, <1>3, <1>4, Start DEF Fair
  <1> QED BY <1>1, <1>2, <1>3, <1>5 DEF nodes

(* Every node gains its weight, in a new cycle if one has ended; the first *)
(* of the highest is best.                                                 *)
Fresh(kept) == TotalServed(kept) = TotalWeight(kept)

RaisedNode(node, fresh) ==
    [node EXCEPT !.current = @ + node.weight, !.served = IF fresh THEN 0 ELSE @]

Paid(raised, best) == [Charge(raised, best) EXCEPT ![best].served = @ + 1]

LEMMA TurnInSteps ==
  ASSUME NEW kept
  PROVE  /\ Raised(kept) = [i \in DOMAIN kept |-> RaisedNode(kept[i], Fresh(kept))]
         /\ Turn(kept) = Paid(Raised(kept), Best(Raised(kept)))
  BY DEF Raised, RaisedNode, Fresh, Turn, Paid

LEMMA OneRaised ==
  ASSUME NEW node \in Nodes, NEW fresh \in BOOLEAN
  PROVE  /\ RaisedNode(node, fresh) \in Nodes /\ RaisedNode(node, fresh).instance = node.instance
         /\ RaisedNode(node, fresh).weight = node.weight
         /\ RaisedNode(node, fresh).current = node.current + node.weight
         /\ RaisedNode(node, fresh).served = IF fresh THEN 0 ELSE node.served
  <1>1. node.current + node.weight \in Int
    BY DEF Nodes
  <1>2. CASE fresh
    BY <1>1, <1>2 DEF RaisedNode, Nodes
  <1>3. CASE ~ fresh
    BY <1>1, <1>3 DEF RaisedNode, Nodes
  <1> QED BY <1>2, <1>3

LEMMA BestNode ==
  ASSUME NEW raised \in Seq(Nodes), raised # <<>>
  PROVE  /\ Best(raised) \in 1 .. Len(raised)
         /\ \A i \in 1 .. Len(raised) : raised[i].current <= raised[Best(raised)].current
  <1> DEFINE n == Len(raised)
             up == Currents(raised)
  <1>1. n \in Nat \ {0} /\ DOMAIN raised = 1 .. n /\ \A i \in 1 .. n : raised[i] \in Nodes
    OBVIOUS
  <1>2. up \in [1 .. n -> Int] /\ \A i \in 1 .. n : up[i] = raised[i].current /\ up[i] \in Int
    BY <1>1 DEF Currents, Nodes
  <1> HIDE DEF up, n
  <1>3. \E i \in 1 .. n : \A j \in 1 .. n : up[i] > up[j] \/ (up[i] = up[j] /\ i <= j)
    BY <1>1, <1>2, FirstHighest
  <1>4. \E i \in DOMAIN raised : \A j \in DOMAIN raised :
           \/ raised[i].current > raised[j].current
           \/ raised[i].current = raised[j].current /\ i <= j
    <2>1. PICK i \in 1 .. n : \A j \in 1 .. n : up[i] > up[j] \/ (up[i] = up[j] /\ i <= j)
      BY <1>3
    <2>2. ASSUME NEW j \in 1 .. n
          PROVE  \/ raised[i].current > raised[j].current
                 \/ raised[i].current = raised[j].current /\ i <= j
      BY <1>2, <2>1
    <2> QED BY <1>1, <2>2
  <1>5. Best(raised) \in 1 .. n
    BY <1>1, <1>4 DEF Best
  <1>6. \A j \in 1 .. n : \/ raised[Best(raised)].current > raised[j].current
                          \/ raised[Best(raised)].current = raised[j].current
    BY <1>1, <1>4 DEF Best
  <1>7. \A j \in 1 .. n : raised[j].current <= raised[Best(raised)].current
    BY <1>2, <1>5, <1>6
  <1> QED BY <1>5, <1>7 DEF n

LEMMA PaidNodes ==
  ASSUME NEW raised \in Seq(Nodes), NEW best \in 1 .. Len(raised), TotalWeight(raised) \in Int
  PROVE  /\ Paid(raised, best) \in Seq(Nodes) /\ Len(Paid(raised, best)) = Len(raised)
         /\ \A i \in 1 .. Len(raised) :
               LET node == Paid(raised, best)[i] IN
               /\ node.instance = raised[i].instance /\ node.weight = raised[i].weight
               /\ node.current = IF i = best THEN raised[i].current - TotalWeight(raised)
                                             ELSE raised[i].current
               /\ node.served = IF i = best THEN raised[i].served + 1 ELSE raised[i].served
  <1> DEFINE n == Len(raised)
             after == Paid(raised, best)
             W == TotalWeight(raised)
  <1>1. n \in Nat /\ DOMAIN raised = 1 .. n /\ \A i \in 1 .. n : raised[i] \in Nodes
    OBVIOUS
  <1>2. /\ raised[best] \in Nodes /\ raised[best].current - W \in Int
        /\ raised[best].served + 1 \in Nat
    BY <1>1 DEF Nodes
  <1>3. Charge(raised, best) = [raised EXCEPT ![best] = [raised[best] EXCEPT !.current = raised[best].current - W]]
    BY DEF Charge
  <1>4. /\ DOMAIN after = 1 .. n /\ \A i \in 1 .. n : i # best => after[i] = raised[i]
        /\ after[best] = [raised[best] EXCEPT !.current = raised[best].current - W,
                                              !.served = raised[best].served + 1]
    BY <1>1, <1>2, <1>3 DEF Paid, Nodes
  <1> HIDE DEF after, W, n
  <1>5. /\ after[best] \in Nodes /\ after[best].instance = raised[best].instance
        /\ after[best].weight = raised[best].weight
        /\ after[best].served = raised[best].served + 1
        /\ after[best].current = raised[best].current - W
    BY <1>2, <1>4 DEF Nodes
  <1>6. after \in [1 .. n -> Nodes]
    <2>1. after = [i \in 1 .. n |-> after[i]]
      BY <1>1, <1>3 DEF Paid, after, n
    <2>2. \A i \in 1 .. n : after[i] \in Nodes
      BY <1>1, <1>4, <1>5
    <2> QED BY <2>1, <2>2
  <1>7. after \in Seq(Nodes) /\ Len(after) = n
    BY <1>1, <1>6
  <1> QED BY <1>4, <1>5, <1>7 DEF after, W, n

(* What a turn leaves of the weights, the balance and the instances. *)
LEMMA TurnOfNodes ==
  ASSUME NEW kept, Fair(kept), kept # <<>>
  PROVE  /\ Fair(Turn(kept)) /\ DOMAIN Turn(kept) = DOMAIN kept
         /\ \A i \in DOMAIN kept : Turn(kept)[i].instance = kept[i].instance
  <1> DEFINE n == Len(kept)
             fresh == Fresh(kept)
             w == Weights(kept)
             c == Currents(kept)
             s == [i \in 1 .. n |-> IF fresh THEN 0 ELSE kept[i].served]
             W == Total(w)
             raised == Raised(kept)
             best == Best(raised)
             after == Turn(kept)
  <1>1. n \in Nat \ {0} /\ DOMAIN kept = 1 .. n /\ \A i \in 1 .. n : kept[i] \in Nodes
    BY DEF Fair
  <1>2. /\ w \in [1 .. n -> Nat \ {0}] /\ c \in [1 .. n -> Int] /\ s \in [1 .. n -> Nat]
        /\ \A i \in 1 .. n : w[i] = kept[i].weight /\ c[i] = kept[i].current
        /\ \A i \in 1 .. n : s[i] = IF fresh THEN 0 ELSE kept[i].served
    BY <1>1 DEF Weights, Currents, Nodes
  <1>3. Balanced(1 .. n, w, c, s) /\ Total(s) < W /\ W \in Int
    <2> DEFINE past == Serves(kept)
    <2>1. Balanced(1 .. n, w, c, past)
      BY <1>1 DEF Fair
    <2>2. fresh <=> Total(past) = W
      BY NodeTotals DEF Fresh
    <2>3. past = [i \in 1 .. n |-> kept[i].served]
      BY <1>1 DEF Serves
    <2> HIDE DEF n, w, c, W, fresh, past
    <2>4. 1 \in 1 .. n /\ IsFiniteSet(1 .. n)
      <3>1. 1 \in 1 .. n
        BY <1>1
      <3>2. IsFiniteSet(1 .. n)
        BY <2>1 DEF Balanced
      <3> QED BY <3>1, <3>2
    <2>5. W \in Int /\ Total(past) \in Int /\ W > 0 /\ Total(past) <= W
      <3>1. Total(w) \in Nat /\ Total(past) \in Nat /\ (1 .. n # {} => Total(w) > 0)
        BY <2>1, BalancedTotals
      <3>2. Total(past) <= Total(w)
        BY <2>1 DEF Balanced
      <3> QED BY <2>4, <3>1, <3>2 DEF W
    <2>6. CASE ~ fresh
      <3>1. s = past
        BY <2>3, <2>6
      <3> HIDE DEF s
      <3> QED BY <2>1, <2>2, <2>5, <2>6, <3>1 DEF W
    <2>7. CASE fresh
      <3>1. \A i \in 1 .. n : c[i] = 0
        <4>1. Total(past) = Total(w)
          BY <2>2, <2>7 DEF W
        <4> DEFINE I == 1 .. n
        <4>2. Balanced(I, w, c, past)
          BY <2>1
        <4> HIDE DEF I
        <4>3. past = w /\ \A x \in I : c[x] = 0
          BY ONLY <4>1, <4>2, FullCycle
        <4> QED BY <4>3 DEF I
      <3>2. \A i \in 1 .. n : s[i] = 0
        BY <1>2, <2>7
      <3>3. w \in [1 .. n -> Nat \ {0}] /\ c \in [1 .. n -> Int] /\ s \in [1 .. n -> Nat]
        BY <1>2
      <3> HIDE DEF s
      <3>4. Balanced(1 .. n, w, c, s) /\ Total(s) = 0
        BY ONLY <2>4, <3>1, <3>2, <3>3, Start
      <3> QED BY <2>5, <3>4
    <2> QED BY <2>6, <2>7
  <1> HIDE DEF w, c, s, W
  <1>4. /\ DOMAIN raised = 1 .. n /\ raised \in Seq(Nodes) /\ Len(raised) = n
        /\ \A i \in 1 .. n : /\ raised[i].instance = kept[i].instance
                             /\ raised[i].weight = w[i] /\ raised[i].served = s[i]
                             /\ raised[i].current = c[i] + w[i]
    <2>1. raised = [i \in 1 .. n |-> RaisedNode(kept[i], fresh)]
      BY <1>1, TurnInSteps
    <2>2. fresh \in BOOLEAN
      BY DEF Fresh
    <2> HIDE DEF n, fresh, raised
    <2>3. ASSUME NEW i \in 1 .. n
          PROVE  /\ raised[i] \in Nodes /\ raised[i].instance = kept[i].instance
                 /\ raised[i].weight = w[i] /\ raised[i].served = s[i]
                 /\ raised[i].current = c[i] + w[i]
      <3>1. kept[i] \in Nodes /\ raised[i] = RaisedNode(kept[i], fresh)
        BY <1>1, <2>1
      <3>2. /\ raised[i] \in Nodes /\ raised[i].instance = kept[i].instance
            /\ raised[i].weight = kept[i].weight
            /\ raised[i].current = kept[i].current + kept[i].weight
            /\ raised[i].served = IF fresh THEN 0 ELSE kept[i].served
        BY <2>2, <3>1, OneRaised
      <3> QED BY <1>2, <3>2
    <2>4. raised \in [1 .. n -> Nodes]
      BY <2>1, <2>3
    <2> QED BY <1>1, <2>1, <2>3, <2>4
  <1> HIDE DEF n, fresh, raised
  <1>5. best \in 1 .. n /\ \A i \in 1 .. n : c[i] + w[i] <= c[best] + w[best]
    <2>1. raised # <<>>
      BY <1>1, <1>4
    <2>2. best \in 1 .. Len(raised) /\ \A i \in 1 .. Len(raised) : raised[i].current <= raised[best].current
      BY <1>4, <2>1, BestNode
    <2> HIDE DEF best
    <2> QED BY <1>4, <2>2
  <1>6. TotalWeight(raised) = W
    <2>1. Weights(raised) = w
      BY <1>2, <1>4 DEF Weights
    <2> QED BY <2>1, NodeTotals DEF W
  <1>7. after = Paid(raised, best)
    BY TurnInSteps DEF raised
  <1> HIDE DEF best, after
  <1>8. /\ after \in Seq(Nodes) /\ Len(after) = n
        /\ \A i \in 1 .. n :
              /\ after[i].instance = kept[i].instance /\ after[i].weight = w[i]
              /\ after[i].current = IF i = best THEN (c[i] + w[i]) - W ELSE c[i] + w[i]
              /\ after[i].served = IF i = best THEN s[i] + 1 ELSE s[i]
    BY <1>3, <1>4, <1>5, <1>6, <1>7, PaidNodes
  <1> DEFINE d == Currents(after)
             t == Serves(after)
  <1>9. /\ d \in [1 .. n -> Int] /\ t \in [1 .. n -> Nat] /\ Weights(after) = w
        /\ \A i \in 1 .. n : d[i] = IF i = best THEN c[i] + w[i] - W ELSE c[i] + w[i]
        /\ t = [s EXCEPT ![best] = s[best] + 1]
    <2>1. DOMAIN after = 1 .. n /\ \A i \in 1 .. n : after[i] \in Nodes
      BY <1>8
    <2>2. d \in [1 .. n -> Int] /\ \A i \in 1 .. n : d[i] = after[i].current
      BY <2>1 DEF Currents, Nodes
    <2>3. t \in [1 .. n -> Nat] /\ \A i \in 1 .. n : t[i] = after[i].served
      BY <2>1 DEF Serves, Nodes
    <2>4. Weights(after) = w
      BY <1>2, <1>8, <2>1 DEF Weights
    <2> HIDE DEF d, t
    <2>5. t = [s EXCEPT ![best] = s[best] + 1]
      BY <1>2, <1>5, <1>8, <2>3
    <2>6. \A i \in 1 .. n : d[i] = IF i = best THEN c[i] + w[i] - W ELSE c[i] + w[i]
      BY <1>2, <1>3, <1>8, <2>2
    <2> QED BY <2>2, <2>3, <2>4, <2>5, <2>6
  <1> HIDE DEF d, t
  <1>10. Balanced(1 .. n, w, d, t)
    BY <1>3, <1>5, <1>9, OneTurn DEF W
  <1>11. DOMAIN after = 1 .. n
    BY <1>8
  <1> QED BY <1>1, <1>8, <1>9, <1>10, <1>11 DEF Fair, d, t, after

(* The fingerprint of a picker is as long as its nodes are many, and is    *)
(* theirs unless the slice changed while they were built.                  *)
Recorded(p) ==
    /\ DOMAIN p.fingerprint = DOMAIN p.nodes
    /\ ~ p.torn => \A i \in DOMAIN p.nodes :
                      p.fingerprint[i] = <<p.nodes[i].instance.id, p.nodes[i].instance.weight>>

PickerInv == \A r \in Slots : Fair(picker[r].nodes) /\ Recorded(picker[r])

LEMMA NoNodesAreFair == Fair(<<>>)
  <1>1. /\ Weights(<<>>) = <<>> /\ Currents(<<>>) = <<>> /\ Serves(<<>>) = <<>> /\ <<>> \in Seq(Nodes)
        /\ DOMAIN <<>> = {} /\ <<>> \in [{} -> Nat \ {0}] /\ <<>> \in [{} -> Int] /\ <<>> \in [{} -> Nat]
    BY DEF Weights, Currents, Serves
  <1>2. IsFiniteSet({})
    BY FS_EmptySet
  <1>3. Balanced({}, <<>>, <<>>, <<>>)
    BY <1>1, <1>2, Start
  <1> QED BY <1>1, <1>3 DEF Fair

LEMMA NewPickerIsFair == ASSUME NEW s PROVE Fair(NewPicker(s).nodes) /\ Recorded(NewPicker(s))
  BY NoNodesAreFair DEF NewPicker, Recorded

-----------------------------------------------------------------------------
(* The readings of the weighted picker.                                    *)

(* What a request has read is in its slice, and the fingerprint it has     *)
(* computed is that of its slice, unless the slice has changed since; one  *)
(* request at a time reads for a picker.                                   *)
ReadInv ==
    /\ cells \in [Requests -> Seq(Instances)] /\ DOMAIN fp = Requests
    /\ disturbed \subseteq {q \in Requests : Reads(q)}
    /\ \A q \in Requests :
          /\ ~ Reads(q) => cells[q] = <<>>
          /\ rpc[q] # "rebuild" => fp[q] = <<>>
          /\ Reads(q) /\ q \notin disturbed => \A i \in DOMAIN cells[q] : cells[q][i] = view[q][i]
          /\ rpc[q] = "rebuild" => /\ DOMAIN fp[q] = DOMAIN view[q]
                                   /\ q \notin disturbed => fp[q] = Fingerprint(view[q])
    /\ \A p, q \in Requests : Reads(p) /\ Reads(q) /\ using[p] = using[q] => p = q

LEMMA ReadInit == Init => ReadInv
  BY DEF Init, ReadInv, Reads

(* Steps that leave alone what is being read. *)
LEMMA ReadsKept ==
  ASSUME ReadInv, UNCHANGED readVars,
         \A q \in Requests : Reads(q) => view'[q] = view[q] /\ using'[q] = using[q],
         \A q \in Requests : /\ Reads(q)' <=> Reads(q)
                             /\ rpc'[q] = "rebuild" <=> rpc[q] = "rebuild"
  PROVE  ReadInv'
  <1>1. UNCHANGED <<cells, fp, disturbed>>
    BY DEF readVars
  <1>2. \A q \in Requests : rpc[q] = "rebuild" => Reads(q)
    BY DEF Reads
  <1>3. \A p, q \in Requests : Reads(p)' /\ Reads(q)' /\ using'[p] = using'[q] => p = q
    BY DEF ReadInv
  <1> QED BY <1>1, <1>2, <1>3 DEF ReadInv

(* handleEvent changes the cells of slices, and marks who reads them. *)
LEMMA HandleEventReads ==
  ASSUME SliceInv, SliceInv', ReadInv, NEW r \in Slots, HandleEvent(r)
  PROVE  ReadInv'
  <1>1. /\ UNCHANGED <<rpc, using, cells, fp>>
        /\ disturbed' = disturbed \cup {q \in Requests : Reads(q) /\ view'[q] # view[q]}
    BY DEF HandleEvent, WriteList
  <1>2. \A q \in Requests : DOMAIN view'[q] = DOMAIN view[q]
    BY DEF HandleEvent, WriteList, Overwrite
  <1>3. \A q \in Requests : /\ Reads(q)' <=> Reads(q)
                            /\ rpc[q] = "rebuild" => Reads(q)
    BY <1>1 DEF Reads
  <1>4. \A q \in Requests : Reads(q) /\ q \notin disturbed' => q \notin disturbed /\ view'[q] = view[q]
    BY <1>1
  <1>5. disturbed' \subseteq {q \in Requests : Reads(q)'}
    BY <1>1, <1>3 DEF ReadInv
  <1>6. \A q \in Requests :
          /\ ~ Reads(q)' => cells'[q] = <<>>
          /\ rpc'[q] # "rebuild" => fp'[q] = <<>>
          /\ Reads(q)' /\ q \notin disturbed' => \A i \in DOMAIN cells'[q] : cells'[q][i] = view'[q][i]
    BY <1>1, <1>3, <1>4 DEF ReadInv
  <1>7. ASSUME NEW q \in Requests, rpc'[q] = "rebuild"
        PROVE  /\ DOMAIN fp'[q] = DOMAIN view'[q]
               /\ q \notin disturbed' => fp'[q] = Fingerprint(view'[q])
    BY <1>1, <1>2, <1>3, <1>4, <1>7 DEF ReadInv
  <1>8. \A p, q \in Requests : Reads(p)' /\ Reads(q)' /\ using'[p] = using'[q] => p = q
    BY <1>1, <1>3 DEF ReadInv
  <1> QED BY <1>1, <1>5, <1>6, <1>7, <1>8 DEF ReadInv

LEMMA EndPickReads ==
  ASSUME PoolInv, SliceInv, ReadInv, NEW q \in Requests, EndPick(q)
  PROVE  ReadInv'
  <1>1. /\ rpc' = [rpc EXCEPT ![q] = "idle"] /\ using' = [using EXCEPT ![q] = None]
        /\ view' = [view EXCEPT ![q] = <<>>] /\ cells' = [cells EXCEPT ![q] = <<>>]
        /\ fp' = [fp EXCEPT ![q] = <<>>] /\ disturbed' = disturbed \ {q}
    BY DEF EndPick, RequestGoto
  <1>2. /\ ~ Reads(q)' /\ rpc'[q] # "rebuild" /\ cells'[q] = <<>> /\ fp'[q] = <<>>
        /\ \A p \in Requests : p # q => /\ Reads(p)' <=> Reads(p)
                                        /\ rpc'[p] = rpc[p] /\ using'[p] = using[p]
                                        /\ view'[p] = view[p] /\ cells'[p] = cells[p] /\ fp'[p] = fp[p]
                                        /\ p \in disturbed' <=> p \in disturbed
    BY <1>1 DEF Reads, PoolInv, PoolTypes, SliceInv, ReadInv
  <1>3. cells' \in [Requests -> Seq(Instances)] /\ DOMAIN fp' = Requests
    BY <1>1 DEF ReadInv
  <1>4. disturbed' \subseteq {p \in Requests : Reads(p)'}
    BY <1>1, <1>2 DEF ReadInv
  <1>5. ASSUME NEW p \in Requests
        PROVE  /\ ~ Reads(p)' => cells'[p] = <<>>
               /\ rpc'[p] # "rebuild" => fp'[p] = <<>>
               /\ Reads(p)' /\ p \notin disturbed' => \A i \in DOMAIN cells'[p] : cells'[p][i] = view'[p][i]
               /\ rpc'[p] = "rebuild" => /\ DOMAIN fp'[p] = DOMAIN view'[p]
                                         /\ p \notin disturbed' => fp'[p] = Fingerprint(view'[p])
    BY <1>2 DEF ReadInv
  <1>6. \A p, o \in Requests : Reads(p)' /\ Reads(o)' /\ using'[p] = using'[o] => p = o
    BY <1>2 DEF ReadInv
  <1> QED BY <1>3, <1>4, <1>5, <1>6 DEF ReadInv

(* One more cell, by a request that holds the mutex or takes it. *)
LEMMA ReadCellReads ==
  ASSUME PoolInv, SliceInv, ReadInv, NEW q \in Requests, ReadCell(q)
  PROVE  ReadInv'
  <1> DEFINE n == Len(cells[q])
             s == Append(cells[q], view[q][n + 1])
  <1>1. /\ cells' = [cells EXCEPT ![q] = s] /\ n < Len(view[q])
        /\ UNCHANGED <<using, view, fp, disturbed>>
        /\ \/ /\ rpc[q] = "pick" /\ ~ PickerLocked(using[q])
              /\ rpc' = [rpc EXCEPT ![q] = "fingerprint"]
           \/ Reads(q) /\ UNCHANGED rpc
    BY DEF ReadCell, RequestGoto, viewVars
  <1>2. /\ n \in Nat /\ cells[q] \in Seq(Instances) /\ view[q] \in Seq(Instances)
        /\ view[q][n + 1] \in Instances
    BY <1>1 DEF ReadInv, SliceInv
  <1>3. /\ s \in Seq(Instances) /\ DOMAIN s = 1 .. n + 1 /\ DOMAIN cells[q] = 1 .. n
        /\ \A i \in 1 .. n + 1 : s[i] = IF i = n + 1 THEN view[q][n + 1] ELSE cells[q][i]
    BY <1>2
  <1> HIDE DEF s, n
  <1>4. /\ Reads(q)' /\ cells'[q] = s
        /\ rpc'[q] = "rebuild" <=> rpc[q] = "rebuild"
        /\ \A p \in Requests : p # q => /\ Reads(p)' <=> Reads(p)
                                        /\ rpc'[p] = rpc[p] /\ cells'[p] = cells[p]
    BY <1>1 DEF Reads, PoolInv, PoolTypes, ReadInv
  <1>5. cells' \in [Requests -> Seq(Instances)] /\ DOMAIN fp' = Requests
    BY <1>1, <1>3 DEF ReadInv
  <1>6. disturbed' \subseteq {p \in Requests : Reads(p)'}
    BY <1>1, <1>4 DEF ReadInv
  <1>7. q \notin disturbed => \A i \in 1 .. n : cells[q][i] = view[q][i]
    <2>1. CASE Reads(q)
      BY <1>3, <2>1 DEF ReadInv
    <2>2. CASE ~ Reads(q)
      <3>1. cells[q] = <<>>
        BY <2>2 DEF ReadInv
      <3>2. 1 .. n = {}
        BY <1>3, <3>1
      <3> QED BY <3>2
    <2> QED BY <2>1, <2>2
  <1>8. q \notin disturbed => \A i \in DOMAIN s : s[i] = view[q][i]
    BY <1>2, <1>3, <1>7
  <1>9. ASSUME NEW p \in Requests
        PROVE  /\ ~ Reads(p)' => cells'[p] = <<>>
               /\ rpc'[p] # "rebuild" => fp'[p] = <<>>
               /\ Reads(p)' /\ p \notin disturbed' => \A i \in DOMAIN cells'[p] : cells'[p][i] = view'[p][i]
               /\ rpc'[p] = "rebuild" => /\ DOMAIN fp'[p] = DOMAIN view'[p]
                                         /\ p \notin disturbed' => fp'[p] = Fingerprint(view'[p])
    <2>1. CASE p = q
      BY <1>1, <1>4, <1>8, <2>1 DEF ReadInv
    <2>2. CASE p # q
      BY <1>1, <1>4, <2>2 DEF ReadInv
    <2> QED BY <2>1, <2>2
  <1>10. \A p, o \in Requests : Reads(p)' /\ Reads(o)' /\ using'[p] = using'[o] => p = o
    BY <1>1, <1>4 DEF ReadInv, PickerLocked
  <1> QED BY <1>5, <1>6, <1>9, <1>10 DEF ReadInv

LEMMA DiffersReads ==
  ASSUME PoolInv, SliceInv, ReadInv, NEW q \in Requests, Differs(q)
  PROVE  ReadInv'
  <1>1. /\ rpc[q] = "fingerprint" /\ rpc' = [rpc EXCEPT ![q] = "rebuild"]
        /\ Len(cells[q]) = Len(view[q])
        /\ fp' = [fp EXCEPT ![q] = Fingerprint(cells[q])] /\ cells' = [cells EXCEPT ![q] = <<>>]
        /\ UNCHANGED <<using, view, disturbed>>
    BY DEF Differs, RequestGoto, viewVars
  <1>2. /\ Reads(q) /\ Reads(q)' /\ rpc'[q] = "rebuild" /\ cells'[q] = <<>>
        /\ fp'[q] = Fingerprint(cells[q])
        /\ \A p \in Requests : p # q => /\ Reads(p)' <=> Reads(p)
                                        /\ rpc'[p] = rpc[p] /\ cells'[p] = cells[p] /\ fp'[p] = fp[p]
    BY <1>1 DEF Reads, PoolInv, PoolTypes, ReadInv
  <1>3. cells' \in [Requests -> Seq(Instances)] /\ DOMAIN fp' = Requests
    BY <1>1 DEF ReadInv
  <1>4. disturbed' \subseteq {p \in Requests : Reads(p)'}
    BY <1>1, <1>2 DEF ReadInv
  <1>5. DOMAIN cells[q] = DOMAIN view[q]
    BY <1>1 DEF ReadInv, SliceInv
  <1>6. q \notin disturbed => \A i \in DOMAIN cells[q] : cells[q][i] = view[q][i]
    BY <1>2 DEF ReadInv
  <1>7. DOMAIN fp'[q] = DOMAIN view[q] /\ (q \notin disturbed => fp'[q] = Fingerprint(view[q]))
    BY <1>2, <1>5, <1>6 DEF Fingerprint
  <1>8. ASSUME NEW p \in Requests
        PROVE  /\ ~ Reads(p)' => cells'[p] = <<>>
               /\ rpc'[p] # "rebuild" => fp'[p] = <<>>
               /\ Reads(p)' /\ p \notin disturbed' => \A i \in DOMAIN cells'[p] : cells'[p][i] = view'[p][i]
               /\ rpc'[p] = "rebuild" => /\ DOMAIN fp'[p] = DOMAIN view'[p]
                                         /\ p \notin disturbed' => fp'[p] = Fingerprint(view'[p])
    <2>1. CASE p = q
      BY <1>1, <1>2, <1>7, <2>1
    <2>2. CASE p # q
      BY <1>1, <1>2, <2>2 DEF ReadInv
    <2> QED BY <2>1, <2>2
  <1>9. \A p, o \in Requests : Reads(p)' /\ Reads(o)' /\ using'[p] = using'[o] => p = o
    BY <1>1, <1>2 DEF ReadInv
  <1> QED BY <1>3, <1>4, <1>8, <1>9 DEF ReadInv

LEMMA ReadStep == PoolInv /\ SliceInv /\ SliceInv' /\ ReadInv /\ [Next]_vars => ReadInv'
  <1> SUFFICES ASSUME PoolInv, SliceInv, SliceInv', ReadInv, [Next]_vars PROVE ReadInv'
    OBVIOUS
  <1>1. ASSUME NEW q \in Requests, UNCHANGED readVars, ~ Reads(q),
               \A p \in Requests : p # q => view'[p] = view[p],
               \E next \in RequestPC \ {"fingerprint", "rebuild"} : rpc' = [rpc EXCEPT ![q] = next],
               UNCHANGED using \/ \E r : using' = [using EXCEPT ![q] = r]
        PROVE  ReadInv'
    <2>1. /\ \A p \in Requests : p # q => rpc'[p] = rpc[p] /\ using'[p] = using[p]
          /\ rpc'[q] \notin {"fingerprint", "rebuild"} /\ rpc[q] \notin {"fingerprint", "rebuild"}
      BY <1>1 DEF Reads, PoolInv, PoolTypes
    <2>2. \A p \in Requests : /\ Reads(p)' <=> Reads(p)
                              /\ rpc'[p] = "rebuild" <=> rpc[p] = "rebuild"
                              /\ Reads(p) => p # q
      BY <2>1 DEF Reads
    <2> QED BY <1>1, <2>1, <2>2, ReadsKept
  <1>2. ASSUME UNCHANGED <<rpc, using, view, readVars>> PROVE ReadInv'
    <2>1. \A p \in Requests : Reads(p)' <=> Reads(p)
      BY <1>2 DEF Reads
    <2> QED BY <1>2, <2>1, ReadsKept
  <1>3. ASSUME NEW q \in Requests,
               \/ Lookup(q) \/ Relookup(q) \/ Fetch(q) \/ FetchFails(q) \/ Watch(q)
               \/ ResolveNone(q) \/ Resolve(q)
        PROVE  ReadInv'
    <2>1. /\ UNCHANGED readVars /\ ~ Reads(q)
          /\ \E next \in RequestPC \ {"fingerprint", "rebuild"} : rpc' = [rpc EXCEPT ![q] = next]
          /\ UNCHANGED using \/ \E r : using' = [using EXCEPT ![q] = r]
      BY <1>3 DEF Lookup, Relookup, Fetch, FetchFails, Watch, ResolveNone, Resolve, RequestGoto,
                  RequestPC, Reads
    <2>2. UNCHANGED view \/ \E s : view' = [view EXCEPT ![q] = s]
      BY <1>3 DEF Lookup, Relookup, Fetch, FetchFails, Watch, ResolveNone, Resolve, viewVars
    <2>3. \A p \in Requests : p # q => view'[p] = view[p]
      BY <2>2 DEF SliceInv
    <2> QED BY <1>1, <2>1, <2>3
  <1>4. ASSUME NEW q \in Requests, Pick(q) \/ KeepNodes(q) \/ RebuildNodes(q) PROVE ReadInv'
    BY <1>4, EndPickReads DEF Pick, KeepNodes, RebuildNodes
  <1>5. ASSUME NEW r \in Slots, ResolverStep(r) PROVE ReadInv'
    <2>1. CASE HandleEvent(r)
      BY <2>1, HandleEventReads
    <2>2. CASE ~ HandleEvent(r)
      BY <1>2, <1>5, <2>2 DEF ResolverStep, WatchLost, FullRefresh, ReplaceList, LoopReturn, Collect,
                              requestVars, viewVars
    <2> QED BY <2>1, <2>2
  <1>6. ASSUME \/ \E inst \in Instances : InstancePut(inst)
               \/ \E id \in IDs : InstanceDeleted(id)
               \/ \E s \in Strategies : UpdateStrategy(s)
               \/ Close
               \/ UNCHANGED vars
        PROVE  ReadInv'
    BY <1>2, <1>6 DEF InstancePut, InstanceDeleted, Tell, UpdateStrategy, Close, CloseAll, vars,
                      requestVars, viewVars
  <1> QED BY <1>3, <1>4, <1>5, <1>6, ReadCellReads, DiffersReads DEF Next, RequestStep

LEMMA ReadInvariant == Spec => []ReadInv
  <1>1. PoolStateInv /\ PoolStateInv' /\ ReadInv /\ [Next]_vars => ReadInv'
    BY ReadStep DEF PoolStateInv
  <1> QED BY <1>1, ReadInit, PoolStateInvariant, PTL DEF Spec

(* TypeOK: in every state a slot in use has its picker, the pool and the   *)
(* requests refer to slots in use, only the lock holder creates, and one   *)
(* request at a time reads for a weighted picker.                          *)
THEOREM PoolTypesOK == Spec => []TypeOK
  <1>1. ASSUME PoolStateInv, ReadInv PROVE TypeOK
    <2>1. /\ list \in [Slots -> Seq(Instances)] /\ room \in [Slots -> Nat]
          /\ \A r \in Slots : Len(list[r]) <= room[r]
          /\ \A r \in Slots : loop[r] = "free" => list[r] = <<>> /\ pipe[r] = <<>>
          /\ missed \in [Slots -> SUBSET IDs]
      BY <1>1 DEF PoolStateInv, ListInv, Lists
    <2>2. /\ loop \in [Slots -> Loop] /\ closed \subseteq {r \in Slots : loop[r] # "free"}
          /\ pooled \in Slots \cup {None} /\ lock \in Requests \cup {None}
          /\ rpc \in [Requests -> RequestPC]
      BY <1>1 DEF PoolStateInv, PoolInv, PoolTypes, PoolRefs
    <2>3. \A q \in Requests :
            /\ rpc[q] \in {"fetching", "watching"} <=> lock = q
            /\ using[q] # None <=> rpc[q] \in {"watching", "resolve"} \/ HasSlice(q)
            /\ q \in shared => HasSlice(q) /\ Len(view[q]) <= room[using[q]]
            /\ using[q] # None => loop[using[q]] # "free"
      BY <1>1 DEF PoolStateInv, PoolInv, PoolRefs, SliceInv, HasSlice, Reads
    <2>4. /\ cells \in [Requests -> Seq(Instances)] /\ disturbed \subseteq {q \in Requests : Reads(q)}
          /\ \A q \in Requests : /\ cells[q] # <<>> => Reads(q)
                                 /\ fp[q] # <<>> => rpc[q] = "rebuild"
          /\ \A p, q \in Requests : Reads(p) /\ Reads(q) /\ using[p] = using[q] => p = q
      BY <1>1 DEF ReadInv
    <2> QED BY <2>1, <2>2, <2>3, <2>4 DEF TypeOK
  <1> QED BY <1>1, PoolStateInvariant, ReadInvariant, PTL

-----------------------------------------------------------------------------
(* Nodes that keep to the slice take turns. *)

LEMMA TurnKeepsRecord ==
  ASSUME NEW kept, Fair(kept), kept # <<>>
  PROVE  /\ Fair(Turn(kept)) /\ DOMAIN Turn(kept) = DOMAIN kept /\ Len(Turn(kept)) = Len(kept)
         /\ \A i \in DOMAIN kept : Turn(kept)[i].instance = kept[i].instance
  <1>1. /\ Fair(Turn(kept)) /\ DOMAIN Turn(kept) = DOMAIN kept
        /\ \A i \in DOMAIN kept : Turn(kept)[i].instance = kept[i].instance
    BY TurnOfNodes
  <1> QED BY <1>1 DEF Fair

SameNodes(nodes, instances) ==
    /\ Len(nodes) = Len(instances)
    /\ \A i \in DOMAIN nodes : /\ nodes[i].instance.id = instances[i].id
                               /\ nodes[i].instance.weight = instances[i].weight

(* The fingerprint is the one of the nodes. *)
LEMMA KeptNodes ==
  ASSUME PoolInv, SliceInv, ReadInv, PickerInv, NEW q \in Requests, KeepNodes(q)
  PROVE  LET p == picker'[using[q]] IN
         /\ using[q] \in Slots /\ \A r \in Slots : r # using[q] => picker'[r] = picker[r]
         /\ Fair(p.nodes) /\ Recorded(p) /\ Len(p.nodes) = Len(view[q])
         /\ q \notin disturbed /\ ~ p.torn => SameNodes(p.nodes, view[q])
  <1> DEFINE p == picker[using[q]]
             kept == p.nodes
  <1>1. /\ rpc[q] = "fingerprint" /\ Len(cells[q]) = Len(view[q])
        /\ Fingerprint(cells[q]) = p.fingerprint
        /\ picker' = [picker EXCEPT ![using[q]].nodes = Turn(kept)]
    BY DEF KeepNodes
  <1>2. /\ using[q] \in Slots /\ view[q] \in Seq(Instances) /\ view[q] # <<>>
        /\ cells[q] \in Seq(Instances)
    BY <1>1 DEF PoolInv, PoolTypes, PoolRefs, SliceInv, ReadInv, HasSlice, Reads
  <1>3. DOMAIN cells[q] = 1 .. Len(view[q]) /\ Len(view[q]) \in Nat \ {0}
    BY <1>1, <1>2
  <1>4. /\ DOMAIN p = PickerFields /\ Fair(kept) /\ Recorded(p)
        /\ DOMAIN picker = Slots
    BY <1>2 DEF PoolInv, PoolTypes, PickerInv
  <1>5. /\ \A r \in Slots : r # using[q] => picker'[r] = picker[r]
        /\ picker'[using[q]] = [p EXCEPT !.nodes = Turn(kept)]
    BY <1>1, <1>2, <1>4
  <1> DEFINE new == picker'[using[q]]
  <1>6. new.nodes = Turn(kept) /\ new.fingerprint = p.fingerprint /\ new.torn = p.torn
    BY <1>4, <1>5 DEF PickerFields
  <1> HIDE DEF p, new
  <1>7. DOMAIN p.fingerprint = DOMAIN cells[q]
    BY <1>1 DEF Fingerprint
  <1>8. DOMAIN kept = 1 .. Len(view[q]) /\ kept # <<>> /\ Len(kept) = Len(view[q])
    <2>1. DOMAIN kept = 1 .. Len(view[q])
      BY <1>3, <1>4, <1>7 DEF Recorded
    <2>2. kept \in Seq(Nodes)
      BY <1>4 DEF Fair
    <2> HIDE DEF kept
    <2> QED BY <1>3, <2>1, <2>2
  <1>9. /\ Fair(Turn(kept)) /\ DOMAIN Turn(kept) = DOMAIN kept /\ Len(Turn(kept)) = Len(kept)
        /\ \A i \in DOMAIN kept : Turn(kept)[i].instance = kept[i].instance
    BY <1>4, <1>8, TurnKeepsRecord
  <1>10. Recorded(new)
    BY <1>4, <1>6, <1>9 DEF Recorded
  <1>11. ASSUME q \notin disturbed, ~ new.torn PROVE SameNodes(new.nodes, view[q])
    <2>1. \A i \in 1 .. Len(view[q]) : cells[q][i] = view[q][i]
      BY <1>1, <1>3, <1>11 DEF ReadInv, Reads
    <2>2. \A i \in DOMAIN kept : p.fingerprint[i] = <<kept[i].instance.id, kept[i].instance.weight>>
      BY <1>4, <1>6, <1>11 DEF Recorded
    <2>3. \A i \in DOMAIN cells[q] : p.fingerprint[i] = <<cells[q][i].id, cells[q][i].weight>>
      BY <1>1 DEF Fingerprint
    <2>4. ASSUME NEW i \in 1 .. Len(view[q])
          PROVE  kept[i].instance.id = view[q][i].id /\ kept[i].instance.weight = view[q][i].weight
      BY <1>3, <1>8, <2>1, <2>2, <2>3
    <2> QED BY <1>6, <1>8, <1>9, <2>4 DEF SameNodes
  <1> QED BY <1>2, <1>5, <1>6, <1>8, <1>9, <1>10, <1>11 DEF new

(* The nodes are built anew, from the cells of the second reading. *)
LEMMA RebuiltNodes ==
  ASSUME PoolInv, SliceInv, ReadInv, PickerInv, NEW q \in Requests, RebuildNodes(q)
  PROVE  LET p == picker'[using[q]] IN
         /\ using[q] \in Slots /\ \A r \in Slots : r # using[q] => picker'[r] = picker[r]
         /\ Fair(p.nodes) /\ Recorded(p) /\ Len(p.nodes) = Len(view[q])
         /\ q \notin disturbed => SameNodes(p.nodes, view[q])
  <1> DEFINE p == picker[using[q]]
             kept == Rebuild(cells[q])
             new == picker'[using[q]]
  <1>1. /\ rpc[q] = "rebuild" /\ Len(cells[q]) = Len(view[q])
        /\ picker' = [picker EXCEPT ![using[q]].nodes = Turn(kept),
                                    ![using[q]].fingerprint = fp[q],
                                    ![using[q]].torn = (q \in disturbed)]
    BY DEF RebuildNodes
  <1>2. /\ using[q] \in Slots /\ view[q] \in Seq(Instances) /\ view[q] # <<>>
        /\ cells[q] \in Seq(Instances)
    BY <1>1 DEF PoolInv, PoolTypes, PoolRefs, SliceInv, ReadInv, HasSlice, Reads
  <1>3. /\ DOMAIN cells[q] = 1 .. Len(view[q]) /\ DOMAIN view[q] = 1 .. Len(view[q])
        /\ Len(view[q]) \in Nat \ {0}
    BY <1>1, <1>2
  <1>4. DOMAIN p = PickerFields /\ DOMAIN picker = Slots
    BY <1>2 DEF PoolInv, PoolTypes
  <1>5. /\ \A r \in Slots : r # using[q] => picker'[r] = picker[r]
        /\ new.nodes = Turn(kept) /\ new.fingerprint = fp[q] /\ new.torn = (q \in disturbed)
    BY <1>1, <1>2, <1>4 DEF PickerFields
  <1> HIDE DEF p, new, kept
  <1>6. /\ Fair(kept) /\ DOMAIN kept = 1 .. Len(view[q])
        /\ \A i \in 1 .. Len(view[q]) : kept[i].instance = cells[q][i]
    BY <1>2, <1>3, RebuiltIsFair DEF kept
  <1>7. kept # <<>> /\ Len(kept) = Len(view[q])
    BY <1>3, <1>6 DEF Fair
  <1>8. /\ Fair(Turn(kept)) /\ DOMAIN Turn(kept) = DOMAIN kept /\ Len(Turn(kept)) = Len(kept)
        /\ \A i \in DOMAIN kept : Turn(kept)[i].instance = kept[i].instance
    BY <1>6, <1>7, TurnKeepsRecord
  <1>9. /\ DOMAIN fp[q] = DOMAIN view[q]
        /\ q \notin disturbed => /\ fp[q] = Fingerprint(view[q])
                                 /\ \A i \in 1 .. Len(view[q]) : cells[q][i] = view[q][i]
    BY <1>1, <1>3 DEF ReadInv, Reads
  <1>10. \A i \in DOMAIN view[q] : Fingerprint(view[q])[i] = <<view[q][i].id, view[q][i].weight>>
    BY DEF Fingerprint
  <1>11. Recorded(new)
    <2>1. DOMAIN new.fingerprint = DOMAIN new.nodes
      BY <1>3, <1>5, <1>6, <1>8, <1>9
    <2>2. ASSUME ~ new.torn, NEW i \in DOMAIN new.nodes
          PROVE  new.fingerprint[i] = <<new.nodes[i].instance.id, new.nodes[i].instance.weight>>
      <3>1. q \notin disturbed /\ i \in 1 .. Len(view[q]) /\ new.nodes[i].instance = view[q][i]
        BY <1>5, <1>6, <1>8, <1>9, <2>2
      <3> QED BY <1>3, <1>5, <1>9, <1>10, <3>1
    <2> QED BY <2>1, <2>2 DEF Recorded
  <1>12. q \notin disturbed => SameNodes(new.nodes, view[q])
    BY <1>5, <1>6, <1>7, <1>8, <1>9 DEF SameNodes
  <1> QED BY <1>2, <1>5, <1>7, <1>8, <1>11, <1>12 DEF new

LEMMA PickerStep == PoolInv /\ SliceInv /\ ReadInv /\ PickerInv /\ [Next]_vars => PickerInv'
  <1> SUFFICES ASSUME PoolInv, SliceInv, ReadInv, PickerInv, [Next]_vars PROVE PickerInv'
    OBVIOUS
  <1>1. ASSUME UNCHANGED picker PROVE PickerInv'
    BY <1>1 DEF PickerInv, Recorded
  <1>2. ASSUME NEW r \in Slots, NEW s, picker' = [picker EXCEPT ![r] = NewPicker(s)] PROVE PickerInv'
    <2>1. \A t \in Slots : picker'[t] = IF t = r THEN NewPicker(s) ELSE picker[t]
      BY <1>2 DEF PoolInv, PoolTypes
    <2> QED BY <2>1, NewPickerIsFair DEF PickerInv
  <1>3. ASSUME NEW q \in Requests, KeepNodes(q) PROVE PickerInv'
    BY <1>3, KeptNodes DEF PickerInv
  <1>4. ASSUME NEW q \in Requests, RebuildNodes(q) PROVE PickerInv'
    BY <1>4, RebuiltNodes DEF PickerInv
  <1>5. ASSUME NEW q \in Requests, Pick(q) PROVE PickerInv'
    <2>1. using[q] \in Slots
      BY <1>5 DEF Pick, PoolInv, PoolTypes, PoolRefs
    <2> DEFINE p == picker[using[q]]
    <2>2. PICK choice \in Picks(p, view[q]) : picker' = [picker EXCEPT ![using[q]] = choice.picker]
      BY <1>5 DEF Pick
    <2>3. DOMAIN p = PickerFields
      BY <2>1 DEF PoolInv, PoolTypes
    <2>4. /\ choice.picker.nodes = p.nodes /\ choice.picker.fingerprint = p.fingerprint
          /\ choice.picker.torn = p.torn
      BY <2>2, <2>3 DEF Picks, RoundRobin, PickerFields
    <2>5. \A r \in Slots : /\ picker'[r].nodes = picker[r].nodes /\ picker'[r].torn = picker[r].torn
                           /\ picker'[r].fingerprint = picker[r].fingerprint
      BY <2>1, <2>2, <2>4 DEF PoolInv, PoolTypes
    <2> QED BY <2>5 DEF PickerInv, Recorded
  <1>6. ASSUME NEW q \in Requests,
               \/ Lookup(q) \/ Relookup(q) \/ Fetch(q) \/ FetchFails(q) \/ Watch(q)
               \/ ResolveNone(q) \/ Resolve(q) \/ ReadCell(q) \/ Differs(q)
        PROVE  PickerInv'
    <2>1. CASE Fetch(q)
      BY <1>2, <2>1 DEF Fetch
    <2>2. CASE ~ Fetch(q)
      BY <1>1, <1>6, <2>2 DEF Lookup, Relookup, FetchFails, Watch, ResolveNone, Resolve, ReadCell,
                              Differs, resolverVars
    <2> QED BY <2>1, <2>2
  <1>7. ASSUME NEW r \in Slots, ResolverStep(r) PROVE PickerInv'
    <2>1. CASE Collect(r)
      BY <1>2, <2>1 DEF Collect
    <2>2. CASE ~ Collect(r)
      BY <1>1, <1>7, <2>2 DEF ResolverStep, HandleEvent, WatchLost, FullRefresh, LoopReturn
    <2> QED BY <2>1, <2>2
  <1>8. ASSUME \/ \E inst \in Instances : InstancePut(inst)
               \/ \E id \in IDs : InstanceDeleted(id)
               \/ \E s \in Strategies : UpdateStrategy(s)
               \/ Close
        PROVE  PickerInv'
    BY <1>1, <1>8 DEF InstancePut, InstanceDeleted, Tell, UpdateStrategy, Close, CloseAll
  <1>9. ASSUME UNCHANGED vars PROVE PickerInv'
    BY <1>1, <1>9 DEF vars, resolverVars
  <1> QED BY <1>3, <1>4, <1>5, <1>6, <1>7, <1>8, <1>9 DEF Next, RequestStep

LEMMA PickerInvariant == Spec => []PickerInv
  <1>1. Init => PickerInv
    BY NewPickerIsFair DEF Init, PickerInv
  <1>2. PoolStateInv /\ ReadInv /\ PickerInv /\ [Next]_vars => PickerInv'
    BY PickerStep DEF PoolStateInv
  <1> QED BY <1>1, <1>2, PoolStateInvariant, ReadInvariant, PTL DEF Spec

(* WeightedFair: over a full cycle the weighted round robin has picked     *)
(* every node as often as its weight says, for any number of nodes and any *)
(* weights, whatever the requests that pick at the same time.              *)
THEOREM WeightedIsFair == Spec => []WeightedFair
  <1>1. ASSUME PickerInv PROVE WeightedFair
    <2> SUFFICES ASSUME NEW r \in Slots,
                        TotalServed(picker[r].nodes) = TotalWeight(picker[r].nodes),
                        NEW i \in DOMAIN picker[r].nodes
                 PROVE  picker[r].nodes[i].served = picker[r].nodes[i].weight
      BY DEF WeightedFair
    <2> DEFINE nodes == picker[r].nodes
    <2>1. /\ Balanced(DOMAIN nodes, Weights(nodes), Currents(nodes), Serves(nodes))
          /\ Total(Serves(nodes)) = Total(Weights(nodes))
      BY <1>1, NodeTotals DEF PickerInv, Fair
    <2> HIDE DEF nodes
    <2>2. Serves(nodes) = Weights(nodes)
      BY <2>1, FullCycle
    <2>3. Serves(nodes)[i] = nodes[i].served /\ Weights(nodes)[i] = nodes[i].weight
      BY DEF Serves, Weights, nodes
    <2> QED BY <2>2, <2>3 DEF nodes
  <1> QED BY <1>1, PickerInvariant, PTL

(* PicksFromList: the weighted round robin picks among as many nodes as    *)
(* its slice has cells, in any interleaving, and among nodes with the IDs  *)
(* and weights of its slice unless the slice changed under this pick or    *)
(* under the one that built the nodes.                                     *)
THEOREM WeightedPicksFromList == Spec => PicksFromList
  <1>1. ASSUME PoolInv, SliceInv, ReadInv, PickerInv, [Next]_vars,
               NEW q \in Requests, Reads(q), ~ Reads(q)'
        PROVE  KeepNodes(q) \/ RebuildNodes(q)
    <2>1. ASSUME NEW p \in Requests, RequestStep(p) PROVE KeepNodes(q) \/ RebuildNodes(q)
      <3>1. UNCHANGED rpc \/ \E next : rpc' = [rpc EXCEPT ![p] = next]
        BY <2>1 DEF RequestStep, Lookup, Relookup, Fetch, FetchFails, Watch, ResolveNone, Resolve,
                    Pick, ReadCell, KeepNodes, Differs, RebuildNodes, EndPick, RequestGoto
      <3>2. p = q
        BY <1>1, <3>1 DEF Reads, PoolInv, PoolTypes
      <3>3. ~ (Lookup(q) \/ Relookup(q) \/ Fetch(q) \/ FetchFails(q) \/ Watch(q) \/ ResolveNone(q)
                 \/ Resolve(q) \/ Pick(q))
        BY <1>1 DEF Lookup, Relookup, Fetch, FetchFails, Watch, ResolveNone, Resolve, Pick, Reads
      <3>4. ~ ReadCell(q) /\ ~ Differs(q)
        BY <1>1 DEF ReadCell, Differs, RequestGoto, Reads, PoolInv, PoolTypes
      <3> QED BY <2>1, <3>2, <3>3, <3>4 DEF RequestStep
    <2>2. ASSUME UNCHANGED rpc PROVE FALSE
      BY <1>1, <2>2 DEF Reads
    <2>3. ASSUME NEW r \in Slots, ResolverStep(r) PROVE UNCHANGED rpc
      BY <2>3 DEF ResolverStep, HandleEvent, WatchLost, FullRefresh, LoopReturn, Collect, requestVars
    <2>4. ASSUME \/ \E inst \in Instances : InstancePut(inst)
                 \/ \E id \in IDs : InstanceDeleted(id)
                 \/ \E s \in Strategies : UpdateStrategy(s)
                 \/ Close
                 \/ UNCHANGED vars
          PROVE  UNCHANGED rpc
      BY <2>4 DEF InstancePut, InstanceDeleted, Tell, UpdateStrategy, Close, CloseAll, vars, requestVars
    <2> QED BY <1>1, <2>1, <2>2, <2>3, <2>4 DEF Next
  <1>2. ASSUME PoolInv, SliceInv, ReadInv, PickerInv, [Next]_vars
        PROVE  [\A q \in Requests : Reads(q) /\ ~ Reads(q)' =>
                  LET p == picker'[using[q]] IN
                  /\ Len(p.nodes) = Len(view[q])
                  /\ q \notin disturbed /\ ~ p.torn =>
                        \A i \in DOMAIN p.nodes :
                           /\ p.nodes[i].instance.id = view[q][i].id
                           /\ p.nodes[i].instance.weight = view[q][i].weight]_vars
    <2>1. ASSUME NEW q \in Requests, Reads(q), ~ Reads(q)'
          PROVE  LET p == picker'[using[q]] IN
                 /\ Len(p.nodes) = Len(view[q])
                 /\ q \notin disturbed /\ ~ p.torn => SameNodes(p.nodes, view[q])
      BY <1>1, <1>2, <2>1, KeptNodes, RebuiltNodes
    <2> QED BY <2>1 DEF SameNodes
  <1>3. PoolStateInv /\ ReadInv /\ PickerInv => PoolInv /\ SliceInv /\ ReadInv /\ PickerInv
    BY DEF PoolStateInv
  <1> QED BY <1>2, <1>3, PoolStateInvariant, ReadInvariant, PickerInvariant, PTL DEF Spec, PicksFromList
=============================================================================
