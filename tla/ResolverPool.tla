---------------------------- MODULE ResolverPool ----------------------------
(***************************************************************************)
(* The gateway's view of the registry: resolvers that fetch the instances  *)
(* of a service and then watch for changes (registry/resolver.go), the     *)
(* pool that creates them on demand and drops them when the strategy       *)
(* changes (gateway/resolver_pool.go), and requests that pick instances.   *)
(*                                                                         *)
(* Resolvers live in slots; a slot is free again once its watch loop has   *)
(* returned and no request holds it. Events travel from etcd to a resolver *)
(* in order, in one pipe (etcd's watch channel and the buffered eventCh).  *)
(* The registry is the Directory that EtcdRegistry implements.             *)
(***************************************************************************)
EXTENDS Directory, Balancer, SequencesExt

CONSTANTS
    Slots,           \* resolvers that may exist at one time
    Requests,        \* requests in ProxyHandler.Handle at one time
    Strategies,      \* the strategies a configuration may name
    FirstStrategy,   \* the one gateway.New finds
    KeyOrder,        \* the IDs in the order of their keys
    RegistryPrefix,  \* the prefix the registry is configured with
    ResolverPrefix,  \* the prefix resolvers assume
    Protocol,        \* the protocol resolvers ask for, or None (as the pool's)
    MaxChanges,      \* BOUND: changes of the directory
    MaxUpdates,      \* BOUND: changes of the strategy
    MaxFaults        \* BOUND: failed fetches, ended watches

ASSUME PoolAssumption == Requests \cap {None} = {} /\ Slots \cap {None} = {}

(* An instance is a record that names its ID; a weight is an integer.      *)
ASSUME InstancesAssumption ==
    \A inst \in Instances : inst # None /\ inst.id \in IDs /\ inst.weight \in Int

(* KeyOrder has every ID once. *)
ASSUME KeysAssumption ==
    /\ KeyOrder \in Seq(IDs)
    /\ \A id \in IDs : \E i \in DOMAIN KeyOrder : KeyOrder[i] = id
    /\ \A i, j \in DOMAIN KeyOrder : KeyOrder[i] = KeyOrder[j] => i = j

VARIABLES
    changes,         \* changes of the directory so far (bounded by MaxChanges)
    faults,          \* faults so far (bounded by MaxFaults)
    list,            \* Resolver.instances
    room,            \* the capacity of the array the list is in
    loop,            \* where the resolver's life is
    closed,          \* the resolvers whose context is cancelled
    pipe,            \* events on their way to the resolver
    picker,          \* its picker
    missed,          \* history: IDs changed while the resolver was not told
    pooled,          \* ResolverPool.resolvers: the slot, or None
    strategy,        \* the strategy of the pool's picker factory
    lock,            \* the request that holds the pool's lock, or None
    serving,         \* whether the gateway still serves
    updates,         \* strategy changes so far (bounded by MaxUpdates)
    rpc,             \* where each request is
    using,           \* the resolver it got, or None
    view,            \* the slice it took from the resolver, while it picks
    shared,          \* the requests whose slice is in the resolver's present array
    stayed,          \* history: IDs listed ever since the request took its slice
    cells,           \* what a weighted pick has read of its slice in its present loop
    fp,              \* the fingerprint a weighted pick has computed
    disturbed        \* history: weighted picks whose slice changed under them

registryVars == <<listed, changes, faults>>
resolverVars == <<list, room, loop, closed, pipe, picker, missed>>
poolVars == <<pooled, strategy, lock, serving, updates>>
viewVars == <<view, shared, stayed>>
readVars == <<cells, fp, disturbed>>
requestVars == <<rpc, using, viewVars, readVars>>
vars == <<registryVars, resolverVars, poolVars, requestVars>>

(* "created" until the watch is set up, "lost" once the event channel is   *)
(* closed, "ended" once watchLoop has returned.                            *)
Loop == {"free", "created", "watching", "lost", "ended"}
RequestPC == {"idle", "locking", "fetching", "watching", "resolve", "pick",
              "fingerprint", "rebuild"}

(* A request in "pick" has its slice; one that holds the mutex of a        *)
(* weighted picker reads it, to compare fingerprints and then to rebuild.  *)
Reads(q) == rpc[q] \in {"fingerprint", "rebuild"}
HasSlice(q) == rpc[q] = "pick" \/ Reads(q)
PickerLocked(r) == \E q \in Requests : using[q] = r /\ Reads(q)

Init ==
    /\ DirectoryInit /\ changes = 0 /\ faults = 0
    /\ list = [r \in Slots |-> <<>>] /\ room = [r \in Slots |-> 0]
    /\ loop = [r \in Slots |-> "free"]
    /\ closed = {}
    /\ pipe = [r \in Slots |-> <<>>]
    /\ picker = [r \in Slots |-> NewPicker("round_robin")]
    /\ missed = [r \in Slots |-> {}]
    /\ pooled = None /\ strategy = FirstStrategy /\ lock = None
    /\ serving = TRUE /\ updates = 0
    /\ rpc = [q \in Requests |-> "idle"]
    /\ using = [q \in Requests |-> None]
    /\ view = [q \in Requests |-> <<>>] /\ shared = {}
    /\ stayed = [q \in Requests |-> {}]
    /\ cells = [q \in Requests |-> <<>>] /\ fp = [q \in Requests |-> <<>>]
    /\ disturbed = {}

-----------------------------------------------------------------------------
(* The resolver.                                                           *)

BuildKey(prefix, id) == <<prefix, id>>

Accepts(inst) == Protocol = None \/ inst.protocol = Protocol

(* Discover and DiscoverByProtocol: in the order of the keys. *)
AddFound(found, inst) ==
    IF inst # None /\ Accepts(inst) THEN Append(found, inst) ELSE found

Discovered == FoldLeft(AddFound, <<>>, [i \in DOMAIN KeyOrder |-> listed[KeyOrder[i]]])

(* The directory changes. Watch sends the event to the resolvers that      *)
(* watch; those that do not watch yet, or no longer, miss it.              *)
Tell(id, event) ==
    /\ changes < MaxChanges
    /\ changes' = changes + 1
    /\ pipe' = [r \in Slots |-> IF loop[r] = "watching" /\ r \notin closed
                                 THEN Append(pipe[r], event) ELSE pipe[r]]
    /\ missed' = [r \in Slots |-> IF loop[r] \in {"created", "lost", "ended"} /\ r \notin closed
                                   THEN missed[r] \cup {id} ELSE missed[r]]
    /\ UNCHANGED <<faults, list, room, loop, closed, picker, poolVars, requestVars>>

InstancePut(inst) == Publish(inst) /\ Tell(inst.id, [type |-> "put", instance |-> inst])

(* A delete event has the etcd key where an ID is expected. *)
InstanceDeleted(id) ==
    Withdraw(id) /\ Tell(id, [type |-> "delete", key |-> BuildKey(RegistryPrefix, id)])

Fault == faults < MaxFaults /\ faults' = faults + 1

(* handleEvent, PUT: replace the instance with the ID, or append. *)
HandlePut(instances, inst) ==
    LET same == {i \in DOMAIN instances : instances[i].id = inst.id}
    IN  IF ~ Accepts(inst) THEN instances
        ELSE IF same = {} THEN Append(instances, inst)
        ELSE [instances EXCEPT ![Min(same)] = inst]

(* Mutant of Matches: the key is compared with the bare ID. *)
MatchesID(inst, key) == BuildKey("", inst.id) = key

(* The code also compares the bare ID, which no key equals. *)
Matches(inst, key) == BuildKey(ResolverPrefix, inst.id) = key

(* handleEvent, DELETE: remove the first instance the key matches. *)
HandleDelete(instances, key) ==
    LET matching == {i \in DOMAIN instances : Matches(instances[i], key)}
    IN  IF matching = {} THEN instances ELSE RemoveAt(instances, Min(matching))

Handle(instances, event) ==
    IF event.type = "put" THEN HandlePut(instances, event.instance)
                          ELSE HandleDelete(instances, event.key)

IDsIn(instances) == {instances[i].id : i \in DOMAIN instances}

(* Mutant of Overwrite: removing clears the cell that falls free.          *)
OverwriteClearing(slice, after) ==
    [i \in DOMAIN slice |-> IF i <= Len(after) THEN after[i] ELSE None]

(* The array changes in place, under a slice that a request took earlier:  *)
(* the cells beyond the list keep what they held.                          *)
Overwrite(slice, after) ==
    [i \in DOMAIN slice |-> IF i <= Len(after) THEN after[i] ELSE slice[i]]

(* The list of r becomes after: in its array, or in a new array of twice   *)
(* the room if it has outgrown it. Requests that are picking do not hold   *)
(* the lock.                                                               *)
WriteList(r, after) ==
    LET picking == {q \in Requests : using[q] = r /\ HasSlice(q)} IN
    /\ list' = [list EXCEPT ![r] = after]
    /\ IF Len(after) <= room[r]
       THEN /\ view' = [q \in Requests |-> IF q \in picking \cap shared
                                           THEN Overwrite(view[q], after) ELSE view[q]]
            /\ UNCHANGED <<room, shared>>
       ELSE /\ room' = [room EXCEPT ![r] = IF @ = 0 THEN 1 ELSE 2 * @]
            /\ shared' = shared \ picking
            /\ UNCHANGED view
    /\ stayed' = [q \in Requests |-> IF q \in picking THEN stayed[q] \cap IDsIn(after)
                                                      ELSE stayed[q]]
    /\ disturbed' = disturbed \cup {q \in Requests : Reads(q) /\ view'[q] # view[q]}
    /\ UNCHANGED <<cells, fp>>

EventID(event) == IF event.type = "put" THEN event.instance.id ELSE event.key[2]

(* watchLoop takes an event, in the end possibly after its context ended.  *)
(* An event of a live watch is newer than anything missed before it.       *)
HandleEvent(r) ==
    /\ loop[r] \in {"watching", "lost"} /\ pipe[r] # <<>>
    /\ WriteList(r, Handle(list[r], Head(pipe[r])))
    /\ pipe' = [pipe EXCEPT ![r] = Tail(@)]
    /\ missed' = [missed EXCEPT ![r] =
                     IF loop[r] = "watching" THEN @ \ {EventID(Head(pipe[r]))} ELSE @]
    /\ UNCHANGED <<registryVars, loop, closed, picker, poolVars, rpc, using>>

(* etcd ends the watch (a compaction, say): Watch closes the event channel. *)
WatchLost(r) ==
    /\ loop[r] = "watching" /\ r \notin closed /\ Fault
    /\ loop' = [loop EXCEPT ![r] = "lost"]
    /\ UNCHANGED <<listed, changes, list, room, closed, pipe, picker, missed,
                   poolVars, requestVars>>

(* A fetched list is in an array of its own. *)
ReplaceList(r) ==
    LET picking == {q \in Requests : using[q] = r /\ HasSlice(q)} IN
    /\ list' = [list EXCEPT ![r] = Discovered]
    /\ room' = [room EXCEPT ![r] = Len(Discovered)]
    /\ shared' = shared \ picking
    /\ stayed' = [q \in Requests |-> IF q \in picking THEN stayed[q] \cap IDsIn(Discovered)
                                                      ELSE stayed[q]]
    /\ UNCHANGED <<view, readVars>>

(* watchLoop finds the channel closed, by etcd or by the cancelled         *)
(* context: fullRefresh replaces the list, or keeps it on an error, and    *)
(* the loop returns. Nobody else writes the list meanwhile.                *)
FullRefresh(r) ==
    /\ \/ loop[r] = "lost"
       \/ loop[r] = "watching" /\ r \in closed
    /\ pipe[r] = <<>>
    /\ loop' = [loop EXCEPT ![r] = "ended"]
    /\ \/ /\ ReplaceList(r)
          /\ missed' = [missed EXCEPT ![r] = {}]
          /\ UNCHANGED faults
       \/ Fault /\ UNCHANGED <<list, room, missed, viewVars, readVars>>
    /\ UNCHANGED <<listed, changes, closed, pipe, picker, poolVars, rpc, using>>

(* watchLoop finds its context cancelled. *)
LoopReturn(r) ==
    /\ loop[r] \in {"watching", "lost"} /\ r \in closed
    /\ loop' = [loop EXCEPT ![r] = "ended"]
    /\ pipe' = [pipe EXCEPT ![r] = <<>>]
    /\ UNCHANGED <<registryVars, list, room, closed, picker, missed, poolVars, requestVars>>

(* The garbage collector frees a closed resolver nobody refers to. *)
Collect(r) ==
    /\ loop[r] = "ended" /\ r \in closed /\ \A q \in Requests : using[q] # r
    /\ list' = [list EXCEPT ![r] = <<>>] /\ room' = [room EXCEPT ![r] = 0]
    /\ loop' = [loop EXCEPT ![r] = "free"]
    /\ closed' = closed \ {r}
    /\ picker' = [picker EXCEPT ![r] = NewPicker("round_robin")]
    /\ missed' = [missed EXCEPT ![r] = {}]
    /\ UNCHANGED <<registryVars, pipe, poolVars, requestVars>>

ResolverStep(r) ==
    HandleEvent(r) \/ WatchLost(r) \/ FullRefresh(r) \/ LoopReturn(r) \/ Collect(r)

-----------------------------------------------------------------------------
(* The pool.                                                               *)

RequestGoto(q, next) == rpc' = [rpc EXCEPT ![q] = next]

(* GetOrCreate, first look under the read lock. *)
Lookup(q) ==
    /\ rpc[q] = "idle" /\ serving /\ lock = None
    /\ RequestGoto(q, IF pooled = None THEN "locking" ELSE "resolve")
    /\ using' = [using EXCEPT ![q] = pooled]
    /\ UNCHANGED <<registryVars, resolverVars, poolVars, viewVars, readVars>>

(* Mutant of Relookup: no second look under the lock. *)
RelookupSkipped(q) ==
    /\ rpc[q] = "locking" /\ lock = None
    /\ RequestGoto(q, "fetching") /\ lock' = q
    /\ UNCHANGED <<registryVars, resolverVars, pooled, strategy, serving, updates,
                   using, viewVars, readVars>>

(* The write lock, and a second look. *)
Relookup(q) ==
    /\ rpc[q] = "locking" /\ lock = None
    /\ IF pooled # None
       THEN RequestGoto(q, "resolve") /\ using' = [using EXCEPT ![q] = pooled] /\ UNCHANGED lock
       ELSE RequestGoto(q, "fetching") /\ lock' = q /\ UNCHANGED using
    /\ UNCHANGED <<registryVars, resolverVars, pooled, strategy, serving, updates,
                   viewVars, readVars>>

(* NewResolver fetches the instances, *)
Fetch(q) ==
    /\ rpc[q] = "fetching" /\ RequestGoto(q, "watching")
    /\ \E r \in Slots :
          /\ loop[r] = "free"
          /\ using' = [using EXCEPT ![q] = r]
          /\ list' = [list EXCEPT ![r] = Discovered]
          /\ room' = [room EXCEPT ![r] = Len(Discovered)]
          /\ loop' = [loop EXCEPT ![r] = "created"]
          /\ picker' = [picker EXCEPT ![r] = NewPicker(strategy)]
    /\ UNCHANGED <<registryVars, closed, pipe, missed, poolVars, viewVars, readVars>>

(* or fails, which ends the request with CodeServiceNotFound, *)
FetchFails(q) ==
    /\ rpc[q] = "fetching" /\ RequestGoto(q, "idle") /\ Fault
    /\ lock' = None
    /\ UNCHANGED <<listed, changes, resolverVars, pooled, strategy, serving,
                   updates, using, viewVars, readVars>>

(* and begins to watch; the pool keeps the resolver and unlocks. *)
Watch(q) ==
    /\ rpc[q] = "watching" /\ RequestGoto(q, "resolve")
    /\ loop' = [loop EXCEPT ![using[q]] = "watching"]
    /\ pooled' = using[q]
    /\ lock' = None
    /\ UNCHANGED <<registryVars, list, room, closed, pipe, picker, missed, strategy,
                   serving, updates, using, viewVars, readVars>>

CloseAll ==
    /\ lock = None
    /\ closed' = closed \cup ({pooled} \ {None})
    /\ pooled' = None
    /\ UNCHANGED <<registryVars, list, room, loop, pipe, picker, missed, lock, requestVars>>

(* Every change of the configuration closes and forgets all resolvers. *)
UpdateStrategy(s) ==
    /\ serving /\ updates < MaxUpdates
    /\ CloseAll
    /\ strategy' = s
    /\ updates' = updates + 1
    /\ UNCHANGED serving

(* Close, when the server has stopped and its requests have ended. *)
Close ==
    /\ serving /\ \A q \in Requests : rpc[q] = "idle"
    /\ CloseAll
    /\ serving' = FALSE
    /\ UNCHANGED <<strategy, updates>>

-----------------------------------------------------------------------------
(* Resolve: an empty list ends the request; otherwise the request takes    *)
(* the slice under the read lock, and the picker chooses without it.       *)

ResolveNone(q) ==
    /\ rpc[q] = "resolve" /\ list[using[q]] = <<>> /\ RequestGoto(q, "idle")
    /\ using' = [using EXCEPT ![q] = None]
    /\ UNCHANGED <<registryVars, resolverVars, poolVars, viewVars, readVars>>

Resolve(q) ==
    /\ rpc[q] = "resolve" /\ list[using[q]] # <<>> /\ RequestGoto(q, "pick")
    /\ view' = [view EXCEPT ![q] = list[using[q]]]
    /\ shared' = shared \cup {q}
    /\ stayed' = [stayed EXCEPT ![q] = IDsIn(list[using[q]])]
    /\ UNCHANGED <<registryVars, resolverVars, poolVars, using, readVars>>

(* The request has its instance, and lets go of the slice. *)
EndPick(q) ==
    /\ RequestGoto(q, "idle")
    /\ using' = [using EXCEPT ![q] = None]
    /\ view' = [view EXCEPT ![q] = <<>>]
    /\ shared' = shared \ {q}
    /\ stayed' = [stayed EXCEPT ![q] = {}]
    /\ cells' = [cells EXCEPT ![q] = <<>>] /\ fp' = [fp EXCEPT ![q] = <<>>]
    /\ disturbed' = disturbed \ {q}
    /\ UNCHANGED <<registryVars, list, room, loop, closed, pipe, missed, poolVars>>

Pick(q) ==
    /\ rpc[q] = "pick" /\ ~ IsWeighted(picker[using[q]])
    /\ \E choice \in Picks(picker[using[q]], view[q]) :
          picker' = [picker EXCEPT ![using[q]] = choice.picker]
    /\ EndPick(q)

(* Mutant of ReadCell: the picker's mutex is not taken. *)
ReadCellUnlocked(q) ==
    /\ \/ /\ rpc[q] = "pick" /\ IsWeighted(picker[using[q]])
          /\ RequestGoto(q, "fingerprint")
       \/ Reads(q) /\ UNCHANGED rpc
    /\ Len(cells[q]) < Len(view[q])
    /\ cells' = [cells EXCEPT ![q] = Append(@, view[q][Len(@) + 1])]
    /\ UNCHANGED <<registryVars, resolverVars, poolVars, using, viewVars, fp, disturbed>>

(* The weighted picker takes its mutex and reads the slice cell by cell,   *)
(* in fingerprint and, when it differs, once more in rebuild. handleEvent  *)
(* does not take this mutex: the array may change between any two reads.   *)
ReadCell(q) ==
    /\ \/ /\ rpc[q] = "pick" /\ IsWeighted(picker[using[q]])
          /\ ~ PickerLocked(using[q]) /\ RequestGoto(q, "fingerprint")
       \/ Reads(q) /\ UNCHANGED rpc
    /\ Len(cells[q]) < Len(view[q])
    /\ cells' = [cells EXCEPT ![q] = Append(@, view[q][Len(@) + 1])]
    /\ UNCHANGED <<registryVars, resolverVars, poolVars, using, viewVars, fp, disturbed>>

(* The fingerprint is the one of the nodes, which take their turn, *)
KeepNodes(q) ==
    LET p == picker[using[q]] IN
    /\ rpc[q] = "fingerprint" /\ Len(cells[q]) = Len(view[q])
    /\ Fingerprint(cells[q]) = p.fingerprint
    /\ picker' = [picker EXCEPT ![using[q]].nodes = Turn(p.nodes)]
    /\ EndPick(q)

(* or it is another one, and the slice is read again. *)
Differs(q) ==
    /\ rpc[q] = "fingerprint" /\ Len(cells[q]) = Len(view[q])
    /\ Fingerprint(cells[q]) # picker[using[q]].fingerprint
    /\ RequestGoto(q, "rebuild")
    /\ fp' = [fp EXCEPT ![q] = Fingerprint(cells[q])]
    /\ cells' = [cells EXCEPT ![q] = <<>>]
    /\ UNCHANGED <<registryVars, resolverVars, poolVars, using, viewVars, disturbed>>

(* The new nodes are recorded under the fingerprint computed before them,  *)
(* and take their turn.                                                    *)
RebuildNodes(q) ==
    /\ rpc[q] = "rebuild" /\ Len(cells[q]) = Len(view[q])
    /\ picker' = [picker EXCEPT ![using[q]].nodes = Turn(Rebuild(cells[q])),
                                ![using[q]].fingerprint = fp[q],
                                ![using[q]].torn = (q \in disturbed)]
    /\ EndPick(q)

RequestStep(q) ==
    \/ Lookup(q) \/ Relookup(q) \/ Fetch(q) \/ FetchFails(q) \/ Watch(q)
    \/ ResolveNone(q) \/ Resolve(q) \/ Pick(q)
    \/ ReadCell(q) \/ KeepNodes(q) \/ Differs(q) \/ RebuildNodes(q)

Next ==
    \/ \E inst \in Instances : InstancePut(inst)
    \/ \E id \in IDs : InstanceDeleted(id)
    \/ \E r \in Slots : ResolverStep(r)
    \/ \E q \in Requests : RequestStep(q)
    \/ \E s \in Strategies : UpdateStrategy(s)
    \/ Close

Spec == Init /\ [][Next]_vars

-----------------------------------------------------------------------------
(* Types of the state: a slot in use has its picker, the pool and the      *)
(* requests refer to slots in use, only the lock holder creates, and one   *)
(* request at a time reads for a weighted picker.                          *)
TypeOK ==
    /\ list \in [Slots -> Seq(Instances)] /\ room \in [Slots -> Nat]
    /\ \A r \in Slots : Len(list[r]) <= room[r]
    /\ loop \in [Slots -> Loop] /\ closed \subseteq {r \in Slots : loop[r] # "free"}
    /\ \A r \in Slots : loop[r] = "free" => list[r] = <<>> /\ pipe[r] = <<>>
    /\ missed \in [Slots -> SUBSET IDs]
    /\ pooled \in Slots \cup {None} /\ lock \in Requests \cup {None}
    /\ rpc \in [Requests -> RequestPC]
    /\ \A q \in Requests :
          /\ rpc[q] \in {"fetching", "watching"} <=> lock = q
          /\ using[q] # None <=> rpc[q] \in {"watching", "resolve"} \/ HasSlice(q)
          /\ q \in shared => HasSlice(q) /\ Len(view[q]) <= room[using[q]]
          /\ using[q] # None => loop[using[q]] # "free"
          /\ cells[q] # <<>> => Reads(q)
          /\ fp[q] # <<>> => rpc[q] = "rebuild"
    /\ cells \in [Requests -> Seq(Instances)] /\ disturbed \subseteq {q \in Requests : Reads(q)}
    /\ \A p, q \in Requests : Reads(p) /\ Reads(q) /\ using[p] = using[q] => p = q

(* A resolver's list, once the pending events are handled, agrees with     *)
(* etcd on every ID whose changes the resolver was told of, and has no ID  *)
(* twice: replacing, appending and removing by key lose nothing and bring  *)
(* nothing back, whatever the order of registrations, crashes and expiries. *)
ListFollows ==
    \A r \in Slots : loop[r] # "free" /\ r \notin closed =>
        LET after == FoldLeft(Handle, list[r], pipe[r]) IN
        /\ Len(after) = Cardinality(IDsIn(after))
        /\ \A id \in IDs \ missed[r] :
              {inst \in Range(after) : inst.id = id} =
                 IF listed[id] # None /\ Accepts(listed[id]) THEN {listed[id]} ELSE {}

(* Every open resolver is the pooled one or the lock holder's, and picks   *)
(* by the strategy in force: changing the strategy while requests create   *)
(* resolvers leaks none and leaves none with the old strategy.             *)
PoolOwnsResolvers ==
    \A r \in Slots : loop[r] # "free" /\ r \notin closed =>
        /\ r = pooled \/ (lock # None /\ using[lock] = r)
        /\ picker[r].strategy = NewPicker(strategy).strategy

(* Over a full cycle the weighted round robin has picked every node as     *)
(* often as its weight says.                                               *)
WeightedFair ==
    \A r \in Slots :
        LET nodes == picker[r].nodes IN
        TotalServed(nodes) = TotalWeight(nodes) =>
            \A i \in DOMAIN nodes : nodes[i].served = nodes[i].weight

(* The weighted round robin picks among as many nodes as its slice has     *)
(* cells, whatever changed the slice meanwhile and whoever else picks.     *)
(* The nodes have the IDs and weights of the slice, however the list has   *)
(* changed since the last pick, unless the slice changed under this pick   *)
(* or under the one that built the nodes: the fingerprint it compares is   *)
(* read apart from the nodes. (Addresses may be older: the fingerprint has *)
(* IDs and weights only.)                                                  *)
PicksFromList ==
    [][\A q \in Requests : Reads(q) /\ ~ Reads(q)' =>
          LET p == picker'[using[q]] IN
          /\ Len(p.nodes) = Len(view[q])
          /\ q \notin disturbed /\ ~ p.torn =>
                \A i \in DOMAIN p.nodes : /\ p.nodes[i].instance.id = view[q][i].id
                                          /\ p.nodes[i].instance.weight = view[q][i].weight]_vars

(* A request picks from a slice of the array that handleEvent shifts,      *)
(* overwrites and extends at the same time. Still no cell of its slice is  *)
(* empty, and no instance is lost that was listed when the request looked  *)
(* and has been listed ever since (one may be there twice).                *)
SlicesStayWhole ==
    \A q \in Requests : HasSlice(q) =>
        /\ view[q] # <<>> /\ \A i \in DOMAIN view[q] : view[q][i] # None
        /\ stayed[q] \subseteq IDsIn(view[q])

(* A pooled resolver that watches and has no event pending lists what etcd *)
(* lists. The code does not ensure it: it fetches before it watches.       *)
PooledListIsCurrent ==
    \A r \in Slots : r = pooled /\ loop[r] = "watching" /\ pipe[r] = <<>> =>
        Range(list[r]) = {inst \in Range(listed) : inst # None /\ Accepts(inst)}
=============================================================================
