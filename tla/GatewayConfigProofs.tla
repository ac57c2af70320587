------------------------ MODULE GatewayConfigProofs -------------------------
(***************************************************************************)
(* Proofs about GatewayConfig, for any configurations, any number of       *)
(* listener goroutines and any number of requests.                         *)
(***************************************************************************)
EXTENDS GatewayConfig, FoldLemmas, TLAPS

ListenerPC == {"free", "store", "copy", "keys", "strategy"}
MainPC == {"fetch", "getConfig", "store", "copy", "load", "onChange", "running"}

(* Where goroutines may be: the callback runs only once it is registered.  *)
StagesOK ==
    /\ \A p \in Listeners : pc[p] \in ListenerPC
    /\ pc[Main] \in MainPC
    /\ registered <=> pc[Main] = "running"
    /\ \A p \in Listeners : pc[p] \in {"keys", "strategy"} => registered
    /\ \A p \in Stores : pc[p] \in {"store", "copy", "keys", "strategy"} => version[p] \in Versions

(* Nothing is left to do for the newest configuration but what Setup does. *)
Settled == holder = latest /\ (pc[Main] = "running" => InForce(latest))

(* How far the goroutine p has come with the newest configuration.         *)
Progress(p) ==
    /\ pc[p] = "store" => IF Readable(version[p]) THEN latest = version[p] ELSE Settled
    /\ pc[p] \in {"copy", "keys", "strategy"} => /\ latest = version[p] /\ holder = version[p]
                                                 /\ Readable(version[p])
    /\ pc[p] = "strategy" => keys = ParsedKeys(Config(version[p]).jwt.keys)

(* Unless changes overlap, only one goroutine is at work; the newest       *)
(* configuration is in force, or is on its way there.                      *)
AloneOK ==
    /\ \A p, r \in Stores : Busy(p) /\ Busy(r) => p = r
    /\ (\A p \in Stores : ~ Busy(p)) => Settled
    /\ \A p \in Stores : Progress(p)
    /\ pc[Main] = "load" => holder = latest
    /\ pc[Main] = "onChange" => InForce(latest)

ConfigInv == TypeOK /\ StagesOK /\ (~ mixed => AloneOK)

-----------------------------------------------------------------------------
(* ApplyDynamicDefaults leaves no strategy empty. *)
LEMMA StrategyGiven ==
  ASSUME NEW v \in Versions, Readable(v)
  PROVE  Config(v).balancer # None
  <1> DEFINE cfg == Parsed[v]
  <1>1. DOMAIN cfg = DOMAIN EmptyConfig /\ None # "round_robin" /\ v # Default
    BY GatewayAssumption DEF Readable
  <1>2. "balancer" \in DOMAIN cfg
    BY <1>1 DEF EmptyConfig
  <1>3. ApplyDynamicDefaults(cfg).balancer = IF cfg.balancer = None THEN "round_robin" ELSE cfg.balancer
    BY <1>2 DEF ApplyDynamicDefaults
  <1> QED BY <1>1, <1>3 DEF Config

(* Types and stages. *)
LEMMA ConfigInit == Init => ConfigInv
  <1> SUFFICES ASSUME Init PROVE ConfigInv
    OBVIOUS
  <1>1. Main \in Stores /\ \A p \in Listeners : p \in Stores /\ p # Main
    BY GatewayAssumption DEF Stores
  <1>2. TypeOK
    <2>1. MaxDeliveries \in Nat
      BY GatewayAssumption
    <2>2. pc \in [Stores -> StorePC] /\ version \in [Stores -> Versions \cup {None}]
      BY DEF Init, StorePC
    <2>3. /\ rpc \in [Requests -> RequestPC] /\ caller \in [Requests -> Callers \cup {None}]
          /\ loaded \in [Requests -> Versions \cup {Default, None}]
      BY DEF Init, RequestPC
    <2>4. /\ cached \in Versions \cup {None} /\ delivered \in 0..MaxDeliveries
          /\ holder \in Versions \cup {Default} /\ latest \in Versions \cup {Default}
          /\ calm \subseteq Requests
      BY <2>1 DEF Init
    <2>5. registered \in BOOLEAN /\ mixed \in BOOLEAN /\ raced \in BOOLEAN
      BY DEF Init
    <2> QED BY <2>2, <2>3, <2>4, <2>5 DEF TypeOK
  <1>3. pc[Main] = "fetch" /\ \A p \in Listeners : pc[p] = "free"
    BY <1>1 DEF Init
  <1>4. StagesOK
    BY <1>1, <1>3 DEF Stores, Init, StagesOK, ListenerPC, MainPC
  <1>5. \A p \in Stores : pc[p] \in {"fetch", "free"} /\ ~ Busy(p)
    BY <1>1, <1>3 DEF Busy, Stores
  <1>6. AloneOK
    BY <1>3, <1>5 DEF Init, AloneOK, Settled, Progress
  <1> QED BY <1>2, <1>4, <1>6 DEF ConfigInv

LEMMA RequestTypes ==
  ASSUME TypeOK, NEW q \in Requests, RequestStep(q)
  PROVE  TypeOK' /\ UNCHANGED <<configVars, mixed, latest>>
  <1> USE DEF TypeOK, RequestPC, RequestGoto, configVars
  <1>0. raced' \in BOOLEAN
    BY DEF RequestStep, Arrive, FilterCompare, FilterRefresh, FilterKeep, FilterMatch, JWTLoad,
           JWTVerify, Leave
  <1>1. CASE Arrive(q)
    BY <1>0, <1>1 DEF Arrive
  <1>2. CASE FilterCompare(q) \/ FilterRefresh(q) \/ FilterKeep(q)
    BY <1>0, <1>2 DEF FilterCompare, FilterRefresh, FilterKeep
  <1>3. CASE FilterMatch(q)
    <2>1. \E next \in {"blocked", "jwt"} : rpc' = [rpc EXCEPT ![q] = next]
      BY <1>3 DEF FilterMatch
    <2>2. UNCHANGED <<configVars, caller, loaded, mixed, latest, calm>>
      BY <1>3 DEF FilterMatch
    <2> QED BY <1>0, <2>1, <2>2
  <1>4. CASE JWTLoad(q)
    <2>1. \E next \in {"passed", "unauthorized", "verify"} : rpc' = [rpc EXCEPT ![q] = next]
      BY <1>4 DEF JWTLoad
    <2>2. UNCHANGED <<configVars, caller, loaded, mixed, latest, calm>>
      BY <1>4 DEF JWTLoad
    <2> QED BY <1>0, <2>1, <2>2
  <1>5. CASE JWTVerify(q)
    <2>1. \E next \in {"passed", "unauthorized"} : rpc' = [rpc EXCEPT ![q] = next]
      BY <1>5 DEF JWTVerify
    <2>2. UNCHANGED <<configVars, caller, loaded, mixed, latest, calm>>
      BY <1>5 DEF JWTVerify
    <2> QED BY <1>0, <2>1, <2>2
  <1>6. CASE Leave(q)
    BY <1>0, <1>6 DEF Leave
  <1> QED BY <1>1, <1>2, <1>3, <1>4, <1>5, <1>6 DEF RequestStep

LEMMA ConfigTypes ==
  ASSUME TypeOK, StagesOK,
         \/ MainStep
         \/ \E p \in Listeners, v \in Versions : Deliver(p, v)
         \/ \E p \in Listeners : ListenerStep(p)
  PROVE  TypeOK'
  <1> USE DEF TypeOK, Stores, StorePC, Goto, requestVars, history
  <1>1. CASE Fetch
    BY <1>1 DEF Fetch
  <1>6. CASE GetConfig
    <2>1. mixed' \in BOOLEAN
      BY <1>6 DEF GetConfig
    <2>2. version' \in [Stores -> Versions \cup {None}] /\ latest' \in Versions \cup {Default}
      BY <1>6 DEF GetConfig
    <2>3. \E next \in {"store", "load"} : pc' = [pc EXCEPT ![Main] = next]
      BY <1>6 DEF GetConfig
    <2> QED BY <1>6, <2>1, <2>2, <2>3 DEF GetConfig
  <1>2. ASSUME NEW p \in Stores, StoreConfig(p) \/ CopyCallbacks(p) PROVE TypeOK'
    <2>1. CASE StoreConfig(p)
      <3>1. version[p] \in Versions
        BY <2>1 DEF StoreConfig, StagesOK
      <3> QED BY <2>1, <3>1 DEF StoreConfig
    <2>2. CASE CopyCallbacks(p)
      BY <2>2 DEF CopyCallbacks, AfterStore
    <2> QED BY <1>2, <2>1, <2>2
  <1>3. CASE NewLoad
    BY <1>3 DEF NewLoad
  <1>7. CASE OnChange
    BY <1>7 DEF OnChange
  <1>4. ASSUME NEW p \in Listeners, NEW v \in Versions, Deliver(p, v) PROVE TypeOK'
    <2>1. delivered' \in 0..MaxDeliveries
      <3>1. MaxDeliveries \in Nat
        BY GatewayAssumption
      <3> QED BY <1>4, <3>1 DEF Deliver
    <2>2. mixed' \in BOOLEAN /\ latest' \in Versions \cup {Default}
      BY <1>4 DEF Deliver
    <2> QED BY <1>4, <2>1, <2>2 DEF Deliver
  <1>5. ASSUME NEW p \in Listeners, Drop(p) \/ UpdateKeys(p) \/ UpdateStrategy(p) PROVE TypeOK'
    BY <1>5 DEF Drop, UpdateKeys, UpdateStrategy, AfterStore
  <1> QED BY <1>1, <1>2, <1>3, <1>4, <1>5, <1>6, <1>7 DEF MainStep, ListenerStep, Stores

LEMMA StagesStep ==
  ASSUME TypeOK, StagesOK,
         \/ MainStep
         \/ \E p \in Listeners, v \in Versions : Deliver(p, v)
         \/ \E p \in Listeners : ListenerStep(p)
  PROVE  StagesOK'
  <1> USE DEF StagesOK, ListenerPC, MainPC, Goto
  <1>0. pc \in [Stores -> StorePC] /\ Stores = Listeners \cup {Main} /\ Main \notin Listeners
    BY GatewayAssumption DEF TypeOK, Stores
  <1>1. CASE Fetch \/ NewLoad \/ OnChange
    BY <1>0, <1>1 DEF Fetch, NewLoad, OnChange
  <1>5. CASE GetConfig
    BY <1>0, <1>5 DEF GetConfig, TypeOK
  <1>2. ASSUME NEW p \in Stores, StoreConfig(p) \/ CopyCallbacks(p) PROVE StagesOK'
    BY <1>0, <1>2 DEF StoreConfig, CopyCallbacks, AfterStore
  <1>3. ASSUME NEW p \in Listeners, NEW v \in Versions, Deliver(p, v) PROVE StagesOK'
    BY <1>0, <1>3 DEF Deliver, TypeOK
  <1>4. ASSUME NEW p \in Listeners, Drop(p) \/ UpdateKeys(p) \/ UpdateStrategy(p) PROVE StagesOK'
    BY <1>0, <1>4 DEF Drop, UpdateKeys, UpdateStrategy, AfterStore
  <1> QED BY <1>0, <1>1, <1>2, <1>3, <1>4, <1>5 DEF MainStep, ListenerStep

-----------------------------------------------------------------------------
(* The configuration in force.                                             *)

(* A goroutine at rest has no progress to answer for. *)
LEMMA AtRest ==
  ASSUME StagesOK, NEW p \in Stores, ~ Busy(p)
  PROVE  pc[p] \in {"free", "fetch", "getConfig", "running"} /\ Progress(p)
  BY DEF StagesOK, Busy, Stores, ListenerPC, MainPC, Progress

LEMMA AtRestNext ==
  ASSUME StagesOK', NEW p \in Stores, ~ Busy(p)'
  PROVE  pc'[p] \in {"free", "fetch", "getConfig", "running"} /\ Progress(p)'
  BY DEF StagesOK, Busy, Stores, ListenerPC, MainPC, Progress

(* If p alone is at work after the step, its progress is all that counts.  *)
LEMMA AloneNext ==
  ASSUME StagesOK', NEW p \in Stores,
         \A r \in Stores : r # p => ~ Busy(r)',
         Progress(p)',
         ~ Busy(p)' => Settled',
         p = Main => /\ pc'[Main] = "load" => holder' = latest'
                     /\ pc'[Main] = "onChange" => InForce(latest)'
  PROVE  AloneOK'
  <1>1. Main \in Stores
    BY DEF Stores
  <1>2. p # Main => pc'[Main] \in {"free", "fetch", "getConfig", "running"}
    BY <1>1, AtRestNext
  <1> QED BY <1>1, <1>2, AtRestNext DEF AloneOK

(* A goroutine that works after the step worked before it, and was the     *)
(* only one: nobody else is at work afterwards.                            *)
LEMMA OthersRest ==
  ASSUME TypeOK, StagesOK, AloneOK, NEW p \in Stores, Busy(p), NEW next,
         pc' = [pc EXCEPT ![p] = next]
  PROVE  \A r \in Stores : r # p => ~ Busy(r) /\ ~ Busy(r)'
  BY GatewayAssumption DEF AloneOK, Busy, TypeOK

LEMMA ListenerAlone ==
  ASSUME TypeOK, StagesOK, StagesOK', AloneOK, NEW p \in Listeners, ListenerStep(p)
  PROVE  AloneOK'
  <1>0. /\ p \in Stores /\ p # Main /\ Main \in Stores /\ pc \in [Stores -> StorePC]
        /\ Progress(p)
    BY GatewayAssumption DEF Stores, TypeOK, AloneOK
  <1>1. pc[p] # "free" /\ Busy(p)
    BY <1>0 DEF ListenerStep, Drop, StoreConfig, CopyCallbacks, UpdateKeys, UpdateStrategy, Busy
  <1>2. \E next : pc' = [pc EXCEPT ![p] = next]
    BY DEF ListenerStep, Drop, StoreConfig, CopyCallbacks, UpdateKeys, UpdateStrategy, Goto
  <1>3. \A r \in Stores : r # p => ~ Busy(r) /\ ~ Busy(r)'
    BY <1>0, <1>1, <1>2, OthersRest
  <1>4. pc[Main] \in {"fetch", "getConfig", "running"} /\ pc'[Main] = pc[Main]
    BY <1>0, <1>2, <1>3 DEF Busy
  <1>5. latest' = latest /\ version' = version
    BY DEF ListenerStep, Drop, StoreConfig, CopyCallbacks, UpdateKeys, UpdateStrategy, history
  <1>6. ASSUME Progress(p)', ~ Busy(p)' => Settled' PROVE AloneOK'
    BY <1>0, <1>3, <1>6, AloneNext
  <1>7. CASE Drop(p)
    <2>1. Settled
      BY <1>0, <1>7 DEF Drop, Progress
    <2>2. Settled' /\ pc'[p] = "free"
      BY <1>0, <1>4, <1>5, <1>7, <2>1 DEF Drop, Goto, Settled, InForce
    <2> QED BY <1>6, <2>2 DEF Progress
  <1>8. CASE StoreConfig(p)
    <2>1. latest = version[p] /\ Readable(version[p])
      BY <1>0, <1>8 DEF StoreConfig, Progress
    <2>2. pc'[p] = "copy" /\ holder' = version[p] /\ Busy(p)'
      BY <1>0, <1>8 DEF StoreConfig, Goto, Busy
    <2> QED BY <1>5, <1>6, <2>1, <2>2 DEF Progress, Readable
  <1>9. CASE CopyCallbacks(p)
    <2>1. latest = version[p] /\ holder = version[p] /\ Readable(version[p]) /\ holder' = holder
      BY <1>0, <1>9 DEF CopyCallbacks, Progress
    <2>2. CASE registered
      <3>1. pc'[p] = "keys" /\ Busy(p)'
        BY <1>0, <1>9, <2>2 DEF CopyCallbacks, Goto, Busy
      <3> QED BY <1>5, <1>6, <2>1, <3>1 DEF Progress, Readable
    <2>3. CASE ~ registered
      <3>1. pc'[p] = "free" /\ pc'[Main] # "running"
        BY <1>0, <1>4, <1>9, <2>3 DEF CopyCallbacks, Goto, AfterStore, StagesOK
      <3> QED BY <1>5, <1>6, <2>1, <3>1 DEF Progress, Settled
    <2> QED BY <2>2, <2>3
  <1>10. CASE UpdateKeys(p)
    <2>1. /\ latest = version[p] /\ holder = version[p] /\ Readable(version[p])
          /\ holder' = holder /\ keys' = ParsedKeys(Config(version[p]).jwt.keys)
      BY <1>0, <1>10 DEF UpdateKeys, Progress
    <2>2. pc'[p] = "strategy" /\ Busy(p)'
      BY <1>0, <1>10 DEF UpdateKeys, Goto, Busy
    <2> QED BY <1>5, <1>6, <2>1, <2>2 DEF Progress, Readable
  <1>11. CASE UpdateStrategy(p)
    <2>1. /\ latest = version[p] /\ holder = version[p] /\ Readable(version[p])
          /\ holder' = holder /\ keys' = keys /\ keys = ParsedKeys(Config(version[p]).jwt.keys)
      BY <1>0, <1>11 DEF UpdateStrategy, Progress
    <2>2. version[p] \in Versions
      BY <1>0, <1>11 DEF UpdateStrategy, StagesOK
    <2>3. strategy' = Config(version[p]).balancer
      BY <1>11, <2>1, <2>2, StrategyGiven DEF UpdateStrategy
    <2>4. pc'[p] = "free"
      BY <1>0, <1>11 DEF UpdateStrategy, Goto, AfterStore
    <2>5. InForce(latest)'
      BY <1>5, <2>1, <2>3 DEF InForce
    <2>6. Settled' /\ Progress(p)'
      BY <1>5, <2>1, <2>4, <2>5 DEF Settled, Progress
    <2> QED BY <1>6, <2>6
  <1> QED BY <1>7, <1>8, <1>9, <1>10, <1>11 DEF ListenerStep

LEMMA MainAlone ==
  ASSUME TypeOK, StagesOK, StagesOK', AloneOK,
         StoreConfig(Main) \/ CopyCallbacks(Main) \/ NewLoad \/ OnChange
  PROVE  AloneOK'
  <1>0. Main \in Stores /\ pc \in [Stores -> StorePC] /\ Progress(Main)
    BY DEF Stores, TypeOK, AloneOK
  <1>1. Busy(Main) /\ ~ registered
    BY <1>0 DEF StoreConfig, CopyCallbacks, NewLoad, OnChange, Busy, StagesOK
  <1>2. \E next : pc' = [pc EXCEPT ![Main] = next]
    BY DEF StoreConfig, CopyCallbacks, NewLoad, OnChange, Goto
  <1>3. \A r \in Stores : r # Main => ~ Busy(r) /\ ~ Busy(r)'
    BY <1>0, <1>1, <1>2, OthersRest
  <1>4. latest' = latest /\ version' = version
    BY DEF StoreConfig, CopyCallbacks, NewLoad, OnChange, history
  <1>5. ASSUME Progress(Main)', ~ Busy(Main)' => Settled',
               pc'[Main] = "load" => holder' = latest',
               pc'[Main] = "onChange" => InForce(latest)'
        PROVE  AloneOK'
    BY <1>0, <1>3, <1>5, AloneNext
  <1>6. CASE StoreConfig(Main)
    <2>1. latest = version[Main] /\ Readable(version[Main])
      BY <1>0, <1>6 DEF StoreConfig, Progress
    <2>2. pc'[Main] = "copy" /\ holder' = version[Main] /\ Busy(Main)'
      BY <1>0, <1>6 DEF StoreConfig, Goto, Busy
    <2> QED BY <1>4, <1>5, <2>1, <2>2 DEF Progress, Readable
  <1>7. CASE CopyCallbacks(Main)
    <2>1. latest = version[Main] /\ holder = version[Main] /\ holder' = holder
      BY <1>0, <1>7 DEF CopyCallbacks, Progress
    <2>2. pc'[Main] = "load" /\ Busy(Main)'
      BY <1>0, <1>1, <1>7 DEF CopyCallbacks, Goto, AfterStore, Busy
    <2> QED BY <1>4, <1>5, <2>1, <2>2 DEF Progress
  <1>8. CASE NewLoad
    <2>1. holder = latest
      BY <1>8 DEF NewLoad, AloneOK
    <2>2. pc'[Main] = "onChange" /\ Busy(Main)'
      BY <1>0, <1>8 DEF NewLoad, Goto, Busy
    <2>3. InForce(latest)'
      BY <1>4, <1>8, <2>1 DEF NewLoad, InForce
    <2> QED BY <1>5, <2>2, <2>3 DEF Progress
  <1>9. CASE OnChange
    <2>1. InForce(latest)
      BY <1>9 DEF OnChange, AloneOK
    <2>2. pc'[Main] = "running"
      BY <1>0, <1>9 DEF OnChange, Goto
    <2>3. InForce(latest)' /\ Settled'
      BY <1>4, <1>9, <2>1 DEF OnChange, InForce, Settled
    <2> QED BY <1>5, <2>2, <2>3 DEF Progress
  <1> QED BY <1>6, <1>7, <1>8, <1>9

(* What the first fetch finds does not matter before it is read. *)
LEMMA FetchAlone ==
  ASSUME TypeOK, StagesOK, StagesOK', AloneOK, Fetch
  PROVE  AloneOK'
  <1>0. /\ Main \in Stores /\ pc \in [Stores -> StorePC]
        /\ pc[Main] = "fetch" /\ pc' = [pc EXCEPT ![Main] = "getConfig"]
        /\ UNCHANGED <<version, holder, registered, keys, strategy, latest>>
    BY DEF Stores, TypeOK, Fetch, Goto, history
  <1>1. \A p \in Stores : Busy(p)' <=> Busy(p)
    BY <1>0 DEF Busy
  <1>2. Settled' <=> Settled
    BY <1>0 DEF Settled
  <1>3. \A p \in Stores : Progress(p)'
    BY <1>0, <1>2 DEF Progress, AloneOK, Readable
  <1> QED BY <1>0, <1>1, <1>2, <1>3 DEF AloneOK

LEMMA GetConfigAlone ==
  ASSUME TypeOK, StagesOK, StagesOK', ~ mixed => AloneOK, GetConfig, ~ mixed'
  PROVE  AloneOK'
  <1>0. /\ Main \in Stores /\ pc \in [Stores -> StorePC] /\ pc[Main] = "getConfig"
        /\ ~ mixed /\ \A r \in Listeners : ~ Busy(r)
        /\ UNCHANGED <<holder, registered, keys, strategy>>
    BY DEF Stores, TypeOK, GetConfig
  <1>1. \A r \in Stores : ~ Busy(r)
    BY <1>0 DEF Busy, Stores
  <1>2. holder = latest
    BY <1>0, <1>1 DEF AloneOK, Settled
  <1>3. \A r \in Stores : r # Main => ~ Busy(r)'
    BY <1>0, <1>1 DEF GetConfig, Goto, Busy
  <1>4. CASE cached # None /\ Readable(cached)
    <2>1. pc'[Main] = "store" /\ version'[Main] = cached /\ latest' = cached
      BY <1>0, <1>4 DEF GetConfig, Goto, TypeOK
    <2>2. Progress(Main)' /\ Busy(Main)'
      BY <1>4, <2>1 DEF Progress, Readable, Busy
    <2> QED BY <1>0, <1>3, <2>1, <2>2, AloneNext
  <1>5. CASE ~ (cached # None /\ Readable(cached))
    <2>1. pc'[Main] = "load" /\ latest' = latest
      BY <1>0, <1>5 DEF GetConfig, Goto
    <2>2. Progress(Main)' /\ Busy(Main)'
      BY <2>1 DEF Progress, Busy
    <2> QED BY <1>0, <1>2, <1>3, <2>1, <2>2, AloneNext
  <1> QED BY <1>4, <1>5

LEMMA DeliverAlone ==
  ASSUME TypeOK, StagesOK, StagesOK', ~ mixed => AloneOK, ~ mixed',
         NEW p \in Listeners, NEW v \in Versions, Deliver(p, v)
  PROVE  AloneOK'
  <1>0. /\ p \in Stores /\ p # Main /\ Main \in Stores /\ pc \in [Stores -> StorePC]
        /\ version \in [Stores -> Versions \cup {None}]
    BY GatewayAssumption DEF Stores, TypeOK
  <1>1. (\A r \in Stores : ~ Busy(r)) /\ (mixed => Readable(v))
    BY DEF Deliver
  <1>2. pc' = [pc EXCEPT ![p] = "store"] /\ version'[p] = v
    BY <1>0 DEF Deliver, Goto
  <1>3. (\A r \in Stores : r # p => ~ Busy(r)') /\ Busy(p)'
    BY <1>0, <1>1, <1>2 DEF Busy
  <1>4. Progress(p)'
    <2>1. CASE Readable(v)
      BY <1>0, <1>2, <2>1 DEF Progress, Readable, Deliver
    <2>2. CASE ~ Readable(v)
      <3>1. Settled
        BY <1>1, <2>2 DEF AloneOK
      <3>2. Settled'
        BY <1>0, <1>2, <2>2, <3>1 DEF Settled, InForce, Deliver
      <3> QED BY <1>0, <1>2, <2>2, <3>2 DEF Progress, Readable
    <2> QED BY <2>1, <2>2
  <1> QED BY <1>0, <1>3, <1>4, AloneNext

LEMMA ConfigStep == ASSUME ConfigInv, [Next]_vars PROVE ConfigInv'
  <1> USE DEF ConfigInv
  <1>1. CASE MainStep
    <2>1. TypeOK' /\ StagesOK'
      BY <1>1, ConfigTypes, StagesStep
    <2>2. CASE GetConfig
      BY <2>1, <2>2, GetConfigAlone
    <2>3. CASE ~ GetConfig
      <3>1. mixed' = mixed
        BY <1>1, <2>3 DEF MainStep, Fetch, StoreConfig, CopyCallbacks, NewLoad, OnChange, history
      <3> QED BY <1>1, <2>1, <2>3, <3>1, MainAlone, FetchAlone DEF MainStep
    <2> QED BY <2>2, <2>3
  <1>2. ASSUME NEW p \in Listeners, NEW v \in Versions, Deliver(p, v) PROVE ConfigInv'
    BY <1>2, ConfigTypes, StagesStep, DeliverAlone
  <1>3. ASSUME NEW p \in Listeners, ListenerStep(p) PROVE ConfigInv'
    <2>1. TypeOK' /\ StagesOK'
      BY <1>3, ConfigTypes, StagesStep
    <2>2. mixed' = mixed
      BY <1>3 DEF ListenerStep, Drop, StoreConfig, CopyCallbacks, UpdateKeys, UpdateStrategy,
                  history
    <2> QED BY <1>3, <2>1, <2>2, ListenerAlone
  <1>4. ASSUME NEW q \in Requests, RequestStep(q) PROVE ConfigInv'
    <2>1. TypeOK' /\ UNCHANGED <<configVars, mixed, latest>>
      BY <1>4, RequestTypes
    <2> QED BY <2>1 DEF configVars, StagesOK, AloneOK, Settled, Progress, Busy, InForce, Readable
  <1>5. CASE UNCHANGED vars
    BY <1>5 DEF vars, configVars, requestVars, history, TypeOK, StagesOK, AloneOK, Settled,
                Progress, Busy, InForce, Readable
  <1> QED BY <1>1, <1>2, <1>3, <1>4, <1>5 DEF Next

(* The types, and with them where each goroutine may be. *)
THEOREM GatewayConfigTypes == Spec => []TypeOK
  <1>1. ConfigInv => TypeOK
    BY DEF ConfigInv
  <1> QED BY <1>1, ConfigInit, ConfigStep, PTL DEF Spec

(* Once a change has come alone, the idle gateway holds the newest         *)
(* configuration, and its keys and its strategy are those of it.           *)
THEOREM QuietGatewayFollows == Spec => []QuietConfigInForce
  <1>1. ConfigInv => QuietConfigInForce
    <2> SUFFICES ASSUME ConfigInv, Quiet, ~ mixed PROVE InForce(latest)
      BY DEF QuietConfigInForce
    <2>1. \A p \in Stores : ~ Busy(p)
      BY DEF Quiet, Busy, Stores
    <2> QED BY <2>1 DEF ConfigInv, AloneOK, Settled, Quiet
  <1> QED BY <1>1, ConfigInit, ConfigStep, PTL DEF Spec

-----------------------------------------------------------------------------
(* Requests during which the configuration rests.                          *)

(* Every configuration that is held has its sections and a list of keys.   *)
LEMMA Sections ==
  ASSUME NEW v, v = Default \/ (v \in Versions /\ Readable(v))
  PROVE  LET cfg == Config(v)
             items == cfg.jwt.keys
         IN  /\ cfg.ipFilter.enabled => cfg.ipFilter # None
             /\ \E n \in Nat : DOMAIN items = 1 .. n
             /\ \A i \in DOMAIN items : KeyKind[items[i].publicKey] \in {"RS256", "EdDSA", None}
  <1>1. CASE v = Default
    <2>1. Config(v).ipFilter.enabled = FALSE /\ Config(v).jwt.keys = <<>>
      BY <1>1 DEF Config, DefaultConfig, ApplyDynamicDefaults, EmptyConfig
    <2>2. DOMAIN <<>> = 1 .. 0
      OBVIOUS
    <2> QED BY <2>1, <2>2
  <1>2. CASE v # Default
    <2> DEFINE cfg == Parsed[v]
    <2>1. v \in Versions /\ cfg # None /\ DOMAIN cfg = DOMAIN EmptyConfig
      BY <1>2, GatewayAssumption DEF Readable
    <2>2. "ipFilter" \in DOMAIN cfg /\ "jwt" \in DOMAIN cfg
      BY <2>1 DEF EmptyConfig
    <2>3. Config(v) = ApplyDynamicDefaults(cfg)
      BY <1>2 DEF Config
    <2>4. Config(v).ipFilter = cfg.ipFilter /\ Config(v).jwt = cfg.jwt
      BY <2>2, <2>3 DEF ApplyDynamicDefaults
    <2> HIDE DEF cfg
    <2>5. LET items == cfg.jwt.keys
          IN  /\ cfg.ipFilter # None
              /\ Len(items) \in Nat /\ DOMAIN items = 1 .. Len(items)
              /\ \A i \in DOMAIN items : KeyKind[items[i].publicKey] \in {"RS256", "EdDSA", None}
      BY <2>1, SectionsAssumption DEF cfg
    <2> QED BY <2>4, <2>5
  <1> QED BY <1>1, <1>2

(* The key map keyFunc searches has the keys the verdict asks for.         *)
LEMMA TokenJudged ==
  ASSUME NEW v, v = Default \/ (v \in Versions /\ Readable(v)), NEW token, token # None,
         keys = ParsedKeys(Config(v).jwt.keys)
  PROVE  TokenValid(token) <=> SignedBy(v, token)
  <1> DEFINE items == Config(v).jwt.keys
             usable == {i \in DOMAIN items : Usable(items[i])}
             fits(i) == /\ items[i].algorithm # None
                        /\ KeyKind[items[i].publicKey] = items[i].algorithm
             Final(i, kid) == /\ i \in usable /\ items[i].kid = kid
                              /\ \A j \in usable : items[j].kid = kid => j <= i
             last(kid) == CHOOSE i \in usable : /\ items[i].kid = kid
                                                /\ \A j \in usable : items[j].kid = kid => j <= i
  <1>1. PICK n \in Nat : DOMAIN items = 1 .. n
    BY Sections
  <1>2. \A i \in DOMAIN items : Usable(items[i]) <=> fits(i)
    BY Sections, SectionsAssumption DEF Usable
  <1>3. keys = [kid \in {items[i].kid : i \in usable} |-> items[last(kid)]]
    BY DEF ParsedKeys
  <1> HIDE DEF items, fits
  <1>4. ASSUME NEW kid, \E i \in usable : items[i].kid = kid PROVE Final(last(kid), kid)
    <2> DEFINE I == {i \in usable : items[i].kid = kid}
    <2>1. I \in SUBSET (1 .. n) /\ I # {}
      BY <1>1, <1>4
    <2>2. \E i \in I : \A j \in I : j <= i
      <3> DEFINE T == {m \in Nat : n - m \in I}
      <3>1. T \in SUBSET Nat /\ T # {}
        <4>1. PICK i \in I : TRUE
          BY <2>1
        <4>2. i \in 1 .. n /\ n - i \in Nat /\ n - (n - i) = i
          BY <1>1, <2>1, <4>1
        <4> HIDE DEF I
        <4> QED BY <4>1, <4>2
      <3>2. PICK m \in T : \A k \in T : m <= k
        BY <3>1, LeastNumber
      <3>3. n - m \in I /\ m \in Nat
        BY <3>2
      <3>4. ASSUME NEW j \in I PROVE j <= n - m
        <4>1. j \in 1 .. n /\ n - j \in Nat /\ n - (n - j) = j
          BY <1>1, <2>1, <3>4
        <4>2. n - j \in T
          <5> HIDE DEF I
          <5> QED BY <4>1, <3>4
        <4>3. m <= n - j
          BY <3>2, <4>2
        <4> QED BY <4>1, <4>3, <3>3, <1>1
      <3> QED BY <3>3, <3>4
    <2>3. \E i \in usable : /\ items[i].kid = kid
                            /\ \A j \in usable : items[j].kid = kid => j <= i
      BY <2>2
    <2> HIDE DEF usable
    <2> QED BY <2>3
  <1> HIDE DEF last
  <1>5. ASSUME NEW kid, NEW i, NEW j, Final(i, kid), Final(j, kid) PROVE i = j
    <2>1. i \in 1 .. n /\ j \in 1 .. n /\ i <= j /\ j <= i
      BY <1>1, <1>5
    <2> QED BY <1>1, <2>1
  <1>6. SignedBy(v, token) <=> \E i \in DOMAIN items :
            /\ items[i].kid = token.kid /\ fits(i)
            /\ items[i].algorithm = token.alg /\ items[i].publicKey = token.signer
            /\ \A j \in DOMAIN items : j > i /\ items[j].kid = token.kid => ~ fits(j)
    BY DEF SignedBy, items, fits
  <1>7. SignedBy(v, token) <=> \E i \in DOMAIN items :
            /\ Final(i, token.kid)
            /\ items[i].algorithm = token.alg /\ items[i].publicKey = token.signer
    <2>1. ASSUME NEW i \in DOMAIN items
          PROVE  Final(i, token.kid) <=>
                    /\ items[i].kid = token.kid /\ fits(i)
                    /\ \A j \in DOMAIN items : j > i /\ items[j].kid = token.kid => ~ fits(j)
      <3>1. \A j \in DOMAIN items : j <= i <=> ~ (j > i)
        BY <1>1, <2>1
      <3> QED BY <1>2, <2>1, <3>1
    <2> HIDE DEF Final
    <2> QED BY <1>6, <2>1
  <1>8. TokenValid(token) <=>
            /\ \E i \in usable : items[i].kid = token.kid
            /\ items[last(token.kid)].algorithm = token.alg
            /\ items[last(token.kid)].publicKey = token.signer
    <2> HIDE DEF usable
    <2>1. /\ DOMAIN keys = {items[i].kid : i \in usable}
          /\ \A kid \in DOMAIN keys : keys[kid] = items[last(kid)]
      BY <1>3
    <2> QED BY <2>1 DEF TokenValid
  <1>9. CASE \E i \in usable : items[i].kid = token.kid
    <2>1. Final(last(token.kid), token.kid) /\ last(token.kid) \in DOMAIN items
      BY <1>4, <1>9
    <2>2. \A i : Final(i, token.kid) => i = last(token.kid)
      BY <1>5, <2>1
    <2> HIDE DEF Final, usable
    <2> QED BY <1>7, <1>8, <1>9, <2>1, <2>2
  <1>10. CASE ~ \E i \in usable : items[i].kid = token.kid
    <2>1. \A i : ~ Final(i, token.kid)
      BY <1>10
    <2> HIDE DEF Final, usable
    <2> QED BY <1>7, <1>8, <1>10, <2>1
  <1> QED BY <1>9, <1>10

-----------------------------------------------------------------------------
(* Requests during which the configuration rests.                          *)

Section(q) == Config(loaded[q]).ipFilter

(* IPFilter's cache while requests take turns at it: the entries are those *)
(* of the section beside them, and whoever matches has found its own.      *)
FilterOK ==
    /\ ~ FilterRace
    /\ \A q \in Requests : rpc[q] = "match" =>
          cachedCfg = Section(q) /\ cachedEntries = ParseIPEntries(Section(q).addresses)
    /\ \A q \in Requests : rpc[q] = "keep" => cachedEntries = ParseIPEntries(Section(q).addresses)
    /\ (\A q \in Requests : rpc[q] # "keep") =>
          cachedCfg = None \/ cachedEntries = ParseIPEntries(cachedCfg.addresses)

(* A request is in the filter only if its configuration enables it. *)
LoadedOK ==
    /\ holder = Default \/ (holder \in Versions /\ Readable(holder))
    /\ \A q \in Requests : rpc[q] \in {"compare", "refresh", "keep", "match"} =>
          Section(q).enabled /\ Section(q) # None

(* The filter's part of Verdict, and the part of JWT. *)
Refuses(v, c) ==
    LET filter == Config(v).ipFilter
        listed == \E a \in filter.addresses : Covers[a] # None /\ c.ip \in Covers[a]
    IN  /\ filter.enabled /\ c.ip # None
        /\ \/ filter.mode = "whitelist" /\ ~ listed
           \/ filter.mode = "blacklist" /\ listed

WantsToken(v, c) == Config(v).jwt.enabled /\ c.path \notin Config(v).jwt.skipPaths

LEMMA VerdictParts ==
  ASSUME NEW v, NEW c
  PROVE  Verdict(v, c) = IF Refuses(v, c) THEN "blocked"
                         ELSE IF WantsToken(v, c) /\ (c.token = None \/ ~ SignedBy(v, c.token))
                         THEN "unauthorized" ELSE "passed"
  BY DEF Verdict, Refuses, WantsToken

(* What the steps behind a calm request have established. *)
JudgedOK(q) ==
    /\ rpc[q] # "idle" /\ loaded[q] = latest
    /\ ~ raced =>
          /\ rpc[q] \in {"jwt", "verify"} => ~ Refuses(latest, caller[q])
          /\ rpc[q] = "verify" => WantsToken(latest, caller[q]) /\ caller[q].token # None
          /\ Decided(q) => rpc[q] = Verdict(latest, caller[q])

CalmInv ==
    /\ LoadedOK
    /\ ~ raced => FilterOK
    /\ calm # {} => Quiet /\ ~ mixed
    /\ \A q \in calm : JudgedOK(q)

LEMMA CalmInit == Init => CalmInv
  BY DEF Init, CalmInv, LoadedOK, FilterOK, FilterRace

(* A quiet gateway has the newest configuration in force. *)
LEMMA CalmInForce ==
  ASSUME ConfigInv, Quiet, ~ mixed
  PROVE  InForce(latest)
  <1>1. \A p \in Stores : ~ Busy(p)
    BY DEF Quiet, Busy, Stores
  <1> QED BY <1>1 DEF ConfigInv, AloneOK, Settled, Quiet

(* A request comes to the filter's cache or leaves it. *)
LEMMA FilterIdle ==
  ASSUME FilterOK, ~ FilterRace', UNCHANGED <<cachedCfg, cachedEntries>>,
         \A r \in Requests : rpc'[r] \in {"keep", "match"} => rpc'[r] = rpc[r] /\ loaded'[r] = loaded[r],
         \A r \in Requests : rpc[r] = "keep" => rpc'[r] = "keep"
  PROVE  FilterOK'
  <1>1. ASSUME NEW r \in Requests, loaded'[r] = loaded[r] PROVE Section(r)' = Section(r)
    BY <1>1 DEF Section
  <1>2. \A r \in Requests : rpc'[r] \in {"keep", "match"} => rpc'[r] = rpc[r] /\ Section(r)' = Section(r)
    BY <1>1
  <1> QED BY <1>2 DEF FilterOK, ParseIPEntries

(* At most one request is at the cache after the step. *)
LEMMA FilterAlone ==
  ASSUME ~ FilterRace', NEW q \in Requests,
         \A r \in Requests : rpc'[r] \in {"keep", "match"} => r = q,
         rpc'[q] \in {"keep", "match"},
         cachedEntries' = ParseIPEntries(Section(q)'.addresses),
         rpc'[q] = "match" => cachedCfg' = Section(q)'
  PROVE  FilterOK'
  <1>1. ASSUME NEW r \in Requests, rpc'[r] \in {"keep", "match"}
        PROVE  /\ cachedEntries' = ParseIPEntries(Section(r)'.addresses)
               /\ rpc'[r] = "match" => cachedCfg' = Section(r)'
    BY <1>1
  <1>2. (\A r \in Requests : rpc'[r] # "keep") =>
           cachedEntries' = ParseIPEntries(cachedCfg'.addresses)
    <2> SUFFICES ASSUME rpc'[q] # "keep" PROVE cachedEntries' = ParseIPEntries(cachedCfg'.addresses)
      OBVIOUS
    <2>1. cachedCfg' = Section(q)'
      OBVIOUS
    <2> QED BY <2>1
  <1> QED BY <1>1, <1>2 DEF FilterOK, ParseIPEntries

LEMMA FilterStep ==
  ASSUME TypeOK, LoadedOK, ~ raced => FilterOK, NEW q \in Requests, RequestStep(q), ~ raced'
  PROVE  FilterOK /\ FilterOK'
  <1>0. rpc \in [Requests -> RequestPC] /\ loaded \in [Requests -> Versions \cup {Default, None}]
    BY DEF TypeOK
  <1>1. FilterOK /\ ~ FilterRace'
    BY DEF RequestStep, Arrive, FilterCompare, FilterRefresh, FilterKeep, FilterMatch, JWTLoad,
           JWTVerify, Leave, RequestGoto
  <1>2. ASSUME NEW next, rpc' = [rpc EXCEPT ![q] = next], next \notin {"keep", "match"},
               rpc[q] # "keep", UNCHANGED <<cachedCfg, cachedEntries>>,
               \A r \in Requests : r # q => loaded'[r] = loaded[r]
        PROVE  FilterOK'
    <2>1. \A r \in Requests : rpc'[r] = IF r = q THEN next ELSE rpc[r]
      BY <1>0, <1>2
    <2> QED BY <1>1, <1>2, <2>1, FilterIdle
  <1>3. CASE Arrive(q) \/ Leave(q)
    <2>1. \A r \in Requests : r # q => loaded'[r] = loaded[r]
      BY <1>0, <1>3 DEF Arrive, Leave
    <2>2. \E next \in {"compare", "jwt", "idle"} : rpc' = [rpc EXCEPT ![q] = next]
      BY <1>3 DEF Arrive, Leave, RequestGoto
    <2>3. rpc[q] # "keep" /\ UNCHANGED <<cachedCfg, cachedEntries>>
      BY <1>3 DEF Arrive, Leave, Decided
    <2> QED BY <1>1, <1>2, <2>1, <2>2, <2>3
  <1>4. CASE FilterMatch(q) \/ JWTLoad(q) \/ JWTVerify(q)
    <2>1. UNCHANGED <<cachedCfg, cachedEntries, loaded>> /\ rpc[q] # "keep"
      BY <1>4 DEF FilterMatch, JWTLoad, JWTVerify
    <2>2. \E next \in {"blocked", "jwt", "passed", "unauthorized", "verify"} :
             rpc' = [rpc EXCEPT ![q] = next]
      BY <1>4 DEF FilterMatch, JWTLoad, JWTVerify, RequestGoto
    <2> QED BY <1>1, <1>2, <2>1, <2>2
  <1>5. CASE FilterCompare(q)
    <2>1. UNCHANGED <<cachedCfg, cachedEntries, loaded>> /\ rpc[q] = "compare"
      BY <1>5 DEF FilterCompare
    <2>2. CASE cachedCfg = Section(q)
      <3>1. rpc' = [rpc EXCEPT ![q] = "match"]
        BY <1>5, <2>2 DEF FilterCompare, RequestGoto, Section
      <3>2. \A r \in Requests : rpc'[r] = IF r = q THEN "match" ELSE rpc[r]
        BY <1>0, <3>1
      <3>3. \A r \in Requests : rpc[r] # "keep" /\ rpc'[r] # "keep"
        BY <1>1, <2>1, <3>2 DEF FilterRace
      <3>4. cachedEntries = ParseIPEntries(Section(q).addresses)
        BY <1>1, <2>1, <2>2, <3>3 DEF FilterOK, LoadedOK
      <3>5. \A r \in Requests : Section(r)' = Section(r)
        BY <2>1 DEF Section
      <3>6. ASSUME NEW r \in Requests, rpc'[r] = "match"
            PROVE  cachedCfg' = Section(r)' /\ cachedEntries' = ParseIPEntries(Section(r)'.addresses)
        <4>1. cachedCfg = Section(r) /\ cachedEntries = ParseIPEntries(Section(r).addresses)
          BY <1>1, <2>2, <3>2, <3>4, <3>6 DEF FilterOK
        <4> QED BY <2>1, <3>5, <4>1
      <3>7. cachedEntries' = ParseIPEntries(cachedCfg'.addresses)
        BY <2>1, <2>2, <3>4
      <3>8. FilterOK'
        BY <1>1, <3>3, <3>6, <3>7 DEF FilterOK, ParseIPEntries
      <3> QED BY <1>1, <3>8
    <2>3. CASE cachedCfg # Section(q)
      <3>1. \E next \in {"refresh"} : rpc' = [rpc EXCEPT ![q] = next]
        BY <1>5, <2>3 DEF FilterCompare, RequestGoto, Section
      <3>2. /\ rpc[q] # "keep" /\ UNCHANGED <<cachedCfg, cachedEntries>>
            /\ \A r \in Requests : r # q => loaded'[r] = loaded[r]
        BY <2>1
      <3>3. FilterOK'
        BY <1>2, <3>1, <3>2
      <3> QED BY <1>1, <3>3
    <2> QED BY <2>2, <2>3
  <1>6. CASE FilterRefresh(q)
    <2>1. /\ UNCHANGED <<cachedCfg, loaded>> /\ rpc[q] = "refresh"
          /\ cachedEntries' = ParseIPEntries(Section(q).addresses)
          /\ rpc' = [rpc EXCEPT ![q] = "keep"]
      BY <1>6 DEF FilterRefresh, RequestGoto, Section
    <2>2. \A r \in Requests : rpc'[r] = IF r = q THEN "keep" ELSE rpc[r]
      BY <1>0, <2>1
    <2>3. \A r \in Requests : rpc'[r] \in {"keep", "match"} => r = q
      BY <1>1, <2>1, <2>2 DEF FilterRace, FilterOK
    <2>4. Section(q)' = Section(q)
      BY <2>1 DEF Section
    <2>5. rpc'[q] = "keep" /\ cachedEntries' = ParseIPEntries(Section(q)'.addresses)
      BY <2>1, <2>2, <2>4
    <2>6. FilterOK'
      BY <1>1, <2>3, <2>5, FilterAlone
    <2> QED BY <1>1, <2>6
  <1>7. CASE FilterKeep(q)
    <2>1. /\ UNCHANGED <<cachedEntries, loaded>> /\ rpc[q] = "keep"
          /\ cachedCfg' = Section(q)
          /\ rpc' = [rpc EXCEPT ![q] = "match"]
      BY <1>7 DEF FilterKeep, RequestGoto, Section
    <2>2. \A r \in Requests : rpc'[r] = IF r = q THEN "match" ELSE rpc[r]
      BY <1>0, <2>1
    <2>3. \A r \in Requests : rpc'[r] \in {"keep", "match"} => r = q
      BY <1>1, <2>1, <2>2 DEF FilterRace, FilterOK
    <2>4. Section(q)' = Section(q) /\ cachedEntries = ParseIPEntries(Section(q).addresses)
      BY <1>1, <2>1 DEF Section, FilterOK
    <2>5. /\ rpc'[q] = "match" /\ cachedCfg' = Section(q)'
          /\ cachedEntries' = ParseIPEntries(Section(q)'.addresses)
      BY <2>1, <2>2, <2>4
    <2>6. FilterOK'
      BY <1>1, <2>3, <2>5, FilterAlone
    <2> QED BY <1>1, <2>6
  <1> QED BY <1>1, <1>3, <1>4, <1>5, <1>6, <1>7 DEF RequestStep

(* What the filter decides of a request, when it is alone with the cache.  *)
LEMMA MatchJudged ==
  ASSUME FilterOK, LoadedOK, NEW q \in Requests, FilterMatch(q)
  PROVE  rpc' = [rpc EXCEPT ![q] = IF Refuses(loaded[q], caller[q]) THEN "blocked" ELSE "jwt"]
  <1> DEFINE filter == Section(q)
             c == caller[q]
             listed == \E a \in filter.addresses : Covers[a] # None /\ c.ip \in Covers[a]
             refused(m) == \/ filter.mode = "whitelist" /\ ~ m
                           \/ filter.mode = "blacklist" /\ m
  <1>1. rpc[q] = "match" /\ ~ FilterRace /\ cachedEntries = ParseIPEntries(filter.addresses)
    BY DEF FilterMatch, FilterOK
  <1>2. filter.enabled
    BY <1>1 DEF LoadedOK
  <1>3. MatchIP(c.ip, cachedEntries) <=> listed
    BY <1>1 DEF MatchIP, ParseIPEntries
  <1>4. PICK matched \in {MatchIP(c.ip, cachedEntries)} :
           rpc' = [rpc EXCEPT ![q] = IF c.ip # None /\ refused(matched) THEN "blocked" ELSE "jwt"]
    BY <1>1 DEF FilterMatch, RequestGoto, Section
  <1>5. Refuses(loaded[q], c) <=> filter.enabled /\ c.ip # None /\ refused(listed)
    BY DEF Refuses, Section
  <1>6. refused(matched) <=> refused(listed)
    BY <1>3, <1>4
  <1>7. (c.ip # None /\ refused(matched)) <=> Refuses(loaded[q], c)
    BY <1>2, <1>5, <1>6
  <1> HIDE DEF refused, filter, c
  <1> QED BY <1>4, <1>7 DEF c

LEMMA JudgedStep ==
  ASSUME ConfigInv, CalmInv, NEW q \in Requests, RequestStep(q), q \in calm'
  PROVE  JudgedOK(q)'
  <1>0. /\ rpc \in [Requests -> RequestPC] /\ loaded \in [Requests -> Versions \cup {Default, None}]
        /\ caller \in [Requests -> Callers \cup {None}]
    BY DEF ConfigInv, TypeOK
  <1>1. latest' = latest
    BY DEF RequestStep, Arrive, FilterCompare, FilterRefresh, FilterKeep, FilterMatch, JWTLoad,
           JWTVerify, Leave
  <1>2. CASE Arrive(q)
    <2>1. q \notin calm
      BY <1>2 DEF Arrive, CalmInv, JudgedOK
    <2>2. Quiet /\ ~ mixed
      BY <1>2, <2>1 DEF Arrive
    <2>3. holder = latest
      BY <2>2, CalmInForce DEF InForce
    <2>4. loaded'[q] = holder /\ rpc'[q] = IF Config(holder).ipFilter.enabled THEN "compare" ELSE "jwt"
      BY <1>0, <1>2 DEF Arrive, RequestGoto
    <2>5. rpc'[q] = "jwt" => ~ Refuses(latest, caller[q]')
      BY <2>3, <2>4 DEF Refuses
    <2> QED BY <1>1, <2>3, <2>4, <2>5 DEF JudgedOK, Decided
  <1>3. CASE Leave(q)
    BY <1>3 DEF Leave
  <1>4. CASE ~ (Arrive(q) \/ Leave(q))
    <2>1. /\ UNCHANGED <<loaded, caller, calm>> /\ q \in calm /\ JudgedOK(q) /\ InForce(latest)
      <3>1. UNCHANGED <<loaded, caller, calm>>
        BY <1>4 DEF RequestStep, FilterCompare, FilterRefresh, FilterKeep, FilterMatch, JWTLoad,
                    JWTVerify
      <3> QED BY <3>1, CalmInForce DEF CalmInv
    <2>2. ~ raced' => ~ raced /\ FilterOK
      <3>1. ~ raced' => ~ raced
        BY <1>4 DEF RequestStep, FilterCompare, FilterRefresh, FilterKeep, FilterMatch, JWTLoad,
                    JWTVerify, RequestGoto
      <3> QED BY <3>1 DEF CalmInv
    <2> DEFINE c == caller[q]
    <2>3. holder = latest /\ loaded[q] = latest /\ caller'[q] = c
      BY <2>1 DEF JudgedOK, InForce
    <2>4. Verdict(latest, c) = IF Refuses(latest, c) THEN "blocked"
                               ELSE IF WantsToken(latest, c)
                                       /\ (c.token = None \/ ~ SignedBy(latest, c.token))
                               THEN "unauthorized" ELSE "passed"
      BY VerdictParts
    <2> HIDE DEF c
    <2>5. ASSUME NEW next, rpc' = [rpc EXCEPT ![q] = next], next # "idle",
                 ~ raced' => /\ next \in {"jwt", "verify"} => ~ Refuses(latest, c)
                             /\ next = "verify" => WantsToken(latest, c) /\ c.token # None
                             /\ next \in {"passed", "blocked", "unauthorized"} =>
                                   next = Verdict(latest, c)
          PROVE  JudgedOK(q)'
      <3>1. rpc'[q] = next
        BY <1>0, <2>5
      <3> QED BY <1>1, <2>1, <2>3, <2>5, <3>1 DEF JudgedOK, Decided
    <2>6. CASE FilterCompare(q) \/ FilterRefresh(q) \/ FilterKeep(q)
      <3>1. \E next \in {"match", "refresh", "keep"} : rpc' = [rpc EXCEPT ![q] = next]
        BY <2>6 DEF FilterCompare, FilterRefresh, FilterKeep, RequestGoto
      <3> QED BY <2>5, <3>1
    <2>7. CASE FilterMatch(q)
      <3>1. CASE raced'
        <4>1. \E next \in {"blocked", "jwt"} : rpc' = [rpc EXCEPT ![q] = next]
          BY <2>7 DEF FilterMatch, RequestGoto
        <4> QED BY <2>5, <3>1, <4>1
      <3>2. CASE ~ raced'
        <4>1. rpc' = [rpc EXCEPT ![q] = IF Refuses(latest, c) THEN "blocked" ELSE "jwt"]
          BY <2>2, <2>3, <2>7, <3>2, MatchJudged DEF CalmInv, c
        <4> QED BY <2>4, <2>5, <4>1
      <3> QED BY <3>1, <3>2
    <2>8. CASE JWTLoad(q)
      <3>1. rpc[q] = "jwt" /\ (~ raced' => ~ Refuses(latest, c))
        BY <2>1, <2>2, <2>8 DEF JWTLoad, JudgedOK, c
      <3>2. rpc' = [rpc EXCEPT ![q] = IF ~ WantsToken(latest, c) THEN "passed"
                                      ELSE IF c.token = None THEN "unauthorized" ELSE "verify"]
        BY <2>3, <2>8 DEF JWTLoad, RequestGoto, WantsToken, c
      <3> QED BY <2>4, <2>5, <3>1, <3>2
    <2>9. CASE JWTVerify(q)
      <3>1. /\ rpc[q] = "verify"
            /\ ~ raced' => /\ ~ Refuses(latest, c)
                            /\ WantsToken(latest, c) /\ c.token # None
        BY <2>1, <2>2, <2>9 DEF JWTVerify, JudgedOK, c
      <3>2. ~ raced' => (TokenValid(c.token) <=> SignedBy(latest, c.token))
        BY <2>1, <2>3, <3>1, TokenJudged DEF InForce, CalmInv, LoadedOK
      <3>3. rpc' = [rpc EXCEPT ![q] = IF TokenValid(c.token) THEN "passed" ELSE "unauthorized"]
        BY <2>9 DEF JWTVerify, RequestGoto, c
      <3> QED BY <2>4, <2>5, <3>1, <3>2, <3>3
    <2> QED BY <1>4, <2>6, <2>7, <2>8, <2>9 DEF RequestStep
  <1> QED BY <1>2, <1>3, <1>4

(* The other requests are where they were. *)
LEMMA OthersJudged ==
  ASSUME ConfigInv, CalmInv, NEW q \in Requests, RequestStep(q), NEW r \in calm', r # q
  PROVE  JudgedOK(r)'
  <1>0. /\ rpc \in [Requests -> RequestPC] /\ loaded \in [Requests -> Versions \cup {Default, None}]
        /\ caller \in [Requests -> Callers \cup {None}]
    BY DEF ConfigInv, TypeOK
  <1>1. latest' = latest /\ r \in calm /\ (~ raced' => ~ raced)
    BY DEF RequestStep, Arrive, FilterCompare, FilterRefresh, FilterKeep, FilterMatch, JWTLoad,
           JWTVerify, Leave, RequestGoto
  <1>2. \E next : rpc' = [rpc EXCEPT ![q] = next]
    BY DEF RequestStep, Arrive, FilterCompare, FilterRefresh, FilterKeep, FilterMatch, JWTLoad,
           JWTVerify, Leave, RequestGoto
  <1>3. /\ loaded' = loaded \/ \E v : loaded' = [loaded EXCEPT ![q] = v]
        /\ caller' = caller \/ \E c : caller' = [caller EXCEPT ![q] = c]
    BY DEF RequestStep, Arrive, FilterCompare, FilterRefresh, FilterKeep, FilterMatch, JWTLoad,
           JWTVerify, Leave
  <1>4. rpc'[r] = rpc[r] /\ loaded'[r] = loaded[r] /\ caller'[r] = caller[r]
    <2>1. r \in Requests
      BY <1>1 DEF ConfigInv, TypeOK
    <2> QED BY <1>0, <1>2, <1>3, <2>1
  <1> QED BY <1>1, <1>4 DEF CalmInv, JudgedOK, Decided

LEMMA CalmRequestStep ==
  ASSUME ConfigInv, CalmInv, NEW q \in Requests, RequestStep(q)
  PROVE  CalmInv'
  <1>0. /\ rpc \in [Requests -> RequestPC] /\ loaded \in [Requests -> Versions \cup {Default, None}]
        /\ TypeOK
    BY DEF ConfigInv, TypeOK
  <1>1. UNCHANGED <<configVars, mixed, latest>>
    BY <1>0, RequestTypes
  <1>2. LoadedOK'
    <2>1. (holder = Default \/ (holder \in Versions /\ Readable(holder)))'
      BY <1>1 DEF CalmInv, LoadedOK, configVars, Readable
    <2>2. ASSUME NEW r \in Requests, rpc'[r] \in {"compare", "refresh", "keep", "match"}
          PROVE  Config(loaded'[r]).ipFilter.enabled /\ Config(loaded'[r]).ipFilter # None
      <3>1. CASE Arrive(q) /\ r = q
        <4>1. loaded'[q] = holder /\ Config(holder).ipFilter.enabled
          BY <1>0, <2>2, <3>1 DEF Arrive, RequestGoto
        <4>2. Config(holder).ipFilter # None
          BY <4>1, Sections DEF CalmInv, LoadedOK
        <4> QED BY <3>1, <4>1, <4>2
      <3>2. CASE ~ (Arrive(q) /\ r = q)
        <4>1. rpc[r] \in {"compare", "refresh", "keep", "match"} /\ loaded'[r] = loaded[r]
          BY <1>0, <2>2, <3>2 DEF RequestStep, Arrive, FilterCompare, FilterRefresh, FilterKeep,
             FilterMatch, JWTLoad, JWTVerify, Leave, RequestGoto
        <4> QED BY <4>1 DEF CalmInv, LoadedOK, Section
      <3> QED BY <3>1, <3>2
    <2> QED BY <2>1, <2>2 DEF LoadedOK, Section
  <1>3. ~ raced' => FilterOK'
    BY <1>0, FilterStep DEF CalmInv
  <1>4. calm' # {} => (Quiet /\ ~ mixed)'
    <2>1. calm # {} \/ (Quiet /\ ~ mixed) \/ calm' = {}
      BY DEF RequestStep, Arrive, FilterCompare, FilterRefresh, FilterKeep, FilterMatch, JWTLoad,
             JWTVerify, Leave
    <2> QED BY <1>1, <2>1 DEF CalmInv, Quiet, configVars
  <1>5. \A r \in calm' : JudgedOK(r)'
    BY JudgedStep, OthersJudged
  <1> QED BY <1>2, <1>3, <1>4, <1>5 DEF CalmInv

(* A change ends the calm, and reaches no request in the filter. *)
LEMMA CalmConfigStep ==
  ASSUME ConfigInv, CalmInv,
         \/ MainStep
         \/ \E p \in Listeners, v \in Versions : Deliver(p, v)
         \/ \E p \in Listeners : ListenerStep(p)
  PROVE  CalmInv'
  <1> USE DEF requestVars, history
  <1>1. UNCHANGED <<requestVars, raced>>
    BY DEF MainStep, Fetch, GetConfig, StoreConfig, CopyCallbacks, NewLoad, OnChange, Deliver,
           ListenerStep, Drop, UpdateKeys, UpdateStrategy
  <1>2. calm' = {}
    <2>1. CASE \E p \in Listeners, v \in Versions : Deliver(p, v)
      BY <2>1 DEF Deliver
    <2>2. CASE MainStep
      <3>1. calm' = calm /\ pc[Main] # "running"
        BY <2>2 DEF MainStep, Fetch, GetConfig, StoreConfig, CopyCallbacks, NewLoad, OnChange
      <3> QED BY <3>1 DEF CalmInv, Quiet
    <2>3. CASE \E p \in Listeners : ListenerStep(p)
      <3>1. calm' = calm /\ \E p \in Listeners : pc[p] # "free"
        BY <2>3 DEF ListenerStep, Drop, StoreConfig, CopyCallbacks, UpdateKeys, UpdateStrategy
      <3> QED BY <3>1 DEF CalmInv, Quiet
    <2> QED BY <2>1, <2>2, <2>3
  <1>3. holder' = Default \/ (holder' \in Versions /\ Readable(holder'))
    <2>1. ASSUME NEW p \in Stores, StoreConfig(p)
          PROVE  holder' \in Versions /\ Readable(holder')
      <3>1. version[p] \in Versions
        BY <2>1 DEF StoreConfig, ConfigInv, StagesOK
      <3> QED BY <2>1, <3>1 DEF StoreConfig
    <2>2. (\E p \in Stores : StoreConfig(p)) \/ holder' = holder
      BY DEF MainStep, Fetch, GetConfig, CopyCallbacks, NewLoad, OnChange, Deliver,
             ListenerStep, Drop, UpdateKeys, UpdateStrategy, Stores
    <2> QED BY <2>1, <2>2 DEF CalmInv, LoadedOK
  <1>4. LoadedOK'
    BY <1>1, <1>3 DEF CalmInv, LoadedOK, Section, Readable
  <1>5. ~ raced' => FilterOK'
    <2>1. FilterRace' <=> FilterRace
      BY <1>1 DEF FilterRace
    <2> QED BY <1>1, <2>1, FilterIdle DEF CalmInv, FilterOK
  <1> QED BY <1>2, <1>4, <1>5 DEF CalmInv

LEMMA CalmStep == ASSUME ConfigInv, CalmInv, [Next]_vars PROVE CalmInv'
  <1>1. CASE UNCHANGED vars
    <2>1. (LoadedOK' <=> LoadedOK) /\ (FilterOK' <=> FilterOK) /\ (Quiet' <=> Quiet)
      BY <1>1 DEF vars, configVars, requestVars, history, LoadedOK, FilterOK, FilterRace, Quiet,
                  Section, Readable, ParseIPEntries
    <2>2. \A q : JudgedOK(q)' <=> JudgedOK(q)
      BY <1>1 DEF vars, requestVars, history, JudgedOK, Decided
    <2> QED BY <1>1, <2>1, <2>2 DEF CalmInv, vars, history
  <1> QED BY <1>1, CalmRequestStep, CalmConfigStep DEF Next

(* No retired key, no missing key and no address list of an earlier        *)
(* configuration decides about a request during which the configuration    *)
(* rested: all the caches it meets are those of the newest configuration.  *)
THEOREM CalmRequestsAreJudged == Spec => []CalmRequestsJudged
  <1>1. CalmInv => CalmRequestsJudged
    BY DEF CalmInv, JudgedOK, CalmRequestsJudged
  <1>2. ConfigInv /\ CalmInv /\ [Next]_vars => CalmInv'
    BY CalmStep
  <1> QED BY <1>1, <1>2, ConfigInit, ConfigStep, CalmInit, PTL DEF Spec
=============================================================================
