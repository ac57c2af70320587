------------------------- MODULE RequestPathProofs -------------------------
(***************************************************************************)
(* Proofs about RequestPath, for any number of requests, gRPC instances,   *)
(* configurations and seconds.                                             *)
(***************************************************************************)
EXTENDS RequestPath, FoldLemmas, TLAPS

(* What the limiter and the window add up to is a number. *)
LEMMA ProductType == ASSUME NEW m \in Nat, NEW n \in Nat PROVE m * n \in Nat
  OBVIOUS

LEMMA RefillType ==
  ASSUME TypeOK, NEW rate \in Nat, NEW burst \in Nat
  PROVE  LET tokens == bucket.tokens + (now - bucket.lastTime) * rate
         IN  Capped(tokens, burst) \in Nat /\ Capped(tokens, burst) <= burst
  <1>1. now - bucket.lastTime \in Nat /\ bucket.tokens \in Nat
    BY PathAssumption DEF TypeOK, Seconds
  <1>2. (now - bucket.lastTime) * rate \in Nat
    BY <1>1, ProductType
  <1>3. bucket.tokens + (now - bucket.lastTime) * rate \in Nat
    BY <1>1, <1>2
  <1> HIDE DEF TypeOK
  <1> QED BY <1>3 DEF Capped

(* A limit a request has loaded has numbers for rate and burst. *)
LEMMA LimitType ==
  ASSUME TypeOK, NEW q \in Requests
  PROVE  limit[q].rate \in Nat /\ limit[q].burst \in Nat
  BY PathAssumption DEF TypeOK, NoLimit

(* A circuit with consistent counters. *)
CircuitRecord ==
    [state : {"closed", "open", "halfOpen"}, failures : Nat, total : Nat,
     openedAt : 0..now, windowStart : 0..now \cup {None}]

CircuitOK(c) == c \in CircuitRecord /\ c.failures <= c.total

LEMMA CircuitTypes ==
  ASSUME TypeOK
  PROVE  /\ CircuitOK(circuit) /\ CircuitOK(GetCircuit) /\ CircuitOK(Window)
         /\ \A state \in {"closed", "open", "halfOpen"} : CircuitOK(Fresh(state))
         /\ GetCircuit.state = circuit.state /\ Window.state = circuit.state
  <1>0. now \in 0..now /\ CircuitOK(circuit)
    BY PathAssumption DEF Seconds, TypeOK, CircuitOK, CircuitRecord
  <1> USE DEF CircuitOK, CircuitRecord
  <1>1. ASSUME NEW state \in {"closed", "open", "halfOpen"}
        PROVE  CircuitOK(Fresh(state)) /\ Fresh(state).state = state
    BY <1>0, <1>1 DEF Fresh
  <1>2. CircuitOK(GetCircuit) /\ GetCircuit.state = circuit.state
    <2>1. CircuitOK([circuit EXCEPT !.windowStart = now])
      BY <1>0
    <2> QED BY <1>0, <2>1 DEF GetCircuit
  <1>3. CircuitOK(Window) /\ Window.state = circuit.state
    <2>1. Window \in {GetCircuit, Fresh(circuit.state)}
      BY DEF Window
    <2>2. circuit.state \in {"closed", "open", "halfOpen"}
      BY <1>0
    <2> QED BY <1>1, <1>2, <2>1, <2>2
  <1> QED BY <1>0, <1>1, <1>2, <1>3

LEMMA TypeInit == Init => TypeOK
  <1> SUFFICES ASSUME Init PROVE TypeOK
    OBVIOUS
  <1>1. bucket \in [tokens : Nat, rate : Nat, capacity : Nat, lastTime : 0..now]
    BY PathAssumption DEF Init
  <1> QED BY <1>1, PathAssumption DEF Init, TypeOK, Seconds, RequestPC, NoLimit

(* The steps before the proxy. *)
LEMMA TypeBefore ==
  ASSUME TypeOK, NEW q \in Requests, Arrive(q) \/ Limit(q) \/ CheckEnabled(q) \/ Allow(q)
  PROVE  TypeOK'
  <1> USE DEF TypeOK, RequestPC, Goto, grpcVars, breakerHistory, envVars
  <1>0. NoLimit \in {NoLimit} \cup {cfg.rateLimit : cfg \in Configs}
    OBVIOUS
  <1>1. CASE Arrive(q)
    <2>1. arrivals' \in 0..MaxArrivals
      BY <1>1, PathAssumption DEF Arrive
    <2>2. limit' \in [Requests -> {NoLimit} \cup {cfg.rateLimit : cfg \in Configs}]
      BY <1>1 DEF Arrive
    <2> QED BY <1>1, <2>1, <2>2 DEF Arrive
  <1>2. CASE Limit(q)
    <2>1. limit[q].rate \in Nat /\ limit[q].burst \in Nat
      BY LimitType
    <2>2. Refill(limit[q]) \in Nat
      BY <2>1, RefillType DEF Refill
    <2>3. bucket' \in [tokens : Nat, rate : Nat, capacity : Nat, lastTime : 0..now']
      <3> DEFINE passes == IF Passes(limit[q]) THEN 1 ELSE 0
      <3>1. Refill(limit[q]) - passes \in Nat
        BY <2>2 DEF Passes
      <3>2. now' = now /\ now \in 0..now
        BY <1>2, PathAssumption DEF Limit, Seconds
      <3>3. bucket' = [tokens |-> Refill(limit[q]) - passes, rate |-> limit[q].rate,
                       capacity |-> limit[q].burst, lastTime |-> now]
        BY <1>2 DEF Limit
      <3> QED BY <3>1, <3>2, <3>3, <2>1
    <2>4. spell' \in [since : 0..now', passed : Nat]
      <3> DEFINE passes == IF Passes(limit[q]) THEN 1 ELSE 0
      <3>1. now \in Nat /\ now' = now /\ now \in 0..now /\ passes \in Nat
        BY <1>2, PathAssumption DEF Limit, Seconds
      <3>2. spell.passed + passes \in Nat /\ spell.since \in 0..now
        BY <3>1
      <3>3. spell' = [spell EXCEPT !.passed = @ + passes] \/ spell' = [since |-> now, passed |-> passes]
        BY <1>2 DEF Limit
      <3> QED BY <3>1, <3>2, <3>3
    <2>5. limit' \in [Requests -> {NoLimit} \cup {cfg.rateLimit : cfg \in Configs}]
      BY <1>2, <1>0 DEF Limit
    <2>6. /\ now' = now /\ config' = config /\ arrivals' = arrivals /\ changes' = changes
          /\ conns' = conns /\ connLock' = connLock /\ described' = described
          /\ address' = address /\ failed' = failed /\ failures' = failures
          /\ stragglers' = stragglers /\ extended' = extended /\ circuit' = circuit
      BY <1>2 DEF Limit
    <2>7. rpc[q] = "limit" /\ \E pc \in {"enabled", "idle"} : rpc' = [rpc EXCEPT ![q] = pc]
      BY <1>2 DEF Limit
    <2> HIDE DEF Goto
    <2> QED BY <2>3, <2>4, <2>5, <2>6, <2>7
  <1>3. CASE CheckEnabled(q)
    BY <1>3 DEF CheckEnabled
  <1>4. CASE Allow(q)
    <2>1. CircuitOK(circuit') /\ now' = now
      BY <1>4, CircuitTypes DEF Allow
    <2>2. /\ now' = now /\ config' = config /\ arrivals' = arrivals /\ changes' = changes
          /\ conns' = conns /\ connLock' = connLock /\ described' = described
          /\ address' = address /\ failed' = failed /\ failures' = failures
          /\ stragglers' = stragglers /\ extended' = extended /\ bucket' = bucket
          /\ spell' = spell /\ limit' = limit
      BY <1>4 DEF Allow
    <2>3. rpc[q] = "allow" /\ \E pc \in {"proxy", "idle"} : rpc' = [rpc EXCEPT ![q] = pc]
      BY <1>4 DEF Allow
    <2> HIDE DEF Goto
    <2> QED BY <2>1, <2>2, <2>3 DEF CircuitOK, CircuitRecord
  <1> QED BY <1>1, <1>2, <1>3, <1>4

(* The steps of the proxy. *)
LEMMA TypeProxy ==
  ASSUME TypeOK, NEW q \in Requests,
         \/ ProxyHTTP(q) \/ ProxyGRPC(q) \/ LockConns(q) \/ Dial(q) \/ DialFails(q)
         \/ MethodCached(q) \/ MethodMissing(q) \/ Reflect(q) \/ ReflectFails(q)
  PROVE  TypeOK'
  <1> USE DEF TypeOK, RequestPC, Goto, grpcVars, breakerHistory, envVars
  <1>0. None \notin Requests /\ None \notin Addresses
    BY PathAssumption
  <1>1. ASSUME NEW status, AnswerWith(q, status), rpc[q] \in {"proxy", "dialing", "method", "reflecting"}
        PROVE  /\ rpc' = [rpc EXCEPT ![q] = "answered"]
               /\ address' = [address EXCEPT ![q] = None]
               /\ failed' \in SUBSET Requests /\ failed' \subseteq failed \cup {q}
    BY <1>1 DEF AnswerWith
  <1>2. CASE ProxyHTTP(q)
    BY <1>0, <1>1, <1>2 DEF ProxyHTTP, GatewayError
  <1>3. CASE ProxyGRPC(q)
    BY <1>0, <1>3 DEF ProxyGRPC
  <1>4. CASE LockConns(q)
    BY <1>0, <1>4 DEF LockConns
  <1>5. CASE Dial(q)
    BY <1>0, <1>5 DEF Dial
  <1>6. CASE DialFails(q)
    BY <1>0, <1>1, <1>6 DEF DialFails, GatewayError
  <1>7. ASSUME Invoke(q), rpc[q] \in {"method", "reflecting"}
        PROVE  /\ rpc' = [rpc EXCEPT ![q] = "answered"] \/ rpc' = [rpc EXCEPT ![q] = "idle"]
               /\ address' = [address EXCEPT ![q] = None]
               /\ failed' \in SUBSET Requests /\ failed' \subseteq failed \cup {q}
               /\ rpc'[q] = "idle" => failed' = failed
    BY <1>1, <1>7 DEF Invoke, GatewayError
  <1>8. CASE MethodCached(q)
    BY <1>0, <1>7, <1>8 DEF MethodCached
  <1>9. CASE MethodMissing(q)
    BY <1>0, <1>9 DEF MethodMissing
  <1>10. CASE Reflect(q)
    BY <1>0, <1>7, <1>10 DEF Reflect
  <1>11. CASE ReflectFails(q)
    BY <1>0, <1>1, <1>11 DEF ReflectFails, GatewayError
  <1> QED BY <1>2, <1>3, <1>4, <1>5, <1>6, <1>8, <1>9, <1>10, <1>11

(* The steps after the proxy. *)
LEMMA TypeAfter ==
  ASSUME TypeOK, NEW q \in Requests, CheckAgain(q) \/ RecordSuccess(q) \/ RecordFailure(q)
  PROVE  TypeOK'
  <1>0. now \in Nat /\ now \in 0..now /\ now \in Seconds
    BY PathAssumption DEF TypeOK, Seconds
  <1>1. CASE CheckAgain(q)
    BY <1>1 DEF CheckAgain, TypeOK, RequestPC, Goto, grpcVars, breakerHistory, envVars
  <1>2. CASE RecordSuccess(q)
    <2>1. CircuitOK([Window EXCEPT !.total = @ + 1])
      BY CircuitTypes DEF CircuitOK, CircuitRecord
    <2>2. CircuitOK(circuit')
      BY <1>2, <2>1, CircuitTypes DEF RecordSuccess
    <2> QED BY <1>2, <2>2 DEF RecordSuccess, TypeOK, CircuitOK, CircuitRecord, RequestPC, Goto, grpcVars,
                           breakerHistory, envVars
  <1>3. CASE RecordFailure(q)
    <2> DEFINE counted == [Window EXCEPT !.failures = @ + 1, !.total = @ + 1]
               opens == circuit.state = "halfOpen" \/ TooManyFailures(counted)
    <2>1. CircuitOK(counted)
      <3> HIDE DEF opens
      <3>1. /\ Window \in CircuitRecord /\ Window.failures <= Window.total
            /\ Window.failures + 1 \in Nat /\ Window.total + 1 \in Nat
        BY CircuitTypes DEF CircuitOK, CircuitRecord
      <3>2. [Window EXCEPT !.failures = @ + 1, !.total = @ + 1] \in CircuitRecord
        BY <3>1 DEF CircuitRecord
      <3>3. counted.failures = Window.failures + 1 /\ counted.total = Window.total + 1
        BY <3>1 DEF CircuitRecord
      <3> QED BY <3>1, <3>2, <3>3 DEF CircuitOK, CircuitRecord
    <2>2. CircuitOK([counted EXCEPT !.state = "open", !.openedAt = now])
      BY <1>0, <2>1 DEF CircuitOK, CircuitRecord
    <2>3. CircuitOK(circuit')
      BY <1>3, <2>1, <2>2 DEF RecordFailure
    <2>4. Cardinality(InFlight \ {q}) \in Nat
      BY PathAssumption, FS_Subset, FS_CardinalityType DEF InFlight
    <2>5. stragglers' \in Nat
      BY <1>3, <2>4 DEF RecordFailure, TypeOK
    <2>6. extended' \in Nat
      BY <1>3 DEF RecordFailure, TypeOK
    <2>7. failures' \in [Seconds -> Nat]
      BY <1>0, <1>3 DEF RecordFailure, TypeOK
    <2>8. /\ rpc[q] = "record" /\ rpc' = [rpc EXCEPT ![q] = "idle"] /\ failed' = failed \ {q}
          /\ UNCHANGED <<envVars, bucket, grpcVars, limit, address, spell>>
      BY <1>3 DEF RecordFailure, Goto
    <2>9. /\ \A r \in Requests : rpc'[r] = IF r = q THEN "idle" ELSE rpc[r]
          /\ rpc' \in [Requests -> RequestPC]
      BY <2>8 DEF TypeOK, RequestPC
    <2>10. circuit' \in [state : {"closed", "open", "halfOpen"}, failures : Nat, total : Nat,
                         openedAt : 0..now, windowStart : 0..now \cup {None}]
           /\ circuit'.failures <= circuit'.total
      BY <2>3, <2>8 DEF CircuitOK, CircuitRecord, envVars
    <2> HIDE DEF counted, opens
    <2> QED BY <2>5, <2>6, <2>7, <2>8, <2>9, <2>10 DEF TypeOK, grpcVars, envVars
  <1> QED BY <1>1, <1>2, <1>3

LEMMA TypeStep == ASSUME TypeOK, [Next]_vars PROVE TypeOK'
  <1>1. CASE Tick
    <2>1. now' \in Seconds /\ 0..now \subseteq 0..now'
      BY <1>1, PathAssumption DEF Tick, TypeOK, Seconds
    <2>2. UNCHANGED <<config, arrivals, changes, bucket, circuit, grpcVars, requestVars, spell,
                      breakerHistory>>
      BY <1>1 DEF Tick
    <2>3. bucket' \in [tokens : Nat, rate : Nat, capacity : Nat, lastTime : 0..now']
          /\ spell' \in [since : 0..now', passed : Nat]
      BY <2>1, <2>2 DEF TypeOK
    <2>4. circuit' \in [state : {"closed", "open", "halfOpen"}, failures : Nat, total : Nat,
                        openedAt : 0..now', windowStart : 0..now' \cup {None}]
      BY <2>1, <2>2 DEF TypeOK
    <2> QED BY <2>1, <2>2, <2>3, <2>4 DEF TypeOK, grpcVars, requestVars, breakerHistory
  <1>2. CASE Reconfigure
    BY <1>2, PathAssumption DEF Reconfigure, TypeOK, grpcVars, requestVars, breakerHistory
  <1>3. CASE CloseConns
    BY <1>3 DEF CloseConns, TypeOK, envVars, requestVars, breakerHistory
  <1>4. ASSUME NEW q \in Requests, RequestStep(q) PROVE TypeOK'
    BY <1>4, TypeBefore, TypeProxy, TypeAfter DEF RequestStep
  <1>5. CASE UNCHANGED vars
    BY <1>5 DEF vars, TypeOK, envVars, grpcVars, requestVars, breakerHistory
  <1> QED BY <1>1, <1>2, <1>3, <1>4, <1>5 DEF Next

(* A request holds the connection lock exactly while it dials, and every   *)
(* other variable of the request path stays in its type.                   *)
THEOREM RequestPathTypes == Spec => []TypeOK
  BY TypeInit, TypeStep, PTL DEF Spec

-----------------------------------------------------------------------------
(* The window.                                                             *)

(* The failures recorded since second t. *)
Since(t) == [u \in Seconds |-> IF u >= t THEN failures[u] ELSE 0]

(* What a circuit counts happened since its window began. *)
Counts(c) == IF c.windowStart = None THEN c.failures = 0
                                     ELSE c.failures <= Total(Since(c.windowStart))

WindowInv == Counts(circuit)

LEMMA SinceType ==
  ASSUME TypeOK, NEW t \in Nat
  PROVE  /\ IsFiniteSet(Seconds) /\ Since(t) \in [Seconds -> Int]
         /\ \A u \in Seconds : Since(t)[u] >= 0
         /\ Total(Since(t)) \in Int /\ Total(Since(t)) >= 0
  <1>1. IsFiniteSet(Seconds)
    BY PathAssumption, FS_Interval DEF Seconds
  <1>2. Since(t) \in [Seconds -> Int] /\ \A u \in Seconds : Since(t)[u] >= 0
    <2>1. \A u \in Seconds : failures[u] \in Nat
      BY DEF TypeOK
    <2> QED BY <2>1 DEF Since
  <1> QED BY <1>1, <1>2, TotalInt, TotalNat

(* A failure now counts in every window that has begun. *)
LEMMA SinceFails ==
  ASSUME TypeOK, NEW t \in 0..now, failures' = [failures EXCEPT ![now] = @ + 1]
  PROVE  Total(Since(t)') = Total(Since(t)) + 1
  <1>1. now \in Seconds /\ now \in Nat /\ t \in Nat /\ now >= t
    BY PathAssumption DEF TypeOK, Seconds
  <1>2. failures \in [Seconds -> Nat] /\ failures[now] \in Nat
    BY <1>1 DEF TypeOK
  <1>3. Since(t)[now] = failures[now]
    BY <1>1 DEF Since
  <1>4. Since(t)' = [Since(t) EXCEPT ![now] = failures[now] + 1]
    <2>1. \A u \in Seconds : failures'[u] = IF u = now THEN failures[now] + 1 ELSE failures[u]
      BY <1>2
    <2> QED BY <1>1, <2>1 DEF Since
  <1>5. /\ IsFiniteSet(Seconds) /\ Since(t) \in [Seconds -> Int] /\ Total(Since(t)) \in Int
        /\ failures[now] + 1 \in Int
    BY <1>1, <1>2, SinceType
  <1>6. Total(Since(t)') = Total(Since(t)) - Since(t)[now] + (failures[now] + 1)
    <2>1. \A f \in [Seconds -> Int], n \in Int :
             Total([f EXCEPT ![now] = n]) = Total(f) - f[now] + n
      BY <1>1, <1>5, TotalUpdate
    <2>2. Total([Since(t) EXCEPT ![now] = failures[now] + 1])
             = Total(Since(t)) - Since(t)[now] + (failures[now] + 1)
      BY <1>5, <2>1
    <2>3. Total(Since(t)') = Total([Since(t) EXCEPT ![now] = failures[now] + 1])
      BY <1>4
    <2> QED BY <2>2, <2>3
  <1> HIDE DEF Since
  <1> QED BY <1>2, <1>3, <1>5, <1>6

(* The code's windows count no more than there was. *)
LEMMA WindowCounts ==
  ASSUME TypeOK, WindowInv
  PROVE  /\ Counts(GetCircuit) /\ Counts(Window)
         /\ \A state : Counts(Fresh(state))
         /\ GetCircuit.windowStart \in 0..now /\ Window.windowStart \in 0..now
         /\ now - Window.windowStart <= config.circuit.windowSec
  <1>1. /\ now \in Nat /\ now \in 0..now /\ now # None
        /\ config.circuit.windowSec \in Nat
    BY PathAssumption DEF TypeOK, Seconds
  <1>2. circuit.failures \in Nat /\ circuit.windowStart \in 0..now \cup {None}
    BY DEF TypeOK
  <1>3. ASSUME NEW c, c.failures = 0, c.windowStart = now PROVE Counts(c)
    <2>1. Total(Since(now)) >= 0
      BY <1>1, SinceType
    <2> HIDE DEF Since, Total
    <2> QED BY <1>3, <2>1 DEF Counts
  <1>4. \A state : Counts(Fresh(state)) /\ Fresh(state).windowStart = now
    BY <1>3 DEF Fresh
  <1>5. Counts(GetCircuit) /\ GetCircuit.windowStart \in 0..now
    <2>1. CASE circuit.windowStart = None
      <3> DEFINE c == [circuit EXCEPT !.windowStart = now]
      <3>1. c.failures = 0 /\ c.windowStart = now
        BY <2>1 DEF WindowInv, Counts, TypeOK
      <3>2. GetCircuit = c
        BY <2>1 DEF GetCircuit
      <3> HIDE DEF c
      <3> QED BY <1>1, <1>3, <3>1, <3>2
    <2>2. CASE circuit.windowStart # None
      BY <1>2, <2>2 DEF GetCircuit, WindowInv
    <2> QED BY <2>1, <2>2
  <1>6. Counts(Window) /\ Window.windowStart \in 0..now
    BY <1>1, <1>4, <1>5 DEF Window
  <1>7. now - Window.windowStart <= config.circuit.windowSec
    BY <1>1, <1>4, <1>5 DEF Window
  <1> QED BY <1>4, <1>5, <1>6, <1>7

LEMMA WindowInit == Init => WindowInv
  BY DEF Init, WindowInv, Counts

(* A failure is counted in its window; the window keeps it in view. *)
LEMMA FailureCounted ==
  ASSUME TypeOK, WindowInv, NEW q \in Requests, RecordFailure(q)
  PROVE  /\ Counts(circuit)'
         /\ circuit'.windowStart = Window.windowStart /\ circuit'.failures = Window.failures + 1
         /\ circuit'.total = Window.total + 1
  <1> DEFINE counted == [Window EXCEPT !.failures = @ + 1, !.total = @ + 1]
  <1>1. Window \in CircuitRecord
    BY CircuitTypes DEF CircuitOK
  <1>2. /\ counted.windowStart = Window.windowStart /\ counted.failures = Window.failures + 1
        /\ counted.total = Window.total + 1
        /\ [counted EXCEPT !.state = "open", !.openedAt = now].windowStart = counted.windowStart
        /\ [counted EXCEPT !.state = "open", !.openedAt = now].failures = counted.failures
        /\ [counted EXCEPT !.state = "open", !.openedAt = now].total = counted.total
    BY <1>1 DEF CircuitRecord
  <1>3. circuit' = counted \/ circuit' = [counted EXCEPT !.state = "open", !.openedAt = now]
    BY DEF RecordFailure
  <1> HIDE DEF counted
  <1>4. /\ circuit'.windowStart = Window.windowStart /\ circuit'.failures = Window.failures + 1
        /\ circuit'.total = Window.total + 1
    BY <1>2, <1>3
  <1>5. /\ Window.windowStart \in 0..now /\ Window.failures \in Nat
        /\ Counts(Window) /\ Window.windowStart # None /\ now \in Nat
    <2>1. now \in Nat /\ None \notin Nat
      BY PathAssumption DEF TypeOK, Seconds
    <2>2. Window.windowStart \in 0..now /\ Counts(Window)
      BY WindowCounts
    <2>3. Window.failures \in Nat
      BY <1>1 DEF CircuitRecord
    <2> QED BY <2>1, <2>2, <2>3
  <1>6. failures' = [failures EXCEPT ![now] = @ + 1]
    BY DEF RecordFailure
  <1>7. Total(Since(Window.windowStart)) \in Int
    BY <1>5, SinceType
  <1>8. Window.failures <= Total(Since(Window.windowStart))
    BY <1>5 DEF Counts
  <1>9. \A t \in 0..now : Total(Since(t)') = Total(Since(t)) + 1
    BY <1>6, SinceFails
  <1>10. PICK start \in 0..now : start = Window.windowStart
    BY <1>5
  <1>11. Total(Since(start)') = Total(Since(start)) + 1
    BY <1>9
  <1>12. Window.failures + 1 <= Total(Since(start)')
    BY <1>5, <1>7, <1>8, <1>10, <1>11
  <1>13. circuit'.windowStart = start /\ start # None
    BY <1>4, <1>5, <1>10
  <1>14. Total(Since(circuit.windowStart))' = Total(Since(start)')
    BY <1>13 DEF Since
  <1> QED BY <1>4, <1>12, <1>13, <1>14 DEF Counts

LEMMA WindowStep == ASSUME TypeOK, WindowInv, [Next]_vars PROVE WindowInv'
  <1>1. CASE UNCHANGED <<circuit, failures>>
    BY <1>1 DEF WindowInv, Counts, Since
  <1>2. ASSUME NEW c, circuit' = c, Counts(c), UNCHANGED failures PROVE WindowInv'
    BY <1>2 DEF WindowInv, Counts, Since
  <1>3. ASSUME NEW q \in Requests, Allow(q) PROVE WindowInv'
    <2>1. UNCHANGED failures
      BY <1>3 DEF Allow, breakerHistory
    <2>2. circuit' \in {circuit, GetCircuit, Fresh("halfOpen")}
      BY <1>3 DEF Allow
    <2> QED BY <1>2, <2>1, <2>2, WindowCounts DEF WindowInv
  <1>4. ASSUME NEW q \in Requests, RecordSuccess(q) PROVE WindowInv'
    <2> DEFINE c == [Window EXCEPT !.total = @ + 1]
    <2>1. Window \in CircuitRecord
      BY CircuitTypes DEF CircuitOK
    <2>2. c.windowStart = Window.windowStart /\ c.failures = Window.failures
      BY <2>1 DEF CircuitRecord
    <2>3. UNCHANGED failures /\ circuit' \in {c, Fresh("closed")}
      BY <1>4 DEF RecordSuccess, breakerHistory
    <2> HIDE DEF c
    <2>4. Counts(c)
      BY <2>2, WindowCounts DEF Counts
    <2> QED BY <1>2, <2>3, <2>4, WindowCounts
  <1>5. ASSUME NEW q \in Requests, RecordFailure(q) PROVE WindowInv'
    BY <1>5, FailureCounted DEF WindowInv
  <1>6. ASSUME NEW q \in Requests, RequestStep(q),
               ~ (Allow(q) \/ RecordSuccess(q) \/ RecordFailure(q))
        PROVE  UNCHANGED <<circuit, failures>>
    BY <1>6 DEF RequestStep, Arrive, Limit, CheckEnabled, ProxyHTTP, ProxyGRPC, LockConns, Dial,
               DialFails, MethodCached, MethodMissing, Reflect, ReflectFails, CheckAgain,
               breakerHistory
  <1>7. CASE Tick \/ Reconfigure \/ CloseConns \/ UNCHANGED vars
    BY <1>1, <1>7 DEF Tick, Reconfigure, CloseConns, vars, breakerHistory
  <1> QED BY <1>1, <1>3, <1>4, <1>5, <1>6, <1>7 DEF Next

(* The failures of the window the circuit counted in are in the last one.  *)
LEMMA RecentFailures ==
  ASSUME TypeOK, TypeOK', NEW start \in Nat, NEW first \in Int, first <= start
  PROVE  LET recent == FoldFunctionOnSet(+, 0, failures', {t \in Seconds : t >= first})
         IN  /\ recent \in Int /\ Total(Since(start))' \in Int
             /\ Total(Since(start))' <= recent
  <1> DEFINE T == {t \in Seconds : t >= first}
             g == [t \in Seconds |-> IF t \in T THEN failures'[t] ELSE 0]
             f == [t \in Seconds |-> IF t >= start THEN failures'[t] ELSE 0]
  <1>1. IsFiniteSet(Seconds)
    BY PathAssumption, FS_Interval DEF Seconds
  <1>2. failures' \in [Seconds -> Nat] /\ failures' \in [Seconds -> Int]
    BY DEF TypeOK
  <1>3. Total(Since(start))' = Total(f)
    BY DEF Since
  <1>4. f \in [Seconds -> Int] /\ g \in [Seconds -> Int] /\ \A t \in Seconds : f[t] <= g[t]
    <2>1. \A t \in Seconds : t \in Int /\ failures'[t] \in Nat /\ (t >= start => t \in T)
      BY <1>2, PathAssumption DEF Seconds
    <2> HIDE DEF T
    <2> QED BY <2>1
  <1>5. FoldFunctionOnSet(+, 0, failures', T) = Total(g)
    <2>1. T \in SUBSET Seconds
      OBVIOUS
    <2> HIDE DEF T
    <2>2. \A h \in [Seconds -> Int], U \in SUBSET Seconds :
             FoldFunctionOnSet(+, 0, h, U) = Total([t \in Seconds |-> IF t \in U THEN h[t] ELSE 0])
      BY <1>1, FoldOnPart
    <2> QED BY <1>2, <2>1, <2>2
  <1> HIDE DEF f, g
  <1>6. Total(g) \in Int /\ Total(f) \in Int /\ Total(f) <= Total(g)
    BY <1>1, <1>4, TotalInt, TotalMonotonic
  <1> QED BY <1>3, <1>5, <1>6

(* A circuit that opens from closed does so on as many failures in the     *)
(* last window as the threshold asks for among the least number of         *)
(* requests: whatever the order of answers, changes of the configuration   *)
(* and ends of windows, no failure is counted twice or after its window.   *)
THEOREM OpensOnFailures == Spec => OpensOnRecentFailures
  <1> DEFINE Opens == circuit.state = "closed" /\ circuit'.state = "open"
             recent == FoldFunctionOnSet(+, 0, failures',
                                         {t \in Seconds : t >= now - config.circuit.windowSec})
             Enough == recent * 100 >= config.circuit.errorThreshold * config.circuit.minRequests
  <1>1. ASSUME TypeOK, TypeOK', WindowInv, [Next]_vars, Opens PROVE Enough
    <2>1. PICK q \in Requests : RecordFailure(q)
      <3>1. circuit' # circuit
        BY <1>1
      <3>2. ASSUME NEW q \in Requests, Allow(q) PROVE FALSE
        <4>1. circuit' = GetCircuit
          BY <1>1, <3>1, <3>2 DEF Allow
        <4> QED BY <1>1, <4>1, CircuitTypes
      <3>3. ASSUME NEW q \in Requests, RecordSuccess(q) PROVE FALSE
        <4>1. circuit' = [Window EXCEPT !.total = @ + 1] /\ Window \in CircuitRecord
          BY <1>1, <3>3, CircuitTypes DEF RecordSuccess, CircuitOK
        <4>2. circuit'.state = Window.state
          BY <4>1 DEF CircuitRecord
        <4> QED BY <1>1, <4>2, CircuitTypes
      <3>4. ASSUME NEW q \in Requests, RequestStep(q),
                   ~ (Allow(q) \/ RecordSuccess(q) \/ RecordFailure(q))
            PROVE  UNCHANGED circuit
        BY <3>4 DEF RequestStep, Arrive, Limit, CheckEnabled, ProxyHTTP, ProxyGRPC, LockConns,
                   Dial, DialFails, MethodCached, MethodMissing, Reflect, ReflectFails, CheckAgain
      <3> QED BY <1>1, <3>1, <3>2, <3>3, <3>4 DEF Next, Tick, Reconfigure, CloseConns, vars
    <2>2. PICK start \in Nat, first \in Int :
             /\ start = Window.windowStart /\ first = now - config.circuit.windowSec
             /\ first <= start /\ start # None
      <3>1. now \in Nat /\ config.circuit.windowSec \in Nat
        BY <1>1, PathAssumption DEF TypeOK, Seconds
      <3>2. Window.windowStart \in 0..now /\ now - Window.windowStart <= config.circuit.windowSec
        BY <1>1, WindowCounts
      <3> QED BY <3>1, <3>2, PathAssumption
    <2> DEFINE counted == [Window EXCEPT !.failures = @ + 1, !.total = @ + 1]
               min == config.circuit.minRequests
               threshold == config.circuit.errorThreshold
    <2>3. /\ circuit'.windowStart = start /\ circuit'.failures = Window.failures + 1
          /\ Counts(circuit)'
      BY <1>1, <2>1, <2>2, FailureCounted
    <2>4. TooManyFailures(counted)
      <3>1. circuit' = counted \/ TooManyFailures(counted)
        BY <1>1, <2>1 DEF RecordFailure
      <3>2. Window \in CircuitRecord /\ Window.state = "closed"
        BY <1>1, CircuitTypes DEF CircuitOK
      <3>3. counted.state = "closed"
        BY <3>2 DEF CircuitRecord
      <3> QED BY <1>1, <3>1, <3>3
    <2>5. /\ Window.failures \in Nat /\ Window.total \in Nat
          /\ counted.failures = Window.failures + 1 /\ counted.total = Window.total + 1
      BY <1>1, CircuitTypes DEF CircuitOK, CircuitRecord
    <2>6. min \in Nat /\ threshold \in Nat
      BY <1>1, PathAssumption DEF TypeOK
    <2>7. /\ Window.total + 1 >= min
          /\ (Window.failures + 1) * 100 >= threshold * (Window.total + 1)
      <3> HIDE DEF counted
      <3> QED BY <2>4, <2>5 DEF TooManyFailures
    <2>8. threshold * (Window.total + 1) >= threshold * min
      <3>1. \A k, m, n \in Nat : m >= n => k * m >= k * n
        OBVIOUS
      <3> HIDE DEF min, threshold
      <3> QED BY <2>5, <2>6, <2>7, <3>1
    <2>9. /\ recent \in Int /\ Total(Since(start))' \in Int
          /\ Total(Since(start))' <= recent
      BY <1>1, <2>2, RecentFailures
    <2>10. Window.failures + 1 <= Total(Since(start))'
      <3>1. Total(Since(circuit.windowStart))' = Total(Since(start))'
        BY <2>3 DEF Since
      <3> QED BY <2>2, <2>3, <3>1 DEF Counts
    <2> HIDE DEF recent, min, threshold
    <2>11. threshold * (Window.total + 1) \in Nat /\ threshold * min \in Nat
      BY <2>5, <2>6, ProductType
    <2>12. recent >= Window.failures + 1
      BY <2>5, <2>9, <2>10
    <2>13. recent * 100 >= threshold * min
      BY <2>5, <2>7, <2>8, <2>9, <2>11, <2>12
    <2> QED BY <2>13 DEF min, threshold, recent
  <1>2. TypeOK /\ TypeOK' /\ WindowInv /\ [Next]_vars => [Opens => Enough]_vars
    BY <1>1
  <1>3. TypeOK /\ [Next]_vars => TypeOK'
    BY TypeStep
  <1>4. TypeOK /\ WindowInv /\ [Next]_vars => WindowInv'
    BY WindowStep
  <1> QED BY <1>2, <1>3, <1>4, TypeInit, WindowInit, PTL DEF Spec, OpensOnRecentFailures

-----------------------------------------------------------------------------
(* The connection map.                                                     *)

(* Whoever dials is the only one to, and its address has no connection:    *)
(* the second look under the lock, remembered until the connection is in   *)
(* the map.                                                                *)
DialsOnce == \A q \in Requests : rpc[q] = "dialing" => address[q] \notin conns

ConnectionInv == DialsOnce /\ ConnectionsOwned /\ dials \in [Addresses -> 0..1]

LEMMA ConnectionInit == Init => ConnectionInv
  BY DEF Init, ConnectionInv, DialsOnce, ConnectionsOwned

(* A step that leaves the map alone and starts no dialling. *)
LEMMA ConnectionIdle ==
  ASSUME ConnectionInv, conns' = conns, dials' = dials,
         \A q \in Requests : rpc'[q] = "dialing" => rpc[q] = "dialing" /\ address'[q] = address[q]
  PROVE  ConnectionInv'
  BY DEF ConnectionInv, DialsOnce, ConnectionsOwned

LEMMA ConnectionRequestStep ==
  ASSUME TypeOK, ConnectionInv, NEW q \in Requests, RequestStep(q)
  PROVE  ConnectionInv'
  <1>0. rpc \in [Requests -> RequestPC] /\ address \in [Requests -> Addresses \cup {None}]
    BY DEF TypeOK
  <1>1. ASSUME NEW pc, pc # "dialing", rpc' = [rpc EXCEPT ![q] = pc],
               \/ address' = address
               \/ \E a : address' = [address EXCEPT ![q] = a],
               conns' = conns, dials' = dials
        PROVE  ConnectionInv'
    BY <1>0, <1>1, ConnectionIdle
  <1>2. CASE Arrive(q) \/ Limit(q) \/ CheckEnabled(q) \/ Allow(q)
    BY <1>1, <1>2 DEF Arrive, Limit, CheckEnabled, Allow, Goto, grpcVars
  <1>3. CASE ProxyHTTP(q) \/ ProxyGRPC(q) \/ MethodMissing(q)
    BY <1>1, <1>3 DEF ProxyHTTP, ProxyGRPC, MethodMissing, GatewayError, AnswerWith, Goto,
                      grpcVars
  <1>4. CASE DialFails(q) \/ ReflectFails(q)
    BY <1>1, <1>4 DEF DialFails, ReflectFails, GatewayError, AnswerWith, Goto, grpcVars
  <1>5. CASE MethodCached(q) \/ Reflect(q)
    BY <1>1, <1>5 DEF MethodCached, Reflect, Invoke, GatewayError, AnswerWith, Goto, grpcVars
  <1>6. CASE CheckAgain(q) \/ RecordSuccess(q) \/ RecordFailure(q)
    BY <1>1, <1>6 DEF CheckAgain, RecordSuccess, RecordFailure, Goto, grpcVars
  <1>7. CASE LockConns(q)
    BY <1>0, <1>1, <1>7 DEF LockConns, Goto, ConnectionInv, DialsOnce, ConnectionsOwned
  <1>8. CASE Dial(q)
    <2>1. \A r \in Requests : rpc'[r] # "dialing"
      BY <1>0, <1>8 DEF Dial, Goto, TypeOK
    <2>2. address[q] \notin conns /\ address[q] \in Addresses
      BY <1>8, <1>0 DEF Dial, ConnectionInv, DialsOnce, TypeOK
    <2>3. ConnectionsOwned' /\ dials' \in [Addresses -> 0..1]
      BY <1>8, <2>2 DEF Dial, ConnectionInv, ConnectionsOwned, TypeOK
    <2> QED BY <2>1, <2>3 DEF ConnectionInv, DialsOnce
  <1> QED BY <1>2, <1>3, <1>4, <1>5, <1>6, <1>7, <1>8 DEF RequestStep

LEMMA ConnectionStep == ASSUME TypeOK, ConnectionInv, [Next]_vars PROVE ConnectionInv'
  <1>1. CASE Tick \/ Reconfigure \/ UNCHANGED vars
    BY <1>1, ConnectionIdle DEF Tick, Reconfigure, vars, grpcVars, requestVars
  <1>2. CASE CloseConns
    <2>1. ConnectionsOwned' /\ dials' \in [Addresses -> 0..1]
      BY <1>2 DEF CloseConns, ConnectionInv, ConnectionsOwned
    <2> QED BY <1>2, <2>1 DEF CloseConns, requestVars, ConnectionInv, DialsOnce
  <1> QED BY <1>1, <1>2, ConnectionRequestStep DEF Next

(* There is one open connection to each address in the map and none        *)
(* elsewhere, however many requests find the address missing at once.      *)
THEOREM ConnectionsAreOwned == Spec => []ConnectionsOwned
  <1>1. TypeOK /\ ConnectionInv /\ [Next]_vars => ConnectionInv'
    BY ConnectionStep
  <1>2. ConnectionInv => ConnectionsOwned
    BY DEF ConnectionInv
  <1> QED BY <1>1, <1>2, ConnectionInit, RequestPathTypes, PTL DEF Spec

-----------------------------------------------------------------------------
(* The breaker's late failures.                                            *)

(* What failures have still to come is counted: each request in flight may *)
(* renew the opening once more.                                            *)
ExtensionInv == circuit.state = "open" => extended + Cardinality(InFlight) <= stragglers

LEMMA FlightFinite == IsFiniteSet(InFlight) /\ Cardinality(InFlight) \in Nat
  BY PathAssumption, FS_Subset, FS_CardinalityType DEF InFlight

LEMMA ExtensionInit == Init => ExtensionInv
  BY DEF Init, ExtensionInv

(* Requests leave, and nothing else happens to the breaker. *)
LEMMA ExtensionShrinks ==
  ASSUME TypeOK, ExtensionInv, InFlight' \subseteq InFlight,
         circuit'.state = "open" => circuit.state = "open",
         stragglers' = stragglers, extended' = extended
  PROVE  ExtensionInv'
  <1>1. Cardinality(InFlight') <= Cardinality(InFlight) /\ Cardinality(InFlight') \in Nat
    BY FlightFinite, FS_Subset, FS_CardinalityType
  <1> QED BY <1>1, FlightFinite DEF ExtensionInv, TypeOK

LEMMA ExtensionRequestStep ==
  ASSUME TypeOK, ExtensionInv, NEW q \in Requests, RequestStep(q)
  PROVE  ExtensionInv'
  <1>0. rpc \in [Requests -> RequestPC]
    BY DEF TypeOK
  <1>1. ASSUME NEW pc, rpc' = [rpc EXCEPT ![q] = pc],
               q \in InFlight \/ pc \in {"idle", "limit", "enabled", "allow"}
        PROVE  InFlight' \subseteq InFlight
    BY <1>0, <1>1 DEF InFlight
  <1>2. CASE Arrive(q) \/ Limit(q)
    BY <1>1, <1>2, ExtensionShrinks DEF Arrive, Limit, Goto, breakerHistory
  <1>3. CASE CheckEnabled(q)
    <2>1. CASE config.circuit.enabled
      BY <1>1, <1>3, <2>1, ExtensionShrinks DEF CheckEnabled, Goto
    <2>2. CASE ~ config.circuit.enabled
      <3>1. InFlight' = InFlight \cup {q}
        BY <1>0, <1>3, <2>2 DEF CheckEnabled, Goto, InFlight
      <3>2. Cardinality(InFlight') <= Cardinality(InFlight) + 1 /\ Cardinality(InFlight') \in Nat
        BY <3>1, FlightFinite, FS_AddElement, FS_CardinalityType
      <3>3. /\ circuit' = circuit /\ extended' = extended
            /\ circuit.state = "open" => stragglers' = stragglers + 1
        BY <1>3, <2>2 DEF CheckEnabled
      <3> QED BY <3>2, <3>3, FlightFinite DEF ExtensionInv, TypeOK
    <2> QED BY <2>1, <2>2
  <1>4. CASE Allow(q)
    <2>1. CASE circuit.state = "open" /\ ~ CooledDown
      BY <1>1, <1>4, <2>1, ExtensionShrinks DEF Allow, Goto, breakerHistory
    <2>2. CASE ~ (circuit.state = "open" /\ ~ CooledDown)
      <3>1. circuit'.state # "open"
        BY <1>4, <2>2, CircuitTypes DEF Allow, Fresh
      <3> QED BY <3>1 DEF ExtensionInv
    <2> QED BY <2>1, <2>2
  <1>5. CASE ProxyHTTP(q) \/ ProxyGRPC(q) \/ MethodMissing(q) \/ LockConns(q) \/ Dial(q)
    <2>1. q \in InFlight /\ \E pc : rpc' = [rpc EXCEPT ![q] = pc]
      BY <1>5 DEF ProxyHTTP, ProxyGRPC, MethodMissing, LockConns, Dial, GatewayError, AnswerWith,
                  Goto, InFlight
    <2>2. circuit' = circuit /\ stragglers' = stragglers /\ extended' = extended
      BY <1>5 DEF ProxyHTTP, ProxyGRPC, MethodMissing, LockConns, Dial, breakerHistory
    <2> QED BY <1>1, <2>1, <2>2, ExtensionShrinks
  <1>6. CASE DialFails(q) \/ ReflectFails(q) \/ MethodCached(q) \/ Reflect(q) \/ CheckAgain(q)
    <2>1. q \in InFlight /\ \E pc : rpc' = [rpc EXCEPT ![q] = pc]
      BY <1>6 DEF DialFails, ReflectFails, MethodCached, Reflect, CheckAgain, Invoke,
                  GatewayError, AnswerWith, Goto, InFlight
    <2>2. circuit' = circuit /\ stragglers' = stragglers /\ extended' = extended
      BY <1>6 DEF DialFails, ReflectFails, MethodCached, Reflect, CheckAgain, breakerHistory
    <2> QED BY <1>1, <2>1, <2>2, ExtensionShrinks
  <1>7. CASE RecordSuccess(q)
    <2>1. [Window EXCEPT !.total = @ + 1].state = circuit.state
      BY CircuitTypes DEF CircuitOK, CircuitRecord
    <2>2. circuit'.state = "open" => circuit.state = "open"
      BY <1>7, <2>1 DEF RecordSuccess, Fresh
    <2> QED BY <1>1, <1>7, <2>2, ExtensionShrinks DEF RecordSuccess, Goto, breakerHistory
  <1>8. CASE RecordFailure(q)
    <2> DEFINE counted == [Window EXCEPT !.failures = @ + 1, !.total = @ + 1]
               opens == circuit.state = "halfOpen" \/ TooManyFailures(counted)
    <2>1. counted.state = circuit.state
      BY CircuitTypes DEF CircuitOK, CircuitRecord
    <2>2. InFlight' = InFlight \ {q} /\ q \in InFlight
      BY <1>0, <1>8 DEF RecordFailure, Goto, InFlight
    <2>3. Cardinality(InFlight') = Cardinality(InFlight) - 1
      BY <2>2, FlightFinite, FS_RemoveElement
    <2>4. /\ circuit' = IF opens THEN [counted EXCEPT !.state = "open", !.openedAt = now]
                                 ELSE counted
          /\ stragglers' = IF opens /\ circuit.state # "open"
                           THEN Cardinality(InFlight \ {q}) ELSE stragglers
          /\ extended' = IF ~ opens THEN extended
                         ELSE IF circuit.state = "open" THEN extended + 1 ELSE 0
      BY <1>8 DEF RecordFailure
    <2> HIDE DEF counted, opens
    <2>5. CASE ~ opens
      BY <2>1, <2>3, <2>4, <2>5, FlightFinite DEF ExtensionInv, TypeOK
    <2>6. CASE opens /\ circuit.state = "open"
      BY <2>3, <2>4, <2>6, FlightFinite DEF ExtensionInv, TypeOK
    <2>7. CASE opens /\ circuit.state # "open"
      BY <2>2, <2>3, <2>4, <2>7, FlightFinite DEF ExtensionInv, TypeOK
    <2> QED BY <2>5, <2>6, <2>7
  <1> QED BY <1>2, <1>3, <1>4, <1>5, <1>6, <1>7, <1>8 DEF RequestStep

LEMMA ExtensionStep == ASSUME TypeOK, ExtensionInv, [Next]_vars PROVE ExtensionInv'
  <1>1. CASE Tick \/ Reconfigure \/ CloseConns \/ UNCHANGED vars
    BY <1>1 DEF Tick, Reconfigure, CloseConns, vars, requestVars, breakerHistory, ExtensionInv,
                InFlight
  <1> QED BY <1>1, ExtensionRequestStep DEF Next

(* The opening of a circuit is renewed at most once by each request that   *)
(* could still fail into it.                                               *)
THEOREM ExtensionsAreBounded == Spec => []ExtensionsBounded
  <1>1. TypeOK /\ ExtensionInv /\ [Next]_vars => ExtensionInv'
    BY ExtensionStep
  <1>2. TypeOK /\ ExtensionInv => ExtensionsBounded
    BY FlightFinite DEF ExtensionInv, ExtensionsBounded, TypeOK
  <1> QED BY <1>1, <1>2, ExtensionInit, RequestPathTypes, PTL DEF Spec

-----------------------------------------------------------------------------
(* The token bucket.                                                       *)

(* Every token is one the burst or the time has brought: those left and    *)
(* those spent make no more.                                               *)
BurstInv ==
    /\ spell.since <= bucket.lastTime
    /\ bucket.tokens + spell.passed
          <= bucket.capacity + bucket.rate * (bucket.lastTime - spell.since)

LEMMA Distribute ==
  ASSUME NEW rate \in Nat, NEW a \in Nat, NEW b \in Nat, NEW c \in Nat, a <= b, b <= c
  PROVE  /\ rate * (c - a) = rate * (b - a) + (c - b) * rate
         /\ rate * (b - a) <= rate * (c - a)
  <1>1. PICK m \in Nat, n \in Nat : b - a = m /\ c - b = n
    OBVIOUS
  <1>2. c - a = m + n
    BY <1>1
  <1>3. rate * (m + n) = rate * m + n * rate /\ n * rate \in Nat /\ rate * m \in Nat
    BY ProductType
  <1> QED BY <1>1, <1>2, <1>3

LEMMA BurstInit == Init => BurstInv
  BY PathAssumption DEF Init, BurstInv

LEMMA BurstStep == ASSUME TypeOK, BurstInv, [Next]_vars PROVE BurstInv'
  <1>1. CASE UNCHANGED <<bucket, spell>>
    BY <1>1 DEF BurstInv
  <1>2. ASSUME NEW q \in Requests, Limit(q) PROVE BurstInv'
    <2> DEFINE cfg == limit[q]
               tokens == bucket.tokens + (now - bucket.lastTime) * cfg.rate
               passes == IF Passes(cfg) THEN 1 ELSE 0
    <2>1. cfg.rate \in Nat /\ cfg.burst \in Nat
      BY LimitType
    <2>2. Refill(cfg) \in Nat /\ Refill(cfg) <= cfg.burst
      BY <2>1, RefillType DEF Refill
    <2>3. /\ bucket' = [tokens |-> Refill(cfg) - passes, rate |-> cfg.rate,
                        capacity |-> cfg.burst, lastTime |-> now]
          /\ spell' = IF SameLimit(cfg) THEN [spell EXCEPT !.passed = @ + passes]
                                        ELSE [since |-> now, passed |-> passes]
      BY <1>2 DEF Limit
    <2>4. /\ now \in Nat /\ bucket.lastTime \in Nat /\ bucket.lastTime <= now
          /\ spell.since \in Nat /\ spell.passed \in Nat /\ bucket.tokens \in Nat
          /\ bucket.rate \in Nat /\ bucket.capacity \in Nat
      BY PathAssumption DEF TypeOK, Seconds
    <2>5. passes \in {0, 1}
      OBVIOUS
    <2>6. CASE SameLimit(cfg)
      <3>1. cfg.rate = bucket.rate /\ cfg.burst = bucket.capacity
        BY <2>6 DEF SameLimit
      <3>2. spell'.since = spell.since /\ spell'.passed = spell.passed + passes
        BY <2>3, <2>6 DEF TypeOK
      <3>3. (now - bucket.lastTime) * cfg.rate \in Nat
        BY <2>1, <2>4, ProductType
      <3>4. Refill(cfg) <= tokens
        BY <2>1, <2>4, <3>3 DEF Refill, Capped
      <3>5. bucket.rate * (now - spell.since) = bucket.rate * (bucket.lastTime - spell.since)
                + (now - bucket.lastTime) * bucket.rate
        BY <2>4, Distribute DEF BurstInv
      <3>6. bucket.rate * (bucket.lastTime - spell.since) \in Nat
        BY <2>4, ProductType DEF BurstInv
      <3> DEFINE owed == bucket.rate * (bucket.lastTime - spell.since)
                 gained == (now - bucket.lastTime) * bucket.rate
                 left == Refill(cfg)
      <3>7. /\ left <= bucket.tokens + gained /\ gained \in Nat /\ owed \in Nat /\ left \in Nat
            /\ bucket.tokens + spell.passed <= bucket.capacity + owed
            /\ bucket.rate * (now - spell.since) = owed + gained
        BY <2>2, <3>1, <3>3, <3>4, <3>5, <3>6 DEF BurstInv
      <3> HIDE DEF owed, gained, left, passes
      <3>8. (left - passes) + (spell.passed + passes) <= bucket.capacity + (owed + gained)
        BY <2>4, <2>5, <3>7
      <3>9. /\ bucket'.tokens = left - passes /\ bucket'.rate = bucket.rate
            /\ bucket'.capacity = bucket.capacity /\ bucket'.lastTime = now
        BY <2>3, <3>1 DEF left
      <3>10. spell.since <= now
        BY <2>4 DEF BurstInv
      <3> QED BY <3>2, <3>7, <3>8, <3>9, <3>10 DEF BurstInv
    <2>7. CASE ~ SameLimit(cfg)
      <3>1. spell' = [since |-> now, passed |-> passes]
        BY <2>3, <2>7
      <3>2. now - now = 0 /\ cfg.rate * 0 = 0
        BY <2>1, <2>4
      <3> HIDE DEF passes, cfg
      <3>3. (Refill(cfg) - passes) + passes <= cfg.burst + cfg.rate * (now - now)
        BY <2>1, <2>2, <2>5, <3>2
      <3> QED BY <2>3, <2>4, <3>1, <3>3 DEF BurstInv
    <2> QED BY <2>6, <2>7
  <1>3. ASSUME NEW q \in Requests, RequestStep(q), ~ Limit(q) PROVE UNCHANGED <<bucket, spell>>
    BY <1>3 DEF RequestStep, Arrive, CheckEnabled, Allow, ProxyHTTP, ProxyGRPC, LockConns, Dial,
                DialFails, MethodCached, MethodMissing, Reflect, ReflectFails, CheckAgain,
                RecordSuccess, RecordFailure
  <1>4. CASE Tick \/ Reconfigure \/ CloseConns \/ UNCHANGED vars
    BY <1>1, <1>4 DEF Tick, Reconfigure, CloseConns, vars
  <1> QED BY <1>1, <1>2, <1>3, <1>4 DEF Next

(* While its limit stays the same, RateLimit lets no more requests through *)
(* than the burst and the rate allow for the time since.                   *)
THEOREM BurstIsBounded == Spec => []BurstBounded
  <1>1. TypeOK /\ BurstInv /\ [Next]_vars => BurstInv'
    BY BurstStep
  <1>2. TypeOK /\ BurstInv => BurstBounded
    <2> SUFFICES ASSUME TypeOK, BurstInv PROVE BurstBounded
      OBVIOUS
    <2>1. /\ now \in Nat /\ bucket.lastTime \in Nat /\ bucket.lastTime <= now
          /\ spell.since \in Nat /\ spell.passed \in Nat /\ bucket.tokens \in Nat
          /\ bucket.rate \in Nat /\ bucket.capacity \in Nat
      BY PathAssumption DEF TypeOK, Seconds
    <2>2. bucket.rate * (bucket.lastTime - spell.since) <= bucket.rate * (now - spell.since)
      BY <2>1, Distribute DEF BurstInv
    <2>3. bucket.rate * (bucket.lastTime - spell.since) \in Nat
          /\ bucket.rate * (now - spell.since) \in Nat
      BY <2>1, ProductType DEF BurstInv
    <2> QED BY <2>1, <2>2, <2>3 DEF BurstInv, BurstBounded
  <1> QED BY <1>1, <1>2, BurstInit, RequestPathTypes, PTL DEF Spec
=============================================================================
