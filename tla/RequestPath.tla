----------------------------- MODULE RequestPath ----------------------------
(***************************************************************************)
(* A request behind the access checks: the token bucket of RateLimit, the  *)
(* service's circuit breaker, the proxy to an HTTP or gRPC backend with    *)
(* its shared connections, and the recording of the answer (gateway.go,    *)
(* proxy.go, grpc_proxy.go, circuitbreaker.go, ratelimit.go).              *)
(*                                                                         *)
(* Each middleware loads the configuration when it needs it, the breaker   *)
(* three times for one request; it may change in between. Circuits of      *)
(* different services are independent, and one service is modelled. Time   *)
(* passes in whole seconds. Requests race everywhere but in the sections   *)
(* the code locks (the bucket, the circuit, the connection map).           *)
(***************************************************************************)
EXTENDS GatewayTypes, FiniteSets, Functions

CONSTANTS
    Configs,         \* the configurations that may be in force, with defaults
    Requests,        \* requests in the gateway at one time
    Addresses,       \* gRPC instances
    Statuses,        \* HTTP statuses a backend may answer with
    GrpcCodes,       \* gRPC codes a call may fail with
    CacheTTL,        \* how long a service descriptor is kept
    MaxTime,         \* BOUND: seconds
    MaxArrivals,     \* BOUND: requests
    MaxChanges       \* BOUND: changes of the configuration

ASSUME PathAssumption ==
    /\ IsFiniteSet(Requests)
    /\ None \notin Requests /\ None \notin Addresses /\ None \notin Nat
    /\ CacheTTL \in Nat /\ MaxTime \in Nat /\ MaxArrivals \in Nat /\ MaxChanges \in Nat
    /\ \A cfg \in Configs :
          /\ cfg.rateLimit.rate \in Nat /\ cfg.rateLimit.burst \in Nat
          /\ cfg.circuit.errorThreshold \in Nat /\ cfg.circuit.minRequests \in Nat
          /\ cfg.circuit.windowSec \in Nat

VARIABLES
    now,             \* the time (bounded by MaxTime)
    config,          \* DynamicConfigHolder.cfg
    arrivals,        \* requests so far (bounded by MaxArrivals)
    changes,         \* changes of config so far (bounded by MaxChanges)
    bucket,          \* RateLimit's token bucket
    circuit,         \* the service's circuit
    conns,           \* the gRPC addresses in the connection map
    connLock,        \* the request that holds connMu, or None
    described,       \* when each address's descriptor was cached, or None
    rpc,             \* where each request is
    limit,           \* the rate limit it loaded
    address,         \* the gRPC instance it goes to, or None
    failed,          \* the requests answered with a status of 500 or more
    spell,           \* history: since when the limit is the same, and how many passed
    failures,        \* history: how many failures were recorded in each second
    stragglers,      \* history: requests let through that could fail into the open circuit
    extended,        \* history: how often failures have renewed its opening
    dials            \* history: open gRPC connections to each address

envVars == <<now, config, arrivals, changes>>
grpcVars == <<conns, connLock, described, dials>>
requestVars == <<rpc, limit, address, failed>>
breakerHistory == <<failures, stragglers, extended>>
vars == <<envVars, bucket, circuit, grpcVars, requestVars, spell, breakerHistory>>

RequestPC == {"idle", "limit", "enabled", "allow", "proxy", "connLock", "dialing",
              "method", "reflecting", "answered", "record"}

(* Requests the breaker has let through and that have not been recorded. *)
InFlight == {q \in Requests : rpc[q] \notin {"idle", "limit", "enabled", "allow"}}

Seconds == 0..MaxTime

NoLimit == [enabled |-> FALSE, rate |-> 0, burst |-> 0]

Init ==
    /\ now = 0 /\ arrivals = 0 /\ changes = 0
    /\ config \in Configs
    /\ bucket = [tokens |-> config.rateLimit.burst, rate |-> config.rateLimit.rate,
                 capacity |-> config.rateLimit.burst, lastTime |-> 0]
    /\ circuit = [state |-> "closed", failures |-> 0, total |-> 0, openedAt |-> 0,
                  windowStart |-> None]
    /\ conns = {} /\ connLock = None /\ described = [a \in Addresses |-> None]
    /\ rpc = [q \in Requests |-> "idle"]
    /\ limit = [q \in Requests |-> NoLimit]
    /\ address = [q \in Requests |-> None]
    /\ failed = {}
    /\ spell = [since |-> 0, passed |-> 0]
    /\ failures = [t \in Seconds |-> 0] /\ stragglers = 0 /\ extended = 0
    /\ dials = [a \in Addresses |-> 0]

Goto(q, next) == rpc' = [rpc EXCEPT ![q] = next]

Tick ==
    /\ now < MaxTime /\ now' = now + 1
    /\ UNCHANGED <<config, arrivals, changes, bucket, circuit, grpcVars, requestVars, spell,
                   breakerHistory>>

(* A new configuration is stored. *)
Reconfigure ==
    /\ changes < MaxChanges /\ changes' = changes + 1
    /\ config' \in Configs \ {config}
    /\ UNCHANGED <<now, arrivals, bucket, circuit, grpcVars, requestVars, spell, breakerHistory>>

-----------------------------------------------------------------------------
(* RateLimit.                                                              *)

(* A request comes to RateLimit, which loads its part of the configuration. *)
Arrive(q) ==
    /\ rpc[q] = "idle" /\ arrivals < MaxArrivals /\ arrivals' = arrivals + 1
    /\ IF config.rateLimit.enabled
       THEN Goto(q, "limit") /\ limit' = [limit EXCEPT ![q] = config.rateLimit]
       ELSE Goto(q, "enabled") /\ UNCHANGED limit
    /\ UNCHANGED <<now, config, changes, bucket, circuit, grpcVars, address, failed, spell,
                   breakerHistory>>

Capped(tokens, capacity) == IF tokens > capacity THEN capacity ELSE tokens

(* Mutant of Refill: the bucket overflows. *)
RefillUncapped(cfg) == bucket.tokens + (now - bucket.lastTime) * cfg.rate

(* allow: the tokens of the seconds gone by, at the new rate, are added. *)
Refill(cfg) == Capped(bucket.tokens + (now - bucket.lastTime) * cfg.rate, cfg.burst)

Passes(cfg) == Refill(cfg) >= 1

SameLimit(cfg) == cfg.rate = bucket.rate /\ cfg.burst = bucket.capacity

Limit(q) ==
    /\ rpc[q] = "limit"
    /\ LET cfg == limit[q]
           passes == IF Passes(cfg) THEN 1 ELSE 0
       IN  /\ Goto(q, IF Passes(cfg) THEN "enabled" ELSE "idle")
           /\ bucket' = [tokens |-> Refill(cfg) - passes, rate |-> cfg.rate,
                         capacity |-> cfg.burst, lastTime |-> now]
           /\ spell' = IF SameLimit(cfg) THEN [spell EXCEPT !.passed = @ + passes]
                                         ELSE [since |-> now, passed |-> passes]
    /\ limit' = [limit EXCEPT ![q] = NoLimit]
    /\ UNCHANGED <<envVars, circuit, grpcVars, address, failed, breakerHistory>>

-----------------------------------------------------------------------------
(* The circuit breaker before the proxy.                                   *)

(* cb.Enabled(): a disabled breaker lets the request through. *)
CheckEnabled(q) ==
    /\ rpc[q] = "enabled"
    /\ IF config.circuit.enabled
       THEN Goto(q, "allow") /\ UNCHANGED stragglers
       ELSE Goto(q, "proxy") /\ stragglers' = IF circuit.state = "open" THEN stragglers + 1
                                                                        ELSE stragglers
    /\ UNCHANGED <<envVars, bucket, circuit, grpcVars, limit, address, failed, spell,
                   failures, extended>>

(* getCircuit: the service's circuit is made by the first request. *)
GetCircuit == IF circuit.windowStart = None THEN [circuit EXCEPT !.windowStart = now] ELSE circuit

Fresh(state) == [state |-> state, failures |-> 0, total |-> 0,
                 openedAt |-> circuit.openedAt, windowStart |-> now]

CooledDown == now - circuit.openedAt >= config.circuit.cooldownSec

(* Mutant of Allow: an open circuit lets requests through once cooled      *)
(* down, but stays open.                                                   *)
AllowStaysOpen(q) ==
    /\ rpc[q] = "allow"
    /\ Goto(q, IF circuit.state = "open" /\ ~ CooledDown THEN "idle" ELSE "proxy")
    /\ UNCHANGED <<envVars, bucket, circuit, grpcVars, limit, address, failed, spell,
                   breakerHistory>>

(* cb.Allow: an open circuit rejects until it has cooled down, and then is *)
(* half open; a half-open circuit lets everything through.                 *)
Allow(q) ==
    /\ rpc[q] = "allow"
    /\ IF circuit.state = "open" /\ ~ CooledDown
       THEN Goto(q, "idle") /\ UNCHANGED circuit
       ELSE Goto(q, "proxy") /\ circuit' = IF circuit.state = "open" THEN Fresh("halfOpen")
                                                                     ELSE GetCircuit
    /\ UNCHANGED <<envVars, bucket, grpcVars, limit, address, failed, spell, breakerHistory>>

-----------------------------------------------------------------------------
(* The proxy.                                                              *)

AnswerWith(q, status) ==
    /\ Goto(q, "answered")
    /\ failed' = IF status >= 500 THEN failed \cup {q} ELSE failed
    /\ address' = [address EXCEPT ![q] = None]

GatewayError(q, code) == AnswerWith(q, HttpStatus(code))

(* ProxyHandler.Handle: no instance, an HTTP backend that does not answer  *)
(* or answers something, or a gRPC instance.                               *)
ProxyHTTP(q) ==
    /\ rpc[q] = "proxy"
    /\ \/ \E code \in {CodeServiceNotFound, CodeBackendTimeout, CodeBackendError} :
             GatewayError(q, code)
       \/ \E status \in Statuses : AnswerWith(q, status)
    /\ UNCHANGED <<envVars, bucket, circuit, grpcVars, limit, spell, breakerHistory>>

(* getOrCreateConn, first look under the read lock. *)
ProxyGRPC(q) ==
    /\ rpc[q] = "proxy" /\ connLock = None
    /\ \E a \in Addresses :
          /\ Goto(q, IF a \in conns THEN "method" ELSE "connLock")
          /\ address' = [address EXCEPT ![q] = a]
    /\ UNCHANGED <<envVars, bucket, circuit, grpcVars, limit, failed, spell, breakerHistory>>

(* Mutant of LockConns: no second look under the lock. *)
LockConnsAtOnce(q) ==
    /\ rpc[q] = "connLock" /\ connLock = None /\ Goto(q, "dialing")
    /\ connLock' = q
    /\ UNCHANGED <<envVars, bucket, circuit, conns, described, dials, limit, address, failed,
                   spell, breakerHistory>>

(* The write lock, and a second look. *)
LockConns(q) ==
    /\ rpc[q] = "connLock" /\ connLock = None
    /\ IF address[q] \in conns THEN Goto(q, "method") /\ UNCHANGED connLock
                               ELSE Goto(q, "dialing") /\ connLock' = q
    /\ UNCHANGED <<envVars, bucket, circuit, conns, described, dials, limit, address, failed,
                   spell, breakerHistory>>

(* The connection is dialled under the lock, and may time out. *)
Dial(q) ==
    /\ rpc[q] = "dialing" /\ Goto(q, "method")
    /\ conns' = conns \cup {address[q]}
    /\ dials' = [dials EXCEPT ![address[q]] = @ + 1]
    /\ connLock' = None
    /\ UNCHANGED <<envVars, bucket, circuit, described, limit, address, failed, spell,
                   breakerHistory>>

(* Mutant of DialFails: the lock is kept. *)
DialFailsLocked(q) ==
    /\ rpc[q] = "dialing" /\ GatewayError(q, CodeBackendError)
    /\ UNCHANGED <<envVars, bucket, circuit, grpcVars, limit, spell, breakerHistory>>

DialFails(q) ==
    /\ rpc[q] = "dialing" /\ GatewayError(q, CodeBackendError)
    /\ connLock' = None
    /\ UNCHANGED <<envVars, bucket, circuit, conns, described, dials, limit, spell,
                   breakerHistory>>

(* grpcCodeToHTTP. *)
GrpcCodeToHTTP(code) ==
    CASE code = "OK" -> 200
      [] code = "InvalidArgument" -> 400
      [] code = "Unauthenticated" -> 401
      [] code = "PermissionDenied" -> 403
      [] code = "NotFound" -> 404
      [] code = "AlreadyExists" -> 409
      [] code = "ResourceExhausted" -> 429
      [] code = "Unimplemented" -> 501
      [] code = "Unavailable" -> 503
      [] code = "DeadlineExceeded" -> 504
      [] OTHER -> 500

(* The method's descriptor is known. An unknown method, a streaming one, a *)
(* bad body and an error without status are gateway errors; an error with  *)
(* a status is written with WriteJsonExit, which leaves the handler, so    *)
(* that the breaker never hears of it.                                     *)
Invoke(q) ==
    \/ AnswerWith(q, GrpcCodeToHTTP("OK"))
    \/ GatewayError(q, CodeBackendError)
    \/ \E code \in GrpcCodes : /\ GrpcCodeToHTTP(code) # 200 /\ Goto(q, "idle")
                               /\ address' = [address EXCEPT ![q] = None]
                               /\ UNCHANGED failed

CachedNow(a) == IF described[a] = None THEN FALSE ELSE now - described[a] < CacheTTL

(* resolveMethod: a descriptor younger than the TTL is used, *)
MethodCached(q) ==
    /\ rpc[q] = "method" /\ CachedNow(address[q])
    /\ Invoke(q)
    /\ UNCHANGED <<envVars, bucket, circuit, grpcVars, limit, spell, breakerHistory>>

MethodMissing(q) ==
    /\ rpc[q] = "method" /\ ~ CachedNow(address[q])
    /\ Goto(q, "reflecting")
    /\ UNCHANGED <<envVars, bucket, circuit, grpcVars, limit, address, failed, spell,
                   breakerHistory>>

(* otherwise it is asked of the instance and cached. *)
Reflect(q) ==
    /\ rpc[q] = "reflecting"
    /\ described' = [described EXCEPT ![address[q]] = now]
    /\ Invoke(q)
    /\ UNCHANGED <<envVars, bucket, circuit, conns, connLock, dials, limit, spell, breakerHistory>>

ReflectFails(q) ==
    /\ rpc[q] = "reflecting" /\ GatewayError(q, CodeBackendError)
    /\ UNCHANGED <<envVars, bucket, circuit, grpcVars, limit, spell, breakerHistory>>

(* GRPCProxy.Close, at the end, when no request is left. *)
CloseConns ==
    /\ arrivals = MaxArrivals /\ \A q \in Requests : rpc[q] = "idle"
    /\ conns # {} /\ conns' = {}
    /\ dials' = [a \in Addresses |-> IF a \in conns THEN dials[a] - 1 ELSE dials[a]]
    /\ UNCHANGED <<envVars, bucket, circuit, connLock, described, requestVars, spell,
                   breakerHistory>>

-----------------------------------------------------------------------------
(* The circuit breaker after the proxy.                                    *)

(* cb.Enabled() again. *)
CheckAgain(q) ==
    /\ rpc[q] = "answered"
    /\ IF config.circuit.enabled THEN Goto(q, "record") /\ UNCHANGED failed
                                 ELSE Goto(q, "idle") /\ failed' = failed \ {q}
    /\ UNCHANGED <<envVars, bucket, circuit, grpcVars, limit, address, spell, breakerHistory>>

(* Mutant of Window: a window never ends. *)
WindowEndless == GetCircuit

(* A window that has run out is begun anew. *)
Window == IF now - GetCircuit.windowStart > config.circuit.windowSec THEN Fresh(circuit.state)
                                                                     ELSE GetCircuit

(* A success closes a half-open circuit. *)
RecordSuccess(q) ==
    /\ rpc[q] = "record" /\ q \notin failed /\ Goto(q, "idle")
    /\ circuit' = IF circuit.state = "halfOpen" THEN Fresh("closed")
                  ELSE [Window EXCEPT !.total = @ + 1]
    /\ UNCHANGED <<envVars, bucket, grpcVars, limit, address, failed, spell, breakerHistory>>

TooManyFailures(counted) ==
    /\ counted.total >= config.circuit.minRequests
    /\ counted.failures * 100 >= config.circuit.errorThreshold * counted.total

(* A failure opens a half-open circuit at once, and otherwise when there   *)
(* are too many; a circuit that is open already is opened again.           *)
RecordFailure(q) ==
    LET counted == [Window EXCEPT !.failures = @ + 1, !.total = @ + 1]
        opens == circuit.state = "halfOpen" \/ TooManyFailures(counted)
    IN  /\ rpc[q] = "record" /\ q \in failed /\ Goto(q, "idle")
        /\ failed' = failed \ {q}
        /\ circuit' = IF opens THEN [counted EXCEPT !.state = "open", !.openedAt = now]
                               ELSE counted
        /\ failures' = [failures EXCEPT ![now] = @ + 1]
        /\ stragglers' = IF opens /\ circuit.state # "open"
                         THEN Cardinality(InFlight \ {q}) ELSE stragglers
        /\ extended' = IF ~ opens THEN extended
                       ELSE IF circuit.state = "open" THEN extended + 1 ELSE 0
        /\ UNCHANGED <<envVars, bucket, grpcVars, limit, address, spell>>

RequestStep(q) ==
    \/ Arrive(q) \/ Limit(q) \/ CheckEnabled(q) \/ Allow(q)
    \/ ProxyHTTP(q) \/ ProxyGRPC(q) \/ LockConns(q) \/ Dial(q) \/ DialFails(q)
    \/ MethodCached(q) \/ MethodMissing(q) \/ Reflect(q) \/ ReflectFails(q)
    \/ CheckAgain(q) \/ RecordSuccess(q) \/ RecordFailure(q)

Next == Tick \/ Reconfigure \/ CloseConns \/ \E q \in Requests : RequestStep(q)

Spec == Init /\ [][Next]_vars

-----------------------------------------------------------------------------
(* Types of the state; the connection lock is held exactly while dialling. *)
TypeOK ==
    /\ now \in Seconds /\ config \in Configs
    /\ arrivals \in 0..MaxArrivals /\ changes \in 0..MaxChanges
    /\ bucket \in [tokens : Nat, rate : Nat, capacity : Nat, lastTime : 0..now]
    /\ circuit \in [state : {"closed", "open", "halfOpen"}, failures : Nat, total : Nat,
                     openedAt : 0..now, windowStart : 0..now \cup {None}]
    /\ circuit.failures <= circuit.total
    /\ conns \subseteq Addresses /\ described \in [Addresses -> Seconds \cup {None}]
    /\ rpc \in [Requests -> RequestPC] /\ address \in [Requests -> Addresses \cup {None}]
    /\ limit \in [Requests -> {NoLimit} \cup {cfg.rateLimit : cfg \in Configs}]
    /\ failed \subseteq Requests
    /\ connLock = None \/ connLock \in Requests
    /\ \A q \in Requests :
          /\ rpc[q] = "dialing" <=> connLock = q
          /\ rpc[q] \in {"connLock", "dialing", "method", "reflecting"} <=> address[q] # None
          /\ q \in failed => rpc[q] \in {"answered", "record"}
    /\ failures \in [Seconds -> Nat] /\ stragglers \in Nat /\ extended \in Nat
    /\ spell \in [since : 0..now, passed : Nat]

(* While the limit is the same, no more requests pass RateLimit than the   *)
(* burst and the rate times the seconds allow, however requests and        *)
(* changes of the configuration interleave.                                *)
BurstBounded == spell.passed <= bucket.capacity + bucket.rate * (now - spell.since)

(* A circuit opens from closed only on failures of the last window: enough *)
(* of them for the threshold among the least number of requests.           *)
OpensOnRecentFailures ==
    [][circuit.state = "closed" /\ circuit'.state = "open" =>
          FoldFunctionOnSet(+, 0, failures', {t \in Seconds : t >= now - config.circuit.windowSec})
             * 100 >= config.circuit.errorThreshold * config.circuit.minRequests]_vars

(* Late failures renew the opening of an open circuit, and so its cooldown *)
(* - once at most for each request that was in flight when it opened, or   *)
(* that was let through while the breaker was disabled.                    *)
ExtensionsBounded == circuit.state = "open" => extended <= stragglers

(* There is one connection to each address in the map, and no other.       *)
ConnectionsOwned == \A a \in Addresses : dials[a] = IF a \in conns THEN 1 ELSE 0
=============================================================================
