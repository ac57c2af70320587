---------------------------- MODULE GatewayConfig ----------------------------
(***************************************************************************)
(* How a published configuration takes effect in the gateway: the SDK hands*)
(* each new version to a goroutine of its own, Setup reads and stores the  *)
(* first one itself, DynamicConfigHolder.Store swaps the configuration and *)
(* then runs the callbacks that replace the JWT keys and the balancer's    *)
(* strategy, and requests pass IPFilter and JWT meanwhile. No lock spans   *)
(* any two of these steps.                                                 *)
(*                                                                         *)
(* The SDK is ConfigCenter's client; all that counts here is that versions *)
(* arrive in its cache and start listeners. A configuration is named by    *)
(* the version it was parsed from; Default is the one built in.            *)
(***************************************************************************)
EXTENDS GatewayTypes, Sequences

CONSTANTS
    Versions,      \* what the configuration centre may publish
    Parsed,        \* the DynamicConfig in each version, None when parsing fails
    Default,       \* names the configuration the holder starts with
    Listeners,     \* goroutines the SDK's notifyListeners may have running
    Main,          \* the goroutine that runs Setup
    Requests,      \* requests in the middleware chain at one time
    Callers,       \* who may ask: [ip, path, token]
    KeyKind,       \* the algorithm a PEM block is a public key for, or None
    Covers,        \* the client addresses an entry of the list covers, or None
    MaxDeliveries  \* BOUND: versions the polling loop delivers

ASSUME GatewayAssumption ==
    /\ Default \notin Versions /\ None \notin Versions
    /\ Main \notin Listeners
    /\ None # "round_robin"
    /\ \A v \in Versions : Parsed[v] # None => DOMAIN Parsed[v] = DOMAIN EmptyConfig
    /\ MaxDeliveries \in Nat

(* A readable version has a filter section and a list of keys, and a PEM   *)
(* block is a key of one of two kinds, or of none.                         *)
ASSUME SectionsAssumption ==
    /\ None \notin {"RS256", "EdDSA"}
    /\ \A v \in Versions : Parsed[v] # None =>
          LET items == Parsed[v].jwt.keys IN
          /\ Parsed[v].ipFilter # None
          /\ Len(items) \in Nat /\ DOMAIN items = 1 .. Len(items)
          /\ \A i \in DOMAIN items : KeyKind[items[i].publicKey] \in {"RS256", "EdDSA", None}

VARIABLES
    cached,        \* the version in the SDK's cache, or None
    delivered,     \* versions delivered by polls so far (bounded by MaxDeliveries)
    pc,            \* where Main and each listener goroutine are
    version,       \* the version each of them works on
    holder,        \* DynamicConfigHolder.cfg
    registered,    \* whether gateway.New has registered its callback
    keys,          \* KeyManager.keys
    strategy,      \* the strategy of the pool's picker factory
    cachedCfg,     \* IPFilter: the section the entries were parsed from, or None
    cachedEntries, \* IPFilter: the parsed entries
    rpc,           \* where each request is in the chain
    caller,        \* who sent it
    loaded,        \* the configuration IPFilter loaded for it
    mixed,         \* history: two changes overlapped, and none came alone since
    latest,        \* history: the last readable version delivered, or read by Setup
    calm,          \* history: the requests during which nothing changed
    raced          \* history: requests have shared IPFilter's cache while it changed

configVars == <<cached, delivered, pc, version, holder, registered, keys, strategy>>
requestVars == <<cachedCfg, cachedEntries, rpc, caller, loaded>>
history == <<mixed, latest, calm, raced>>
vars == <<configVars, requestVars, history>>

Stores == Listeners \cup {Main}
StorePC == {"free", "fetch", "getConfig", "store", "copy", "keys", "strategy",
            "load", "onChange", "running"}
RequestPC == {"idle", "compare", "refresh", "keep", "match", "jwt", "verify",
              "passed", "blocked", "unauthorized"}

Config(v) == IF v = Default THEN DefaultConfig ELSE ApplyDynamicDefaults(Parsed[v])

Readable(v) == Parsed[v] # None

(* A change under way: a listener's, from its start to its last callback,  *)
(* or Setup's, from reading the cache to registering the callback.         *)
Busy(p) == IF p = Main THEN pc[p] \notin {"fetch", "getConfig", "running"} ELSE pc[p] # "free"

Quiet == pc[Main] = "running" /\ \A p \in Listeners : pc[p] = "free"

-----------------------------------------------------------------------------
(* JWT keys: parsePublicKey, UpdateKeys and keyFunc.                       *)

(* A key is skipped unless its PEM block fits its algorithm. *)
Usable(key) == key.algorithm \in {"RS256", "EdDSA"} /\ KeyKind[key.publicKey] = key.algorithm

(* The map from kid to key; the last of two usable keys with one kid wins. *)
ParsedKeys(items) ==
    LET usable == {i \in DOMAIN items : Usable(items[i])}
        last(kid) == CHOOSE i \in usable : /\ items[i].kid = kid
                                           /\ \A j \in usable : items[j].kid = kid => j <= i
    IN  [kid \in {items[i].kid : i \in usable} |-> items[last(kid)]]

(* keyFunc finds the key by kid and requires its algorithm; the jwt        *)
(* library then checks the signature with it.                              *)
TokenValid(token) ==
    /\ token # None
    /\ token.kid \in DOMAIN keys
    /\ keys[token.kid].algorithm = token.alg
    /\ keys[token.kid].publicKey = token.signer

-----------------------------------------------------------------------------
Init ==
    /\ cached = None /\ delivered = 0
    /\ pc = [p \in Stores |-> IF p = Main THEN "fetch" ELSE "free"]
    /\ version = [p \in Stores |-> None]
    /\ holder = Default /\ registered = FALSE
    /\ keys = ParsedKeys(<<>>) /\ strategy = None
    /\ cachedCfg = None /\ cachedEntries = {}
    /\ rpc = [q \in Requests |-> "idle"]
    /\ caller = [q \in Requests |-> None]
    /\ loaded = [q \in Requests |-> None]
    /\ mixed = FALSE /\ latest = Default
    /\ calm = {} /\ raced = FALSE

Goto(p, next) == pc' = [pc EXCEPT ![p] = next]

(* Client.Start fetches the first version, or gives up. *)
Fetch ==
    /\ pc[Main] = "fetch" /\ Goto(Main, "getConfig")
    /\ cached' \in Versions \cup {None}
    /\ UNCHANGED <<delivered, version, holder, registered, keys, strategy, requestVars, history>>

(* A poll is answered with a version, the cached one perhaps: it goes to   *)
(* the cache and a new goroutine runs the listener setupConfigCenter added. *)
Deliver(p, v) ==
    /\ delivered < MaxDeliveries /\ pc[Main] # "fetch" /\ pc[p] = "free"
    /\ delivered' = delivered + 1
    /\ cached' = v
    /\ Goto(p, "store")
    /\ version' = [version EXCEPT ![p] = v]
    /\ mixed' = IF \E r \in Stores : Busy(r) THEN TRUE ELSE mixed /\ ~ Readable(v)
    /\ latest' = IF Readable(v) THEN v ELSE latest
    /\ calm' = {}
    /\ UNCHANGED <<holder, registered, keys, strategy, requestVars, raced>>

(* Setup reads the cache and parses what it finds; without a readable      *)
(* version it goes on to gateway.New with the defaults.                    *)
GetConfig ==
    /\ pc[Main] = "getConfig"
    /\ IF cached # None /\ Readable(cached)
       THEN /\ Goto(Main, "store") /\ version' = [version EXCEPT ![Main] = cached]
            /\ latest' = cached
       ELSE Goto(Main, "load") /\ UNCHANGED <<version, latest>>
    /\ mixed' = (mixed \/ \E r \in Listeners : Busy(r))
    /\ UNCHANGED <<cached, delivered, holder, registered, keys, strategy, requestVars,
                   calm, raced>>

(* Mutant of Drop: the error is logged only, and nothing is stored. *)
DropStoresNothing(p) ==
    /\ pc[p] = "store" /\ ~ Readable(version[p]) /\ Goto(p, "free")
    /\ holder' = None
    /\ UNCHANGED <<cached, delivered, version, registered, keys, strategy, requestVars, history>>

(* The listener parses its version, and drops what it cannot parse. *)
Drop(p) ==
    /\ pc[p] = "store" /\ ~ Readable(version[p]) /\ Goto(p, "free")
    /\ UNCHANGED <<cached, delivered, version, holder, registered, keys, strategy,
                   requestVars, history>>

(* DynamicConfigHolder.Store, first half: the configuration is replaced. *)
StoreConfig(p) ==
    /\ pc[p] = "store" /\ Readable(version[p]) /\ Goto(p, "copy")
    /\ holder' = version[p]
    /\ UNCHANGED <<cached, delivered, version, registered, keys, strategy, requestVars,
                   history>>

(* What Store returns to: the listener ends, Setup calls gateway.New. *)
AfterStore(p) == IF p = Main THEN "load" ELSE "free"

(* Store, second half: copy the callbacks under the lock, run them. *)
CopyCallbacks(p) ==
    /\ pc[p] = "copy" /\ Goto(p, IF registered THEN "keys" ELSE AfterStore(p))
    /\ UNCHANGED <<cached, delivered, version, holder, registered, keys, strategy,
                   requestVars, history>>

(* The callback of gateway.New: the keys, *)
UpdateKeys(p) ==
    /\ pc[p] = "keys" /\ Goto(p, "strategy")
    /\ keys' = ParsedKeys(Config(version[p]).jwt.keys)
    /\ UNCHANGED <<cached, delivered, version, holder, registered, strategy, requestVars,
                   history>>

(* Mutant of UpdateStrategy: only a strategy written in the file counts. *)
UpdateStrategyExplicit(p) ==
    /\ pc[p] = "strategy" /\ Goto(p, AfterStore(p))
    /\ strategy' = IF Parsed[version[p]].balancer # None THEN Config(version[p]).balancer
                                                         ELSE strategy
    /\ UNCHANGED <<cached, delivered, version, holder, registered, keys, requestVars, history>>

(* and the strategy, which the defaults have made non-empty. *)
UpdateStrategy(p) ==
    /\ pc[p] = "strategy" /\ Goto(p, AfterStore(p))
    /\ strategy' = IF Config(version[p]).balancer # None THEN Config(version[p]).balancer
                                                         ELSE strategy
    /\ UNCHANGED <<cached, delivered, version, holder, registered, keys, requestVars, history>>

(* gateway.New takes strategy and keys from the holder *)
NewLoad ==
    /\ pc[Main] = "load" /\ Goto(Main, "onChange")
    /\ strategy' = Config(holder).balancer
    /\ keys' = ParsedKeys(Config(holder).jwt.keys)
    /\ UNCHANGED <<cached, delivered, version, holder, registered, requestVars, history>>

(* and then registers its callback. *)
OnChange ==
    /\ pc[Main] = "onChange" /\ Goto(Main, "running")
    /\ registered' = TRUE
    /\ UNCHANGED <<cached, delivered, version, holder, keys, strategy, requestVars, history>>

MainStep ==
    \/ Fetch \/ GetConfig \/ StoreConfig(Main) \/ CopyCallbacks(Main)
    \/ NewLoad \/ OnChange

ListenerStep(p) ==
    Drop(p) \/ StoreConfig(p) \/ CopyCallbacks(p) \/ UpdateKeys(p) \/ UpdateStrategy(p)

-----------------------------------------------------------------------------
(* A request in IPFilter and JWT.                                          *)

FilterRace == \E q, r \in Requests : /\ q # r /\ rpc[q] \in {"refresh", "keep"}
                                     /\ rpc[r] \in {"refresh", "keep", "match"}

RequestGoto(q, next) ==
    /\ rpc' = [rpc EXCEPT ![q] = next]
    /\ raced' = (raced \/ FilterRace')

(* A request reaches IPFilter, which loads the configuration. *)
Arrive(q) ==
    /\ pc[Main] = "running" /\ rpc[q] = "idle"
    /\ RequestGoto(q, IF Config(holder).ipFilter.enabled THEN "compare" ELSE "jwt")
    /\ \E c \in Callers : caller' = [caller EXCEPT ![q] = c]
    /\ loaded' = [loaded EXCEPT ![q] = holder]
    /\ calm' = IF Quiet /\ ~ mixed THEN calm \cup {q} ELSE calm
    /\ UNCHANGED <<configVars, cachedCfg, cachedEntries, mixed, latest>>

(* Mutant of FilterCompare: the entries are parsed once and for all. *)
FilterCompareOnce(q) ==
    /\ rpc[q] = "compare"
    /\ RequestGoto(q, IF cachedCfg = None THEN "refresh" ELSE "match")
    /\ UNCHANGED <<configVars, cachedCfg, cachedEntries, caller, loaded, mixed, latest, calm>>

(* cachedCfg == nil || !ipFilterEqual(cachedCfg, &cfg) *)
FilterCompare(q) ==
    /\ rpc[q] = "compare"
    /\ RequestGoto(q, IF cachedCfg = Config(loaded[q]).ipFilter THEN "match" ELSE "refresh")
    /\ UNCHANGED <<configVars, cachedCfg, cachedEntries, caller, loaded, mixed, latest, calm>>

(* parseIPEntries keeps the addresses that parse. *)
ParseIPEntries(addresses) == {a \in addresses : Covers[a] # None}

FilterRefresh(q) ==
    /\ rpc[q] = "refresh" /\ RequestGoto(q, "keep")
    /\ cachedEntries' = ParseIPEntries(Config(loaded[q]).ipFilter.addresses)
    /\ UNCHANGED <<configVars, cachedCfg, caller, loaded, mixed, latest, calm>>

FilterKeep(q) ==
    /\ rpc[q] = "keep" /\ RequestGoto(q, "match")
    /\ cachedCfg' = Config(loaded[q]).ipFilter
    /\ UNCHANGED <<configVars, cachedEntries, caller, loaded, mixed, latest, calm>>

MatchIP(ip, entries) == \E a \in entries : ip \in Covers[a]

(* The mode decides; a client whose address does not parse passes. While   *)
(* another request writes the entries the read is a data race, and matched *)
(* may be anything.                                                        *)
FilterMatch(q) ==
    /\ rpc[q] = "match"
    /\ \E matched \in IF FilterRace THEN BOOLEAN
                      ELSE {MatchIP(caller[q].ip, cachedEntries)} :
          LET mode == Config(loaded[q]).ipFilter.mode IN
          RequestGoto(q, IF /\ caller[q].ip # None
                            /\ (mode = "whitelist" /\ ~ matched) \/ (mode = "blacklist" /\ matched)
                         THEN "blocked" ELSE "jwt")
    /\ UNCHANGED <<configVars, cachedCfg, cachedEntries, caller, loaded, mixed, latest, calm>>

(* JWT loads the configuration again; a disabled check or a skipped path   *)
(* lets the request pass, a missing token is refused.                      *)
JWTLoad(q) ==
    /\ rpc[q] = "jwt"
    /\ LET jwt == Config(holder).jwt IN
       RequestGoto(q, IF ~ jwt.enabled \/ caller[q].path \in jwt.skipPaths THEN "passed"
                      ELSE IF caller[q].token = None THEN "unauthorized" ELSE "verify")
    /\ UNCHANGED <<configVars, cachedCfg, cachedEntries, caller, loaded, mixed, latest, calm>>

JWTVerify(q) ==
    /\ rpc[q] = "verify"
    /\ RequestGoto(q, IF TokenValid(caller[q].token) THEN "passed" ELSE "unauthorized")
    /\ UNCHANGED <<configVars, cachedCfg, cachedEntries, caller, loaded, mixed, latest, calm>>

Decided(q) == rpc[q] \in {"passed", "blocked", "unauthorized"}

Leave(q) ==
    /\ Decided(q) /\ RequestGoto(q, "idle")
    /\ caller' = [caller EXCEPT ![q] = None]
    /\ loaded' = [loaded EXCEPT ![q] = None]
    /\ calm' = calm \ {q}
    /\ UNCHANGED <<configVars, cachedCfg, cachedEntries, mixed, latest>>

RequestStep(q) ==
    \/ Arrive(q) \/ FilterCompare(q) \/ FilterRefresh(q) \/ FilterKeep(q)
    \/ FilterMatch(q) \/ JWTLoad(q) \/ JWTVerify(q) \/ Leave(q)

Next ==
    \/ MainStep
    \/ \E p \in Listeners, v \in Versions : Deliver(p, v)
    \/ \E p \in Listeners : ListenerStep(p)
    \/ \E q \in Requests : RequestStep(q)

Spec == Init /\ [][Next]_vars

-----------------------------------------------------------------------------
(* Types of the state. *)
TypeOK ==
    /\ cached \in Versions \cup {None} /\ delivered \in 0..MaxDeliveries
    /\ pc \in [Stores -> StorePC] /\ version \in [Stores -> Versions \cup {None}]
    /\ holder \in Versions \cup {Default} /\ registered \in BOOLEAN
    /\ rpc \in [Requests -> RequestPC] /\ caller \in [Requests -> Callers \cup {None}]
    /\ loaded \in [Requests -> Versions \cup {Default, None}]
    /\ mixed \in BOOLEAN /\ raced \in BOOLEAN
    /\ latest \in Versions \cup {Default} /\ calm \subseteq Requests

(* Configuration v is in force: held, and in the keys and the strategy. *)
InForce(v) ==
    /\ holder = v
    /\ keys = ParsedKeys(Config(v).jwt.keys)
    /\ strategy = Config(v).balancer

(* When no change is under way, holder, keys and strategy all are those of *)
(* the newest configuration, unless changes overlapped and none has come   *)
(* alone since. Neither the order of Setup's steps nor a version that      *)
(* cannot be parsed breaks this.                                           *)
QuietConfigInForce == (Quiet /\ ~ mixed) => InForce(latest)

(* The same without the exception: an idle gateway has the keys and the    *)
(* strategy of the configuration it holds. The code does not ensure it: a  *)
(* Store between gateway.New's Load and its OnChange updates neither.      *)
KeysFollowConfig ==
    Quiet => /\ keys = ParsedKeys(Config(holder).jwt.keys)
             /\ strategy = Config(holder).balancer

(* The verdict configuration v calls for, stated without caches, key maps  *)
(* or steps: the last key of a kid that fits its algorithm is the one.     *)
SignedBy(v, token) ==
    LET items == Config(v).jwt.keys
        fits(i) == items[i].algorithm # None /\ KeyKind[items[i].publicKey] = items[i].algorithm
    IN  \E i \in DOMAIN items :
            /\ items[i].kid = token.kid /\ fits(i)
            /\ items[i].algorithm = token.alg /\ items[i].publicKey = token.signer
            /\ \A j \in DOMAIN items : j > i /\ items[j].kid = token.kid => ~ fits(j)

Verdict(v, c) ==
    LET filter == Config(v).ipFilter
        listed == \E a \in filter.addresses : Covers[a] # None /\ c.ip \in Covers[a]
        jwt == Config(v).jwt
        refused == \/ filter.mode = "whitelist" /\ ~ listed
                   \/ filter.mode = "blacklist" /\ listed
    IN  IF filter.enabled /\ c.ip # None /\ refused
        THEN "blocked"
        ELSE IF jwt.enabled /\ c.path \notin jwt.skipPaths
                /\ (c.token = None \/ ~ SignedBy(v, c.token))
        THEN "unauthorized" ELSE "passed"

(* A request during which the configuration rested is judged by the newest *)
(* configuration: no retired key, no missing key and no address list of an *)
(* earlier configuration decides (unless requests raced in IPFilter).      *)
CalmRequestsJudged ==
    \A q \in calm : (Decided(q) /\ ~ raced) => rpc[q] = Verdict(latest, caller[q])
=============================================================================
