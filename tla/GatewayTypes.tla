---------------------------- MODULE GatewayTypes ----------------------------
(***************************************************************************)
(* The vocabulary of the gateway (nexus-gateway): its error codes and the  *)
(* dynamic configuration (config/config.go) as far as some property tells  *)
(* its fields apart. Thresholds are percentages, times are seconds.        *)
(***************************************************************************)
EXTENDS Integers

CONSTANT None      \* the empty string, a nil pointer, no entry

CodeOK == 0
CodeJWTInvalid == 1001
CodeIPBlocked == 1002
CodeRateLimited == 1003
CodeCircuitOpen == 1004
CodeServiceNotFound == 1005
CodeBackendTimeout == 1006
CodeBackendError == 1007

(* GatewayError: the HTTP status sent with an error code. *)
HttpStatus(code) ==
    CASE code = CodeJWTInvalid -> 401
      [] code = CodeIPBlocked -> 403
      [] code = CodeRateLimited -> 429
      [] code = CodeCircuitOpen -> 503
      [] code = CodeServiceNotFound -> 502
      [] code = CodeBackendTimeout -> 504
      [] code = CodeBackendError -> 502
      [] OTHER -> 500

OrDefault(x, default) == IF x <= 0 THEN default ELSE x

(* ApplyDynamicDefaults. The CORS defaults are left out, like CORS itself. *)
ApplyDynamicDefaults(cfg) ==
    [cfg EXCEPT !.rateLimit.rate = OrDefault(@, 1000),
                !.rateLimit.burst = OrDefault(@, 2000),
                !.circuit.errorThreshold = OrDefault(@, 50),
                !.circuit.minRequests = OrDefault(@, 20),
                !.circuit.windowSec = OrDefault(@, 30),
                !.circuit.cooldownSec = OrDefault(@, 15),
                !.balancer = IF @ = None THEN "round_robin" ELSE @]

(* The empty configuration NewDynamicConfigHolder starts from. *)
EmptyConfig ==
    [jwt |-> [enabled |-> FALSE, keys |-> <<>>, skipPaths |-> {}],
     ipFilter |-> [enabled |-> FALSE, mode |-> None, addresses |-> {}],
     rateLimit |-> [enabled |-> FALSE, rate |-> 0, burst |-> 0],
     circuit |-> [enabled |-> FALSE, errorThreshold |-> 0, minRequests |-> 0,
                  windowSec |-> 0, cooldownSec |-> 0],
     balancer |-> None]

DefaultConfig == ApplyDynamicDefaults(EmptyConfig)
=============================================================================
