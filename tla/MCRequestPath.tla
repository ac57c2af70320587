--------------------------- MODULE MCRequestPath ----------------------------
(* Values of the constants of RequestPath for TLC. *)
EXTENDS RequestPath, TLC

(* A limit and a breaker that opens on two failures; another limit without *)
(* a breaker; a breaker that opens on one failure, without a limit.        *)
MCConfigs == {ApplyDynamicDefaults(cfg) : cfg \in {
    [EmptyConfig EXCEPT !.rateLimit = [enabled |-> TRUE, rate |-> 1, burst |-> 1],
                        !.circuit = [enabled |-> TRUE, errorThreshold |-> 100, minRequests |-> 2,
                                     windowSec |-> 1, cooldownSec |-> 1]],
    [EmptyConfig EXCEPT !.rateLimit = [enabled |-> TRUE, rate |-> 1, burst |-> 2]],
    [EmptyConfig EXCEPT !.circuit = [enabled |-> TRUE, errorThreshold |-> 50, minRequests |-> 1,
                                     windowSec |-> 1, cooldownSec |-> 1]]}}

RequestSymmetry == Permutations(Requests)
=============================================================================
