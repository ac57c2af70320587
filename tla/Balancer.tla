------------------------------ MODULE Balancer ------------------------------
(***************************************************************************)
(* The three pickers of registry/balancer: round robin, random, and the    *)
(* smooth weighted round robin of Nginx. A picker is a record. Round robin *)
(* and random read one cell of the slice they are given; the               *)
(* weighted one reads them all, once or twice, and its steps are put       *)
(* together by the module that shares it among requests.                   *)
(***************************************************************************)
EXTENDS Integers, Sequences, Functions

CONSTANT PickCycle  \* BOUND: the round-robin counter is kept modulo PickCycle,
                    \* a common multiple of the lengths of all lists

ASSUME PickCycleAssumption == PickCycle \in Nat \ {0}

(* newPickerFactory, and the constructors; other names mean round robin.   *)
(* torn is history: the slice changed while the nodes were rebuilt.        *)
NewPicker(strategy) ==
    [strategy |-> IF strategy \in {"random", "weighted_round_robin"} THEN strategy
                                                                     ELSE "round_robin",
     counter |-> 0, nodes |-> <<>>, fingerprint |-> <<>>, torn |-> FALSE]

-----------------------------------------------------------------------------
RoundRobin(picker, instances) ==
    [instance |-> instances[(picker.counter % Len(instances)) + 1],
     picker |-> [picker EXCEPT !.counter = (@ + 1) % PickCycle]]

-----------------------------------------------------------------------------
(* A weightedNode; served is history: picks since its last full cycle.     *)
Node(inst) ==
    [instance |-> inst, weight |-> IF inst.weight <= 0 THEN 1 ELSE inst.weight,
     current |-> 0, served |-> 0]

Rebuild(instances) == [i \in DOMAIN instances |-> Node(instances[i])]

(* Mutant of Fingerprint: the IDs alone. *)
FingerprintIDs(instances) == [i \in DOMAIN instances |-> instances[i].id]

Fingerprint(instances) ==
    [i \in DOMAIN instances |-> <<instances[i].id, instances[i].weight>>]

TotalWeight(nodes) == FoldFunction(+, 0, [i \in DOMAIN nodes |-> nodes[i].weight])
TotalServed(nodes) == FoldFunction(+, 0, [i \in DOMAIN nodes |-> nodes[i].served])

(* Mutant of Charge: the best node pays nothing. *)
ChargeNothing(nodes, best) == nodes

(* The best node pays for all the others' gain. *)
Charge(nodes, best) == [nodes EXCEPT ![best].current = @ - TotalWeight(nodes)]

(* Every node gains its weight. *)
Raised(nodes) ==
    LET fresh == TotalServed(nodes) = TotalWeight(nodes) IN
    [i \in DOMAIN nodes |->
        [nodes[i] EXCEPT !.current = @ + nodes[i].weight,
                         !.served = IF fresh THEN 0 ELSE @]]

(* The first of the highest. *)
Best(nodes) ==
    CHOOSE i \in DOMAIN nodes : \A j \in DOMAIN nodes :
        \/ nodes[i].current > nodes[j].current
        \/ nodes[i].current = nodes[j].current /\ i <= j

(* One pick: what it returns is the best node's instance. *)
Turn(nodes) ==
    LET raised == Raised(nodes) best == Best(raised)
    IN  [Charge(raised, best) EXCEPT ![best].served = @ + 1]

-----------------------------------------------------------------------------
IsWeighted(picker) == picker.strategy = "weighted_round_robin"

(* What Pick may return for a list that is not empty, without nodes. *)
Picks(picker, instances) ==
    IF picker.strategy = "random"
    THEN {[instance |-> instances[i], picker |-> picker] : i \in DOMAIN instances}
    ELSE {RoundRobin(picker, instances)}
=============================================================================
