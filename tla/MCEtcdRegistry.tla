--------------------------- MODULE MCEtcdRegistry ---------------------------
(* Values of the constants of EtcdRegistry for TLC. *)
EXTENDS EtcdRegistry

Configured(id, address, protocol, weight) ==
    [id |-> id, address |-> address, protocol |-> protocol, weight |-> weight]

(* "h1" may come back at another address; "h2" serves two protocols, and   *)
(* leaves the fields that have defaults empty.                             *)
MCOffers ==
    [h \in Hosts |-> IF h = "h1" THEN {<<Configured("n1", "a1", "http", 2)>>, <<Configured("n1", "a2", "http", 2)>>}
                     ELSE {<<Configured(None, "n2", None, 0), Configured("n3", "a3", "grpc", 1)>>}]
=============================================================================
