-------------------------- MODULE MCGatewayConfig --------------------------
(* Values of the constants of GatewayConfig for TLC. *)
EXTENDS GatewayConfig, TLC

Key(kid, algorithm, publicKey) ==
    [kid |-> kid, algorithm |-> algorithm, publicKey |-> publicKey]

(* "rsa1", "rsa2" and "ed1" are keys, "junk" is not a PEM block. *)
MCKeyKind == ("rsa1" :> "RS256") @@ ("rsa2" :> "RS256") @@ ("ed1" :> "EdDSA") @@ ("junk" :> None)

(* A CIDR block that holds two addresses, an address, and a typo. *)
MCCovers == ("10.0.0.0/8" :> {"ip1", "ip2"}) @@ ("10.0.0.2" :> {"ip2"}) @@ ("1O.0.0.1" :> None)

(* "v1" wants a token everywhere but on open paths; "v2" rotates key k1,  *)
(* with a mistyped entry, and blocks an address; "v3" is not YAML.         *)
MCParsed ==
    [v \in Versions |->
       CASE v = "v1" -> [EmptyConfig EXCEPT
                !.jwt = [enabled |-> TRUE, skipPaths |-> {"open"},
                         keys |-> <<Key("k1", "RS256", "junk"), Key("k1", "RS256", "rsa1")>>],
                !.ipFilter = [enabled |-> TRUE, mode |-> "whitelist",
                              addresses |-> {"10.0.0.0/8"}],
                !.balancer = "weighted_round_robin"]
         [] v = "v2" -> [EmptyConfig EXCEPT
                !.jwt = [enabled |-> TRUE, skipPaths |-> {},
                         keys |-> <<Key("k1", "RS256", "rsa2"), Key("k1", "RS256", "ed1")>>],
                !.ipFilter = [enabled |-> TRUE, mode |-> "blacklist",
                              addresses |-> {"10.0.0.2", "1O.0.0.1"}]]
         [] OTHER -> None]

(* A client with the new key, and one without a token that asks for an    *)
(* open path.                                                              *)
MCCallers ==
    {[ip |-> "ip1", path |-> "api",
      token |-> [kid |-> "k1", alg |-> "RS256", signer |-> "rsa2"]],
     [ip |-> "ip2", path |-> "open", token |-> None]}

(* Listener goroutines are interchangeable, and so are requests. *)
GoroutineSymmetry == Permutations(Listeners) \cup Permutations(Requests)
=============================================================================
