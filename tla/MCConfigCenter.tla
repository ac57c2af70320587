--------------------------- MODULE MCConfigCenter ---------------------------
(* Values of the constants of ConfigCenter for TLC. *)
EXTENDS ConfigCenter, Sequences, TLC

(* "v1" has the MD5 "md5v1", and so on. *)
MCDigests == {"md5" \o v : v \in Values}
MCMd5 == [v \in Values |-> "md5" \o v]

(* c1 is in the gray group of every percentage above 10, c2 above 60. *)
MCBucket == [c \in Clients |-> IF c = "c1" THEN 10 ELSE 60]

(* Handler goroutines are interchangeable. *)
HandlerSymmetry == Permutations(Handlers)
=============================================================================
