--------------------------- MODULE MCConfigStore ---------------------------
(* Values of the constants of ConfigStore for TLC. *)
EXTENDS ConfigStore, Sequences, TLC

(* "v1" has the MD5 "md5v1", and so on. *)
MCDigests == {"md5" \o v : v \in Values}
MCMd5 == [v \in Values |-> "md5" \o v]
MCBucket == [c \in Clients |-> 10]

(* The administrators send the same requests. *)
AdminSymmetry == Permutations(Admins)
=============================================================================
