---------------------------- MODULE ConfigTypes ----------------------------
(***************************************************************************)
(* The vocabulary shared by the modules of the configuration centre        *)
(* (nexus-config): the rows of its two tables, the version a client        *)
(* receives, and the assignment of clients to gray buckets.                *)
(*                                                                         *)
(* Every table, channel and cache of the program is indexed by a           *)
(* (namespace, key) pair and no operation but DeleteNamespace looks at two *)
(* of them, so the modules follow ONE pair.                                *)
(***************************************************************************)
EXTENDS Integers

CONSTANTS
    Admins,        \* requests the Admin API may be serving at one time
    Clients,       \* SDK clients (nexus-config/sdk), one per client_id
    Handlers,      \* server goroutines that serve /config/get and /config/poll
    Values,        \* non-empty configuration texts
    Digests,       \* MD5 sums
    Md5,           \* the MD5 sum of a text; two texts here never collide
    Formats,       \* yaml, json, toml, properties
    Percentages,   \* gray percentages the administrators use
    Bucket,        \* fnv32a(client_id) % 100
    None           \* the empty string, a nil pointer, no row

ASSUME Md5Assumption ==
    /\ Md5 \in [Values -> Digests]
    /\ \A v, w \in Values : Md5[v] = Md5[w] => v = w

ASSUME GrayAssumption ==
    /\ Percentages \subseteq 0..100
    /\ Bucket \in [Clients -> 0..99]

ASSUME NoneAssumption ==
    None \notin Values \cup Digests \cup Formats \cup Clients \cup Handlers

(* A row of config_item; the published columns stay empty until the first  *)
(* publication.                                                            *)
ConfigItem ==
    [id : Nat, format : Formats,
     draftValue : Values, draftMD5 : Digests,
     publishedValue : Values \cup {None}, publishedMD5 : Digests \cup {None}]

(* A row of gray_rule. *)
GrayRule == [id : Nat, percentage : 0..100, enabled : BOOLEAN]

(* What a client receives and caches. *)
ConfigVersion == [value : Values, md5 : Digests, format : Formats]

ASSUME RowAssumption == None \notin ConfigItem \cup GrayRule \cup ConfigVersion

(* Mutant of Published: the query without "published_value != ''". *)
PublishedAnyRow(row) == row # None

(* The query of GetPublishedConfig finds a row only when a value is        *)
(* published.                                                              *)
Published(row) == row # None /\ row.publishedValue # None

(* hitGray: a client is in the gray group of percentage p when its bucket  *)
(* lies below p; with buckets 0..99 the two early returns of the code (p   *)
(* <= 0 and p >= 100) are the two ends of this comparison.                 *)
HitGray(c, p) == Bucket[c] < p

(* A version is intact when its MD5 is the MD5 of its value: clients       *)
(* compare MD5s only, so a version with a foreign MD5 would be skipped or  *)
(* re-delivered for ever.                                                  *)
Intact(version) == version.md5 = Md5[version.value]
=============================================================================
