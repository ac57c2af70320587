---------------------------- MODULE ConfigStore ----------------------------
(***************************************************************************)
(* The storage of the configuration centre (storage/sqlite) and the Admin  *)
(* API requests that work on it (admin/handler.go).                        *)
(*                                                                         *)
(* SaveDraft, PublishConfig and SaveGrayRule read a row and then write by  *)
(* the primary key they read, in two statements and without a transaction: *)
(* requests of several administrators interleave between the statements.   *)
(* Each statement is one action; DeleteConfig, DeleteGrayRule and the      *)
(* transaction of DeleteNamespace are one action each.                     *)
(*                                                                         *)
(* The value, format and percentage of a request are chosen where the code *)
(* first uses them, in the writing statement.                              *)
(***************************************************************************)
EXTENDS ConfigTypes

CONSTANTS
    AdminOps,      \* the kinds of request the administrators send
    MaxOps,        \* BOUND: requests sent in a behaviour
    MaxFaults      \* BOUND: storage errors, lost connections and crashes

ASSUME StoreAssumption ==
    /\ AdminOps \subseteq {"save", "publish", "delete", "rule",
                           "deleteRule", "deleteNamespace"}
    /\ MaxOps \in Nat
    /\ MaxFaults \in Nat

VARIABLES
    item,          \* the config_item row of the pair, or None
    grayRule,      \* the gray_rule row of the pair, or None
    nextId,        \* AUTOINCREMENT: ids are never reused (one source for both tables)
    apc,           \* where each Admin API request is
    aread,         \* what it read and still uses
    ops,           \* requests sent so far (bounded by MaxOps)
    faults,        \* faults so far (bounded by MaxFaults)
    saved,         \* history: the (row id, value, format) saved as drafts
    released,      \* history: the values that have been published
    maxGray        \* history: the largest gray percentage enabled so far

rows == <<item, grayRule, nextId>>
storeHistory == <<saved, released, maxGray>>
storeVars == <<rows, apc, aread, ops, faults, storeHistory>>

AdminPC == {"idle", "saving", "publishing", "rereading", "notifying", "sending",
            "savingRule"}

(* What an Admin API request keeps of the row it read; id 0 stands for     *)
(* gorm.ErrRecordNotFound.                                                 *)
Snapshot == [id : Nat, value : Values \cup {None}, md5 : Digests \cup {None},
             format : Formats \cup {None}]

NothingRead == [id |-> 0, value |-> None, md5 |-> None, format |-> None]

StoreInit ==
    /\ item = None /\ grayRule = None /\ nextId = 1
    /\ apc = [a \in Admins |-> "idle"]
    /\ aread = [a \in Admins |-> NothingRead]
    /\ ops = 0 /\ faults = 0
    /\ saved = {} /\ released = {} /\ maxGray = 0

-----------------------------------------------------------------------------
(* Steps of a request. *)

Begin(a, op) ==
    /\ apc[a] = "idle" /\ op \in AdminOps
    /\ ops < MaxOps /\ ops' = ops + 1
    /\ UNCHANGED faults

Goto(a, pc, read) ==
    /\ apc' = [apc EXCEPT ![a] = pc]
    /\ aread' = [aread EXCEPT ![a] = read]

Return(a) == Goto(a, "idle", NothingRead)

Fault == faults < MaxFaults /\ faults' = faults + 1

(* Mutant of RowIs: the statement finds its row by namespace and key. *)
RowIsByKey(row, id) == row # None /\ id # 0

(* "WHERE id = ?": the statement finds the row that was read. *)
RowIs(row, id) == row # None /\ row.id = id

-----------------------------------------------------------------------------
(* SaveDraft: read the row, then create it or update it by its id.         *)

SaveDraftRead(a) ==
    /\ Begin(a, "save")
    /\ Goto(a, "saving",
            [NothingRead EXCEPT !.id = IF item = None THEN 0 ELSE item.id])
    /\ UNCHANGED <<rows, storeHistory>>

(* Mutant of CreateItem: the MD5 column is forgotten. *)
CreateItemNoMD5(a, v, f) ==
    /\ aread[a].id = 0 /\ item = None
    /\ item' = [id |-> nextId, format |-> f, draftValue |-> v, draftMD5 |-> None,
                publishedValue |-> None, publishedMD5 |-> None]
    /\ nextId' = nextId + 1
    /\ saved' = saved \cup {<<nextId, v, f>>}

CreateItem(a, v, f) ==
    /\ aread[a].id = 0 /\ item = None
    /\ item' = [id |-> nextId, format |-> f, draftValue |-> v, draftMD5 |-> Md5[v],
                publishedValue |-> None, publishedMD5 |-> None]
    /\ nextId' = nextId + 1
    /\ saved' = saved \cup {<<nextId, v, f>>}

UpdateDraft(a, v, f) ==
    /\ aread[a].id # 0 /\ RowIs(item, aread[a].id)
    /\ item' = [item EXCEPT !.draftValue = v, !.draftMD5 = Md5[v], !.format = f]
    /\ saved' = saved \cup {<<item.id, v, f>>}
    /\ UNCHANGED nextId

(* The row appeared since the read (the unique index refuses the create)   *)
(* or is gone (the update matches no row and reports no error).            *)
SaveDraftMisses(a) ==
    /\ IF aread[a].id = 0 THEN item # None ELSE ~ RowIs(item, aread[a].id)
    /\ UNCHANGED <<item, nextId, saved>>

SaveDraftWrite(a) ==
    /\ apc[a] = "saving"
    /\ \/ \E v \in Values, f \in Formats : CreateItem(a, v, f) \/ UpdateDraft(a, v, f)
       \/ SaveDraftMisses(a)
    /\ Return(a)
    /\ UNCHANGED <<grayRule, ops, faults, released, maxGray>>

-----------------------------------------------------------------------------
(* PublishConfig: read the row, write the draft that was READ into the     *)
(* published columns, read the row again and notify the pollers.           *)

PublishRead(a) ==
    /\ Begin(a, "publish") /\ item # None
    /\ Goto(a, "publishing", [NothingRead EXCEPT !.id = item.id,
                                                 !.value = item.draftValue,
                                                 !.md5 = item.draftMD5])
    /\ UNCHANGED <<rows, storeHistory>>

(* Mutant of PublishedRow: the MD5 is copied from the current draft. *)
PublishedRowCurrentMD5(a) ==
    [item EXCEPT !.publishedValue = aread[a].value, !.publishedMD5 = item.draftMD5]

PublishedRow(a) ==
    [item EXCEPT !.publishedValue = aread[a].value, !.publishedMD5 = aread[a].md5]

PublishUpdate(a) ==
    /\ apc[a] = "publishing"
    /\ IF RowIs(item, aread[a].id)
       THEN /\ item' = PublishedRow(a)
            /\ released' = released \cup {aread[a].value}
       ELSE UNCHANGED <<item, released>>
    /\ Goto(a, "rereading", NothingRead)
    /\ UNCHANGED <<grayRule, nextId, ops, faults, saved, maxGray>>

(* Without a published row there is nothing to notify; the request still   *)
(* answers "success".                                                      *)
PublishReread(a) ==
    /\ apc[a] = "rereading"
    /\ IF Published(item)
       THEN Goto(a, "notifying", [id |-> item.id, value |-> item.publishedValue,
                                  md5 |-> item.publishedMD5, format |-> item.format])
       ELSE Return(a)
    /\ UNCHANGED <<rows, ops, faults, storeHistory>>

-----------------------------------------------------------------------------
(* Deletions. A deletion that finds no row changes nothing.                *)

DeleteConfig(a) ==
    /\ Begin(a, "delete") /\ item # None
    /\ item' = None
    /\ UNCHANGED <<grayRule, nextId, apc, aread, storeHistory>>

DeleteGrayRule(a) ==
    /\ Begin(a, "deleteRule") /\ grayRule # None
    /\ grayRule' = None
    /\ UNCHANGED <<item, nextId, apc, aread, storeHistory>>

DeleteNamespace(a) ==
    /\ Begin(a, "deleteNamespace") /\ (item # None \/ grayRule # None)
    /\ item' = None /\ grayRule' = None
    /\ UNCHANGED <<nextId, apc, aread, storeHistory>>

-----------------------------------------------------------------------------
(* SaveGrayRule: read the rule, then create it or update it by its id.     *)

SaveGrayRuleRead(a) ==
    /\ Begin(a, "rule")
    /\ Goto(a, "savingRule",
            [NothingRead EXCEPT !.id = IF grayRule = None THEN 0 ELSE grayRule.id])
    /\ UNCHANGED <<rows, storeHistory>>

CreateRule(a, p, e) ==
    /\ aread[a].id = 0 /\ grayRule = None
    /\ grayRule' = [id |-> nextId, percentage |-> p, enabled |-> e]
    /\ nextId' = nextId + 1

UpdateRule(a, p, e) ==
    /\ aread[a].id # 0 /\ RowIs(grayRule, aread[a].id)
    /\ grayRule' = [grayRule EXCEPT !.percentage = p, !.enabled = e]
    /\ UNCHANGED nextId

WriteRule(a, p, e) ==
    /\ CreateRule(a, p, e) \/ UpdateRule(a, p, e)
    /\ maxGray' = IF e /\ p > maxGray THEN p ELSE maxGray

SaveGrayRuleMisses(a) ==
    /\ IF aread[a].id = 0 THEN grayRule # None ELSE ~ RowIs(grayRule, aread[a].id)
    /\ UNCHANGED <<grayRule, nextId, maxGray>>

SaveGrayRuleWrite(a) ==
    /\ apc[a] = "savingRule"
    /\ \/ \E p \in Percentages, e \in BOOLEAN : WriteRule(a, p, e)
       \/ SaveGrayRuleMisses(a)
    /\ Return(a)
    /\ UNCHANGED <<item, ops, faults, saved, released>>

-----------------------------------------------------------------------------
(* A statement fails (SQLite reports a locked database): the request       *)
(* returns without it. After the publishing update the failing statement   *)
(* is the second read, and the pollers are not told.                       *)
StorageError(a) ==
    /\ apc[a] \in {"saving", "publishing", "rereading", "savingRule"}
    /\ Fault /\ Return(a)
    /\ UNCHANGED <<rows, ops, storeHistory>>

(* Notify has returned: it touches nothing of the store. *)
NotifyReturns(a) ==
    /\ apc[a] = "notifying" /\ Return(a)
    /\ UNCHANGED <<rows, ops, faults, storeHistory>>

(* Everything a request does before it notifies. *)
StoreStep(a) ==
    \/ SaveDraftRead(a) \/ SaveDraftWrite(a)
    \/ PublishRead(a) \/ PublishUpdate(a) \/ PublishReread(a)
    \/ DeleteConfig(a) \/ DeleteGrayRule(a) \/ DeleteNamespace(a)
    \/ SaveGrayRuleRead(a) \/ SaveGrayRuleWrite(a)
    \/ StorageError(a)

StoreNext == \E a \in Admins : StoreStep(a) \/ NotifyReturns(a)

StoreSpec == StoreInit /\ [][StoreNext]_storeVars

-----------------------------------------------------------------------------
(* The types of the store's state. *)
StoreTypeOK ==
    /\ item \in ConfigItem \cup {None}
    /\ grayRule \in GrayRule \cup {None}
    /\ nextId \in Nat
    /\ apc \in [Admins -> AdminPC]
    /\ aread \in [Admins -> Snapshot]
    /\ ops \in Nat /\ faults \in Nat
    /\ saved \subseteq Nat \X Values \X Formats
    /\ released \subseteq Values
    /\ maxGray \in 0..100

(* The published pair of columns and the draft pair each hold a value with *)
(* its own MD5, although PublishConfig writes a pair it read before and    *)
(* SaveDraft may have replaced the draft pair in between.                  *)
RowsIntact ==
    item # None =>
        /\ item.draftMD5 = Md5[item.draftValue]
        /\ Published(item) => item.publishedMD5 = Md5[item.publishedValue]

(* What is published was saved as a draft of this very row: a publication  *)
(* that read a row before DeleteConfig never writes into the row created   *)
(* after it (PublishConfig updates by primary key).                        *)
PublishedFromOwnDraft ==
    Published(item) => \E f \in Formats : <<item.id, item.publishedValue, f>> \in saved

(* "Drafts and releases are kept apart": a published value is served in    *)
(* the format it was saved in. The code has one format column for both     *)
(* (SaveDraft overwrites it), so saving a draft in another format changes  *)
(* the format of what is already released.                                 *)
ReleasedFormat ==
    Published(item) => <<item.id, item.publishedValue, item.format>> \in saved
=============================================================================
