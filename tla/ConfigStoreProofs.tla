------------------------- MODULE ConfigStoreProofs -------------------------
(***************************************************************************)
(* Proofs about ConfigStore, for any number of administrators and requests.*)
(* Each invariant gets a lemma "<name>Step": StoreStep preserves it. The   *)
(* proofs about ConfigCenter use the same lemmas, since a request of the   *)
(* configuration centre takes the same steps.                              *)
(***************************************************************************)
EXTENDS ConfigStore, TLAPS

(* What a request keeps between its statements: a publication carries a    *)
(* value with its MD5, a notification a whole version.                     *)
ReadsTyped ==
    \A a \in Admins :
        /\ apc[a] = "publishing" => aread[a].value \in Values /\ aread[a].md5 \in Digests
        /\ apc[a] \in {"notifying", "sending"} =>
              [value |-> aread[a].value, md5 |-> aread[a].md5, format |-> aread[a].format]
                  \in ConfigVersion

(* The columns are written in pairs. *)
PublishedPair == item # None => (item.publishedValue = None <=> item.publishedMD5 = None)

StoreTypeInv == StoreTypeOK /\ ReadsTyped /\ PublishedPair

(* The actions of a request expanded down to assignments. *)
LEMMA StoreTypeInit == StoreInit => StoreTypeInv
  BY DEF StoreInit, StoreTypeInv, StoreTypeOK, ReadsTyped, PublishedPair, Snapshot,
         NothingRead, AdminPC

(* Moving on or returning keeps the request's locals typed. *)
LEMMA GotoTyped ==
  ASSUME NEW a \in Admins, NEW pc \in AdminPC, NEW read \in Snapshot,
         apc \in [Admins -> AdminPC], aread \in [Admins -> Snapshot], ReadsTyped,
         Goto(a, pc, read),
         pc = "publishing" => read.value \in Values /\ read.md5 \in Digests,
         pc \in {"notifying", "sending"} =>
            [value |-> read.value, md5 |-> read.md5, format |-> read.format] \in ConfigVersion
  PROVE  apc' \in [Admins -> AdminPC] /\ aread' \in [Admins -> Snapshot] /\ ReadsTyped'
  BY DEF Goto, ReadsTyped

LEMMA ReturnTyped ==
  ASSUME NEW a \in Admins, Return(a), ReadsTyped,
         apc \in [Admins -> AdminPC], aread \in [Admins -> Snapshot]
  PROVE  apc' \in [Admins -> AdminPC] /\ aread' \in [Admins -> Snapshot] /\ ReadsTyped'
  <1>1. NothingRead \in Snapshot /\ "idle" \in AdminPC
    BY DEF NothingRead, Snapshot, AdminPC
  <1> QED BY <1>1, GotoTyped DEF Return

LEMMA StoreTypeStep ==
  ASSUME NEW a \in Admins, StoreTypeInv, StoreStep(a)
  PROVE  StoreTypeInv'
  <1> USE DEF StoreTypeInv, StoreTypeOK, rows, storeHistory
  <1>0. None \notin ConfigItem /\ None \notin GrayRule /\ None \notin Values
        /\ None \notin Digests /\ Md5 \in [Values -> Digests]
    BY RowAssumption, NoneAssumption, Md5Assumption
  <1>1. CASE SaveDraftRead(a)
    <2>1. [NothingRead EXCEPT !.id = IF item = None THEN 0 ELSE item.id] \in Snapshot
      BY DEF NothingRead, Snapshot, ConfigItem
    <2>2. apc' \in [Admins -> AdminPC] /\ aread' \in [Admins -> Snapshot] /\ ReadsTyped'
      BY <1>1, <2>1, GotoTyped DEF SaveDraftRead, AdminPC
    <2> QED BY <1>1, <2>2 DEF SaveDraftRead, Begin, PublishedPair
  <1>2. CASE SaveDraftWrite(a)
    <2>1. apc' \in [Admins -> AdminPC] /\ aread' \in [Admins -> Snapshot] /\ ReadsTyped'
      BY <1>2, ReturnTyped DEF SaveDraftWrite
    <2>2. CASE \E v \in Values, f \in Formats : CreateItem(a, v, f)
      <3>1. PICK v \in Values, f \in Formats : CreateItem(a, v, f)
        BY <2>2
      <3>2. item' \in ConfigItem /\ PublishedPair'
        BY <3>1, <1>0 DEF CreateItem, ConfigItem, PublishedPair
      <3> QED BY <1>2, <2>1, <3>1, <3>2 DEF SaveDraftWrite, CreateItem
    <2>3. CASE \E v \in Values, f \in Formats : UpdateDraft(a, v, f)
      <3>1. PICK v \in Values, f \in Formats : UpdateDraft(a, v, f)
        BY <2>3
      <3>2. item' \in ConfigItem /\ PublishedPair'
        BY <3>1, <1>0 DEF UpdateDraft, RowIs, ConfigItem, PublishedPair
      <3>3. item.id \in Nat
        BY <3>1 DEF UpdateDraft, RowIs, ConfigItem
      <3>4. saved' \subseteq Nat \X Values \X Formats /\ nextId' \in Nat
        BY <3>1, <3>3 DEF UpdateDraft
      <3> QED BY <1>2, <2>1, <3>2, <3>4 DEF SaveDraftWrite
    <2>4. CASE SaveDraftMisses(a)
      BY <1>2, <2>1, <2>4 DEF SaveDraftWrite, SaveDraftMisses, PublishedPair
    <2> QED BY <1>2, <2>2, <2>3, <2>4 DEF SaveDraftWrite
  <1>3. CASE PublishRead(a)
    <2> DEFINE read == [NothingRead EXCEPT !.id = item.id, !.value = item.draftValue,
                                           !.md5 = item.draftMD5]
    <2>1. read \in Snapshot /\ read.value \in Values /\ read.md5 \in Digests
      BY <1>3 DEF PublishRead, NothingRead, Snapshot, ConfigItem
    <2>2. apc' \in [Admins -> AdminPC] /\ aread' \in [Admins -> Snapshot] /\ ReadsTyped'
      BY <1>3, <2>1, GotoTyped DEF PublishRead, AdminPC
    <2> QED BY <1>3, <2>2 DEF PublishRead, Begin, PublishedPair
  <1>4. CASE PublishUpdate(a)
    <2>1. NothingRead \in Snapshot
      BY DEF NothingRead, Snapshot
    <2>2. apc' \in [Admins -> AdminPC] /\ aread' \in [Admins -> Snapshot] /\ ReadsTyped'
      BY <1>4, <2>1, GotoTyped DEF PublishUpdate, AdminPC
    <2>3. aread[a].value \in Values /\ aread[a].md5 \in Digests
      BY <1>4 DEF PublishUpdate, ReadsTyped
    <2>4. CASE RowIs(item, aread[a].id)
      <3>1. item' \in ConfigItem /\ PublishedPair'
        BY <1>4, <2>3, <2>4, <1>0
           DEF PublishUpdate, PublishedRow, RowIs, ConfigItem, PublishedPair
      <3> QED BY <1>4, <2>2, <2>3, <2>4, <3>1 DEF PublishUpdate
    <2>5. CASE ~ RowIs(item, aread[a].id)
      BY <1>4, <2>2, <2>5 DEF PublishUpdate, PublishedPair
    <2> QED BY <2>4, <2>5
  <1>5. CASE PublishReread(a)
    <2> DEFINE read == [id |-> item.id, value |-> item.publishedValue,
                        md5 |-> item.publishedMD5, format |-> item.format]
    <2>1. CASE Published(item)
      <3>1. /\ read \in Snapshot
            /\ [value |-> read.value, md5 |-> read.md5, format |-> read.format]
                  \in ConfigVersion
        BY <2>1 DEF Published, Snapshot, ConfigItem, ConfigVersion, PublishedPair
      <3>2. apc' \in [Admins -> AdminPC] /\ aread' \in [Admins -> Snapshot] /\ ReadsTyped'
        BY <1>5, <2>1, <3>1, GotoTyped DEF PublishReread, AdminPC
      <3> QED BY <1>5, <3>2 DEF PublishReread, PublishedPair
    <2>2. CASE ~ Published(item)
      <3>1. apc' \in [Admins -> AdminPC] /\ aread' \in [Admins -> Snapshot] /\ ReadsTyped'
        BY <1>5, <2>2, ReturnTyped DEF PublishReread
      <3> QED BY <1>5, <3>1 DEF PublishReread, PublishedPair
    <2> QED BY <2>1, <2>2
  <1>6. CASE DeleteConfig(a)
    BY <1>6 DEF DeleteConfig, Begin, PublishedPair, ReadsTyped
  <1>7. CASE DeleteGrayRule(a)
    BY <1>7 DEF DeleteGrayRule, Begin, PublishedPair, ReadsTyped
  <1>8. CASE DeleteNamespace(a)
    BY <1>8 DEF DeleteNamespace, Begin, PublishedPair, ReadsTyped
  <1>9. CASE SaveGrayRuleRead(a)
    <2>1. [NothingRead EXCEPT !.id = IF grayRule = None THEN 0 ELSE grayRule.id] \in Snapshot
      BY DEF NothingRead, Snapshot, GrayRule
    <2>2. apc' \in [Admins -> AdminPC] /\ aread' \in [Admins -> Snapshot] /\ ReadsTyped'
      BY <1>9, <2>1, GotoTyped DEF SaveGrayRuleRead, AdminPC
    <2> QED BY <1>9, <2>2 DEF SaveGrayRuleRead, Begin, PublishedPair
  <1>10. CASE SaveGrayRuleWrite(a)
    <2>1. apc' \in [Admins -> AdminPC] /\ aread' \in [Admins -> Snapshot] /\ ReadsTyped'
      BY <1>10, ReturnTyped DEF SaveGrayRuleWrite
    <2>2. CASE \E p \in Percentages, e \in BOOLEAN : WriteRule(a, p, e)
      <3>1. PICK p \in Percentages, e \in BOOLEAN : WriteRule(a, p, e)
        BY <2>2
      <3>2. p \in 0..100
        BY GrayAssumption
      <3>3. grayRule' \in GrayRule /\ nextId' \in Nat
        <4>1. CASE CreateRule(a, p, e)
          BY <3>2, <4>1 DEF CreateRule, GrayRule
        <4>2. CASE UpdateRule(a, p, e)
          BY <3>2, <4>2 DEF UpdateRule, RowIs, GrayRule
        <4> QED BY <3>1, <4>1, <4>2 DEF WriteRule
      <3>4. maxGray' \in 0..100
        BY <3>1, <3>2 DEF WriteRule
      <3> QED BY <1>10, <2>1, <3>3, <3>4 DEF SaveGrayRuleWrite, PublishedPair
    <2>3. CASE SaveGrayRuleMisses(a)
      BY <1>10, <2>1, <2>3 DEF SaveGrayRuleWrite, SaveGrayRuleMisses, PublishedPair
    <2> QED BY <1>10, <2>2, <2>3 DEF SaveGrayRuleWrite
  <1>11. CASE StorageError(a)
    <2>1. apc' \in [Admins -> AdminPC] /\ aread' \in [Admins -> Snapshot] /\ ReadsTyped'
      BY <1>11, ReturnTyped DEF StorageError
    <2> QED BY <1>11, <2>1 DEF StorageError, Fault, PublishedPair
  <1> QED BY <1>1, <1>2, <1>3, <1>4, <1>5, <1>6, <1>7, <1>8, <1>9, <1>10, <1>11
          DEF StoreStep

LEMMA StoreTypeNotifyReturns ==
  ASSUME NEW a \in Admins, StoreTypeInv, NotifyReturns(a)
  PROVE  StoreTypeInv'
  <1>1. apc' \in [Admins -> AdminPC] /\ aread' \in [Admins -> Snapshot] /\ ReadsTyped'
    BY ReturnTyped DEF NotifyReturns, StoreTypeInv, StoreTypeOK
  <1> QED BY <1>1 DEF NotifyReturns, StoreTypeInv, StoreTypeOK, PublishedPair, rows, storeHistory

LEMMA StoreTypeStutter == StoreTypeInv /\ UNCHANGED storeVars => StoreTypeInv'
  BY DEF StoreTypeInv, StoreTypeOK, ReadsTyped, PublishedPair, storeVars, rows, storeHistory

(* The store's state has its types in every behaviour of the Admin API     *)
(* (StoreTypeOK), for any number of administrators, values and requests.   *)
THEOREM StoreTypeCorrect == StoreSpec => []StoreTypeOK
  <1>1. StoreTypeInv /\ [StoreNext]_storeVars => StoreTypeInv'
    BY StoreTypeStep, StoreTypeNotifyReturns, StoreTypeStutter DEF StoreNext
  <1>2. StoreTypeInv => StoreTypeOK
    BY DEF StoreTypeInv
  <1> QED BY StoreTypeInit, <1>1, <1>2, PTL DEF StoreSpec

-----------------------------------------------------------------------------
(* RowsIntact: the pair a publication carries between its read and its     *)
(* update is a value with its own MD5, so the update keeps the columns     *)
(* intact even when the draft has changed in between.                      *)

CarriedIntact ==
    \A a \in Admins : apc[a] = "publishing" => aread[a].md5 = Md5[aread[a].value]

IntactInv == RowsIntact /\ CarriedIntact

LEMMA IntactStep ==
  ASSUME NEW a \in Admins, StoreTypeInv, IntactInv, StoreStep(a)
  PROVE  IntactInv'
  <1> USE DEF IntactInv, RowsIntact, CarriedIntact
  <1>0. /\ apc \in [Admins -> AdminPC] /\ aread \in [Admins -> Snapshot]
        /\ item \in ConfigItem \cup {None}
    BY DEF StoreTypeInv, StoreTypeOK
  <1>1. CASE SaveDraftRead(a)
    BY <1>0, <1>1 DEF SaveDraftRead, Begin, Goto, rows
  <1>2. CASE SaveDraftWrite(a)
    <2>1. CarriedIntact'
      BY <1>0, <1>2 DEF SaveDraftWrite, Return, Goto
    <2>2. CASE \E v \in Values, f \in Formats : CreateItem(a, v, f)
      <3>1. item'.draftMD5 = Md5[item'.draftValue] /\ item'.publishedValue = None
        BY <2>2 DEF CreateItem
      <3> QED BY <2>1, <3>1 DEF Published
    <2>3. CASE \E v \in Values, f \in Formats : UpdateDraft(a, v, f)
      <3>1. PICK v \in Values, f \in Formats : UpdateDraft(a, v, f)
        BY <2>3
      <3>2. /\ item # None /\ item'.draftMD5 = Md5[item'.draftValue]
            /\ item'.publishedValue = item.publishedValue
            /\ item'.publishedMD5 = item.publishedMD5
        BY <1>0, <3>1 DEF UpdateDraft, RowIs, ConfigItem
      <3> QED BY <2>1, <3>2 DEF Published
    <2>4. CASE SaveDraftMisses(a)
      BY <2>1, <2>4 DEF SaveDraftMisses, Published
    <2> QED BY <1>2, <2>2, <2>3, <2>4 DEF SaveDraftWrite
  <1>3. CASE PublishRead(a)
    <2>1. RowsIntact'
      BY <1>3 DEF PublishRead, rows, Published
    <2>2. apc'[a] = "publishing" => aread'[a].md5 = Md5[aread'[a].value]
      BY <1>0, <1>3 DEF PublishRead, Goto, NothingRead
    <2>3. \A b \in Admins \ {a} : apc'[b] = apc[b] /\ aread'[b] = aread[b]
      BY <1>0, <1>3 DEF PublishRead, Goto
    <2> QED BY <2>1, <2>2, <2>3
  <1>4. CASE PublishUpdate(a)
    <2>1. CarriedIntact'
      BY <1>0, <1>4 DEF PublishUpdate, Goto
    <2>2. CASE RowIs(item, aread[a].id)
      <3>1. aread[a].md5 = Md5[aread[a].value]
        BY <1>4 DEF PublishUpdate
      <3>2. /\ item # None
            /\ item'.draftMD5 = item.draftMD5 /\ item'.draftValue = item.draftValue
            /\ item'.publishedValue = aread[a].value /\ item'.publishedMD5 = aread[a].md5
        BY <1>0, <1>4, <2>2 DEF PublishUpdate, PublishedRow, RowIs, ConfigItem
      <3> QED BY <2>1, <3>1, <3>2
    <2>3. CASE ~ RowIs(item, aread[a].id)
      BY <1>4, <2>1, <2>3 DEF PublishUpdate, Published
    <2> QED BY <2>2, <2>3
  <1>5. CASE PublishReread(a)
    BY <1>0, <1>5 DEF PublishReread, Goto, Return, rows, Published
  <1>6. CASE DeleteConfig(a) \/ DeleteGrayRule(a) \/ DeleteNamespace(a)
    BY <1>6 DEF DeleteConfig, DeleteGrayRule, DeleteNamespace, Published
  <1>7. CASE SaveGrayRuleRead(a)
    BY <1>0, <1>7 DEF SaveGrayRuleRead, Goto, rows, Published
  <1>8. CASE SaveGrayRuleWrite(a)
    BY <1>0, <1>8 DEF SaveGrayRuleWrite, Return, Goto, Published
  <1>9. CASE StorageError(a)
    BY <1>0, <1>9 DEF StorageError, Return, Goto, rows, Published
  <1> QED BY <1>1, <1>2, <1>3, <1>4, <1>5, <1>6, <1>7, <1>8, <1>9 DEF StoreStep

LEMMA IntactInit == StoreInit => IntactInv
  BY DEF StoreInit, IntactInv, RowsIntact, CarriedIntact

(* Draft and published columns always hold a value with its own MD5        *)
(* (RowsIntact), however SaveDraft and PublishConfig interleave.           *)
THEOREM StoreRowsIntact == StoreSpec => []RowsIntact
  <1>1. StoreTypeInv /\ IntactInv /\ [StoreNext]_storeVars => (StoreTypeInv /\ IntactInv)'
    <2> SUFFICES ASSUME StoreTypeInv, IntactInv, [StoreNext]_storeVars
                 PROVE  StoreTypeInv' /\ IntactInv'
      OBVIOUS
    <2>1. StoreTypeInv'
      BY StoreTypeStep, StoreTypeNotifyReturns, StoreTypeStutter DEF StoreNext
    <2>2. CASE \E a \in Admins : StoreStep(a)
      BY <2>1, <2>2, IntactStep
    <2>3. CASE \E a \in Admins : NotifyReturns(a)
      BY <2>1, <2>3 DEF IntactInv, RowsIntact, CarriedIntact, NotifyReturns, Return, Goto,
                        rows, Published, StoreTypeInv, StoreTypeOK
    <2>4. CASE UNCHANGED storeVars
      BY <2>1, <2>4 DEF IntactInv, RowsIntact, CarriedIntact, storeVars, rows, Published
    <2> QED BY <2>2, <2>3, <2>4 DEF StoreNext
  <1>2. IntactInv => RowsIntact
    BY DEF IntactInv
  <1> QED BY StoreTypeInit, IntactInit, <1>1, <1>2, PTL DEF StoreSpec

-----------------------------------------------------------------------------
(* PublishedFromOwnDraft: what a publication carries was saved under the   *)
(* id it will update, and saved only grows.                                *)

SavedUnder(id, v) == \E f \in Formats : <<id, v, f>> \in saved

OwnDraftInv ==
    /\ item # None => SavedUnder(item.id, item.draftValue)
    /\ \A a \in Admins : apc[a] = "publishing" => SavedUnder(aread[a].id, aread[a].value)
    /\ PublishedFromOwnDraft

LEMMA OwnDraftStep ==
  ASSUME NEW a \in Admins, StoreTypeInv, OwnDraftInv, StoreStep(a)
  PROVE  OwnDraftInv'
  <1> USE DEF OwnDraftInv, SavedUnder, PublishedFromOwnDraft
  <1>0. /\ apc \in [Admins -> AdminPC] /\ aread \in [Admins -> Snapshot]
        /\ item \in ConfigItem \cup {None}
    BY DEF StoreTypeInv, StoreTypeOK
  <1>1. CASE SaveDraftRead(a)
    BY <1>0, <1>1 DEF SaveDraftRead, Begin, Goto, rows, storeHistory, Published
  <1>2. CASE SaveDraftWrite(a)
    <2>1. saved \subseteq saved'
      BY <1>2 DEF SaveDraftWrite, CreateItem, UpdateDraft, SaveDraftMisses
    <2>2. \A b \in Admins : apc'[b] = "publishing"
                              => apc[b] = "publishing" /\ aread'[b] = aread[b]
      BY <1>0, <1>2 DEF SaveDraftWrite, Return, Goto
    <2>3. CASE \E v \in Values, f \in Formats : CreateItem(a, v, f)
      <3>1. PICK v \in Values, f \in Formats : CreateItem(a, v, f)
        BY <2>3
      <3>2. /\ item'.publishedValue = None
            /\ <<item'.id, item'.draftValue, f>> \in saved'
        BY <3>1 DEF CreateItem
      <3> QED BY <2>1, <2>2, <3>2 DEF Published
    <2>4. CASE \E v \in Values, f \in Formats : UpdateDraft(a, v, f)
      <3>1. PICK v \in Values, f \in Formats : UpdateDraft(a, v, f)
        BY <2>4
      <3>2. /\ item # None /\ item'.id = item.id
            /\ item'.publishedValue = item.publishedValue
            /\ <<item'.id, item'.draftValue, f>> \in saved'
        BY <1>0, <3>1 DEF UpdateDraft, RowIs, ConfigItem
      <3> QED BY <2>1, <2>2, <3>2 DEF Published
    <2>5. CASE SaveDraftMisses(a)
      BY <2>1, <2>2, <2>5 DEF SaveDraftMisses, Published
    <2> QED BY <1>2, <2>3, <2>4, <2>5 DEF SaveDraftWrite
  <1>3. CASE PublishRead(a)
    <2>1. UNCHANGED <<item, saved>>
      BY <1>3 DEF PublishRead, rows, storeHistory
    <2>2. aread'[a].id = item.id /\ aread'[a].value = item.draftValue /\ item # None
      BY <1>0, <1>3 DEF PublishRead, Goto, NothingRead
    <2>3. \A b \in Admins \ {a} : apc'[b] = apc[b] /\ aread'[b] = aread[b]
      BY <1>0, <1>3 DEF PublishRead, Goto
    <2> QED BY <2>1, <2>2, <2>3 DEF Published
  <1>4. CASE PublishUpdate(a)
    <2>1. UNCHANGED saved
      BY <1>4 DEF PublishUpdate
    <2>2. \A b \in Admins : apc'[b] = "publishing"
                              => apc[b] = "publishing" /\ aread'[b] = aread[b]
      BY <1>0, <1>4 DEF PublishUpdate, Goto
    <2>3. CASE RowIs(item, aread[a].id)
      <3>1. /\ item # None /\ item.id = aread[a].id /\ item'.id = item.id
            /\ item'.draftValue = item.draftValue /\ item'.publishedValue = aread[a].value
        BY <1>0, <1>4, <2>3 DEF PublishUpdate, PublishedRow, RowIs, ConfigItem
      <3>2. SavedUnder(aread[a].id, aread[a].value)
        BY <1>4 DEF PublishUpdate
      <3> QED BY <2>1, <2>2, <3>1, <3>2
    <2>4. CASE ~ RowIs(item, aread[a].id)
      BY <1>4, <2>1, <2>2, <2>4 DEF PublishUpdate, Published
    <2> QED BY <2>3, <2>4
  <1>5. CASE PublishReread(a)
    BY <1>0, <1>5 DEF PublishReread, Goto, Return, rows, storeHistory, Published
  <1>6. CASE DeleteConfig(a) \/ DeleteGrayRule(a) \/ DeleteNamespace(a)
    BY <1>6 DEF DeleteConfig, DeleteGrayRule, DeleteNamespace, storeHistory, Published
  <1>7. CASE SaveGrayRuleRead(a)
    BY <1>0, <1>7 DEF SaveGrayRuleRead, Goto, rows, storeHistory, Published
  <1>8. CASE SaveGrayRuleWrite(a)
    BY <1>0, <1>8 DEF SaveGrayRuleWrite, Return, Goto, Published
  <1>9. CASE StorageError(a)
    BY <1>0, <1>9 DEF StorageError, Return, Goto, rows, storeHistory, Published
  <1> QED BY <1>1, <1>2, <1>3, <1>4, <1>5, <1>6, <1>7, <1>8, <1>9 DEF StoreStep

(* What is published was saved as a draft of this very row                 *)
(* (PublishedFromOwnDraft): no publication writes into a row created after *)
(* the one it read was deleted.                                            *)
THEOREM StorePublishedFromOwnDraft == StoreSpec => []PublishedFromOwnDraft
  <1>1. StoreInit => OwnDraftInv
    BY DEF StoreInit, OwnDraftInv, PublishedFromOwnDraft, Published
  <1>2. StoreTypeInv /\ OwnDraftInv /\ [StoreNext]_storeVars
        => (StoreTypeInv /\ OwnDraftInv)'
    <2> SUFFICES ASSUME StoreTypeInv, OwnDraftInv, [StoreNext]_storeVars
                 PROVE  StoreTypeInv' /\ OwnDraftInv'
      OBVIOUS
    <2>1. StoreTypeInv'
      BY StoreTypeStep, StoreTypeNotifyReturns, StoreTypeStutter DEF StoreNext
    <2>2. CASE \E a \in Admins : StoreStep(a)
      BY <2>1, <2>2, OwnDraftStep
    <2>3. CASE \E a \in Admins : NotifyReturns(a)
      BY <2>1, <2>3 DEF OwnDraftInv, SavedUnder, PublishedFromOwnDraft, NotifyReturns, Return,
                        Goto, rows, storeHistory, Published, StoreTypeInv, StoreTypeOK
    <2>4. CASE UNCHANGED storeVars
      BY <2>1, <2>4 DEF OwnDraftInv, SavedUnder, PublishedFromOwnDraft, storeVars, rows,
                        storeHistory, Published
    <2> QED BY <2>2, <2>3, <2>4 DEF StoreNext
  <1>3. OwnDraftInv => PublishedFromOwnDraft
    BY DEF OwnDraftInv
  <1> QED BY StoreTypeInit, <1>1, <1>2, <1>3, PTL DEF StoreSpec
=============================================================================
