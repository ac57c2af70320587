------------------------ MODULE ConfigDeliveryProofs ------------------------
(***************************************************************************)
(* What clients receive: proofs of CachesIntact and DraftsStayPrivate, of  *)
(* the refinement, and of SubscribedIsWoken and FreshAnswer. A version     *)
(* travels from the store's row through a handler's local row or a         *)
(* notification into a reply and then the cache; one predicate, Good, says *)
(* what holds of it at every place, and DeliveryInv that it does.          *)
(***************************************************************************)
EXTENDS ConfigCenterProofs

(* A version fit for every client (what notifications carry), and a        *)
(* version fit for client c (what replies and caches hold).                *)
GoodForAll(version) == Intact(version) /\ version.value \in released

GoodFor(c, version) ==
    Intact(version) /\ (version.value \in released \/ HitGray(c, maxGray))

(* A row fit to be served: both pairs of columns intact, and its published *)
(* value released.                                                         *)
GoodRow(row) ==
    /\ row.draftMD5 = Md5[row.draftValue]
    /\ Published(row) => /\ row.publishedMD5 = Md5[row.publishedValue]
                         /\ row.publishedValue \in released

(* maxGray bounds every rule that is enabled now. *)
RuleBounded ==
    grayRule # None => (grayRule.enabled => grayRule.percentage <= maxGray)

NotificationsGood ==
    \A a \in Admins : apc[a] \in {"notifying", "sending"} => GoodForAll(NotifiedVersion(a))

ChannelsGood == \A h \in Handlers : chan[h] # None => GoodForAll(chan[h])

HandlersGood ==
    \A h \in Handlers : /\ hitem[h] # None => GoodRow(hitem[h])
                        /\ hver[h] # None => GoodForAll(hver[h])

ClientsGood ==
    \A c \in Clients :
        /\ cache[c] # None => GoodFor(c, cache[c])
        /\ reply[c] # None /\ reply[c].changed => GoodFor(c, reply[c].version)

StoreGood == (item # None => GoodRow(item)) /\ CarriedIntact /\ RuleBounded

DeliveryInv ==
    StoreGood /\ NotificationsGood /\ ChannelsGood /\ HandlersGood /\ ClientsGood

LEMMA DeliveryImplies == DeliveryInv => CachesIntact /\ DraftsStayPrivate
  BY DEF DeliveryInv, ClientsGood, GoodFor, CachesIntact, DraftsStayPrivate

LEMMA DeliveryInit == Init => DeliveryInv
  BY DEF Init, StoreInit, NotifierInit, DeliveryInv, StoreGood, CarriedIntact, RuleBounded,
         NotificationsGood, ChannelsGood, HandlersGood, ClientsGood

-----------------------------------------------------------------------------
(* The histories only grow, so what was good stays good. *)
HistoryGrows == released \subseteq released' /\ maxGray \in 0..100 /\ maxGray' \in 0..100
                /\ maxGray <= maxGray'

LEMMA HitGrayMonotone ==
  ASSUME NEW c \in Clients, NEW p \in 0..100, NEW q \in 0..100, p <= q, HitGray(c, p)
  PROVE  HitGray(c, q)
  <1>1. Bucket[c] \in 0..99
    BY GrayAssumption
  <1> QED BY <1>1 DEF HitGray

LEMMA GoodStays ==
  ASSUME HistoryGrows
  PROVE  /\ \A version : GoodForAll(version) => GoodForAll(version)'
         /\ \A c \in Clients : \A version : GoodFor(c, version) => GoodFor(c, version)'
         /\ \A row : GoodRow(row) => GoodRow(row)'
  BY HitGrayMonotone DEF HistoryGrows, GoodForAll, GoodFor, GoodRow, Intact, Published

LEMMA HistoryStutter ==
  ASSUME StoreTypeInv, UNCHANGED <<released, maxGray>>
  PROVE  HistoryGrows
  BY DEF StoreTypeInv, StoreTypeOK, HistoryGrows

-----------------------------------------------------------------------------
(* Admin API requests. *)

LEMMA StoreGoodParts ==
    StoreGood <=> /\ IntactInv /\ RuleBounded
                  /\ Published(item) => item.publishedValue \in released
  BY DEF StoreGood, GoodRow, IntactInv, RowsIntact, Published

LEMMA HistoryStep ==
  ASSUME NEW a \in Admins, StoreTypeInv, StoreStep(a)
  PROVE  HistoryGrows
  <1>1. StoreTypeInv'
    BY StoreTypeStep
  <1>2. maxGray \in 0..100 /\ maxGray' \in 0..100
    BY <1>1 DEF StoreTypeInv, StoreTypeOK
  <1>3. released \subseteq released'
    BY DEF StoreStep, SaveDraftRead, SaveDraftWrite, PublishRead, PublishUpdate,
           PublishReread, DeleteConfig, DeleteGrayRule, DeleteNamespace, SaveGrayRuleRead,
           SaveGrayRuleWrite, StorageError, storeHistory
  <1>4. CASE \E p \in Percentages, e \in BOOLEAN : WriteRule(a, p, e)
    <2>1. PICK p \in Percentages, e \in BOOLEAN : WriteRule(a, p, e)
      BY <1>4
    <2>2. maxGray' = IF e /\ p > maxGray THEN p ELSE maxGray
      BY <2>1 DEF WriteRule
    <2>3. p \in 0..100
      BY GrayAssumption
    <2> QED BY <1>2, <1>3, <2>2, <2>3 DEF HistoryGrows
  <1>5. CASE ~ \E p \in Percentages, e \in BOOLEAN : WriteRule(a, p, e)
    <2>1. UNCHANGED maxGray
      BY <1>5 DEF StoreStep, SaveDraftRead, SaveDraftWrite, PublishRead, PublishUpdate,
           PublishReread, DeleteConfig, DeleteGrayRule, DeleteNamespace, SaveGrayRuleRead,
           SaveGrayRuleWrite, SaveGrayRuleMisses, StorageError, storeHistory
    <2> QED BY <1>2, <1>3, <2>1 DEF HistoryGrows
  <1> QED BY <1>4, <1>5

(* What is published has been released. *)
LEMMA ReleasedStep ==
  ASSUME NEW a \in Admins, StoreTypeInv, StoreStep(a),
         Published(item) => item.publishedValue \in released
  PROVE  Published(item)' => item'.publishedValue \in released'
  <1>0. item \in ConfigItem \cup {None} /\ released \subseteq released'
    BY HistoryStep DEF StoreTypeInv, StoreTypeOK, HistoryGrows
  <1>1. CASE SaveDraftWrite(a)
    <2>1. CASE \E v \in Values, f \in Formats : CreateItem(a, v, f)
      BY <2>1 DEF CreateItem, Published
    <2>2. CASE \E v \in Values, f \in Formats : UpdateDraft(a, v, f)
      <3>1. item # None /\ item'.publishedValue = item.publishedValue
        BY <1>0, <2>2 DEF UpdateDraft, RowIs, ConfigItem
      <3> QED BY <1>0, <3>1 DEF Published
    <2>3. CASE SaveDraftMisses(a)
      BY <1>0, <2>3 DEF SaveDraftMisses, Published
    <2> QED BY <1>1, <2>1, <2>2, <2>3 DEF SaveDraftWrite
  <1>2. CASE PublishUpdate(a)
    <2>1. CASE RowIs(item, aread[a].id)
      <3>1. /\ item'.publishedValue = aread[a].value
            /\ released' = released \cup {aread[a].value}
        BY <1>0, <1>2, <2>1 DEF PublishUpdate, PublishedRow, RowIs, ConfigItem
      <3> QED BY <3>1
    <2>2. CASE ~ RowIs(item, aread[a].id)
      BY <1>2, <2>2 DEF PublishUpdate, Published
    <2> QED BY <2>1, <2>2
  <1>3. CASE DeleteConfig(a) \/ DeleteNamespace(a)
    BY <1>3 DEF DeleteConfig, DeleteNamespace, Published
  <1>4. CASE \/ SaveDraftRead(a) \/ PublishRead(a) \/ PublishReread(a) \/ DeleteGrayRule(a)
             \/ SaveGrayRuleRead(a) \/ SaveGrayRuleWrite(a) \/ StorageError(a)
    <2>1. UNCHANGED item
      BY <1>4 DEF SaveDraftRead, PublishRead, PublishReread, DeleteGrayRule, SaveGrayRuleRead,
                  SaveGrayRuleWrite, StorageError, rows
    <2> QED BY <1>0, <2>1 DEF Published
  <1> QED BY <1>1, <1>2, <1>3, <1>4 DEF StoreStep

LEMMA RuleBoundedStep ==
  ASSUME NEW a \in Admins, StoreTypeInv, StoreStep(a), RuleBounded
  PROVE  RuleBounded'
  <1>0. grayRule \in GrayRule \cup {None} /\ maxGray \in 0..100
    BY DEF StoreTypeInv, StoreTypeOK
  <1>1. CASE \E p \in Percentages, e \in BOOLEAN : WriteRule(a, p, e)
    <2>1. PICK p \in Percentages, e \in BOOLEAN : WriteRule(a, p, e)
      BY <1>1
    <2>2. p \in 0..100 /\ maxGray' = IF e /\ p > maxGray THEN p ELSE maxGray
      BY <2>1, GrayAssumption DEF WriteRule
    <2>3. grayRule'.enabled = e /\ grayRule'.percentage = p
      <3>1. CASE CreateRule(a, p, e)
        BY <3>1 DEF CreateRule
      <3>2. CASE UpdateRule(a, p, e)
        BY <1>0, <3>2 DEF UpdateRule, RowIs, GrayRule
      <3> QED BY <2>1, <3>1, <3>2 DEF WriteRule
    <2> QED BY <1>0, <2>2, <2>3 DEF RuleBounded
  <1>2. CASE DeleteGrayRule(a) \/ DeleteNamespace(a)
    BY <1>2 DEF DeleteGrayRule, DeleteNamespace, RuleBounded
  <1>3. CASE ~ ((\E p \in Percentages, e \in BOOLEAN : WriteRule(a, p, e))
               \/ DeleteGrayRule(a) \/ DeleteNamespace(a))
    <2>1. UNCHANGED <<grayRule, maxGray>>
      BY <1>3 DEF StoreStep, SaveDraftRead, SaveDraftWrite, PublishRead, PublishUpdate,
           PublishReread, DeleteConfig, SaveGrayRuleRead, SaveGrayRuleWrite,
           SaveGrayRuleMisses, StorageError, rows, storeHistory
    <2> QED BY <2>1 DEF RuleBounded
  <1> QED BY <1>1, <1>2, <1>3

(* A publication that goes on to notify carries the published row. *)
LEMMA NotificationsStep ==
  ASSUME NEW a \in Admins, StoreTypeInv, StoreStep(a), StoreGood, NotificationsGood
  PROVE  NotificationsGood'
  <1>0. HistoryGrows /\ apc \in [Admins -> AdminPC] /\ aread \in [Admins -> Snapshot]
    BY HistoryStep DEF StoreTypeInv, StoreTypeOK
  <1>1. CASE PublishReread(a) /\ Published(item)
    <2>1. UNCHANGED <<item, released>>
      BY <1>1 DEF PublishReread, rows, storeHistory
    <2>2. aread'[a].value = item.publishedValue /\ aread'[a].md5 = item.publishedMD5
      BY <1>0, <1>1 DEF PublishReread, Goto
    <2>3. GoodForAll(NotifiedVersion(a))'
      BY <1>1, <2>1, <2>2 DEF StoreGood, GoodRow, GoodForAll, Intact, NotifiedVersion, Published
    <2>4. \A b \in Admins \ {a} : apc'[b] = apc[b] /\ aread'[b] = aread[b]
      BY <1>0, <1>1 DEF PublishReread, Goto
    <2>5. \A b \in Admins \ {a} : apc'[b] \in {"notifying", "sending"}
                                  => GoodForAll(NotifiedVersion(b))'
      BY <1>0, <2>4, GoodStays DEF NotificationsGood, NotifiedVersion, GoodForAll, Intact,
                                   HistoryGrows
    <2> QED BY <2>3, <2>5 DEF NotificationsGood
  <1>2. CASE ~ (PublishReread(a) /\ Published(item))
    <2>1. \A b \in Admins : apc'[b] \in {"notifying", "sending"}
                              => apc[b] \in {"notifying", "sending"} /\ aread'[b] = aread[b]
      <3>1. CASE SaveDraftRead(a) \/ PublishRead(a) \/ SaveGrayRuleRead(a)
        BY <1>0, <3>1 DEF SaveDraftRead, PublishRead, SaveGrayRuleRead, Goto
      <3>2. CASE DeleteConfig(a) \/ DeleteGrayRule(a) \/ DeleteNamespace(a)
        BY <3>2 DEF DeleteConfig, DeleteGrayRule, DeleteNamespace
      <3>3. CASE SaveDraftWrite(a) \/ PublishUpdate(a) \/ SaveGrayRuleWrite(a)
                 \/ StorageError(a) \/ PublishReread(a)
        BY <1>0, <1>2, <3>3 DEF SaveDraftWrite, PublishUpdate, SaveGrayRuleWrite, StorageError,
                                PublishReread, Return, Goto
      <3> QED BY <3>1, <3>2, <3>3 DEF StoreStep
    <2> QED BY <1>0, <2>1 DEF NotificationsGood, NotifiedVersion, GoodForAll, Intact,
                              HistoryGrows
  <1> QED BY <1>1, <1>2

LEMMA DeliveryFrame ==
  ASSUME HistoryGrows, ChannelsGood, HandlersGood, ClientsGood,
         UNCHANGED <<chan, hitem, hver, cache, reply>>
  PROVE  ChannelsGood' /\ HandlersGood' /\ ClientsGood'
  <1>1. ChannelsGood'
    BY DEF ChannelsGood, GoodForAll, Intact, HistoryGrows
  <1>2. HandlersGood'
    BY DEF HandlersGood, GoodForAll, GoodRow, Published, Intact, HistoryGrows
  <1>3. ClientsGood'
    BY HitGrayMonotone DEF ClientsGood, GoodFor, Intact, HistoryGrows
  <1> QED BY <1>1, <1>2, <1>3

LEMMA DeliveryAdmin ==
  ASSUME NEW a \in Admins, TypeInv, DeliveryInv,
         AdminStep(a) \/ Notify(a) \/ Send(a) \/ NotifyDone(a)
  PROVE  DeliveryInv'
  <1>0. /\ StoreTypeInv /\ StoreGood /\ NotificationsGood
        /\ ChannelsGood /\ HandlersGood /\ ClientsGood
        /\ apc \in [Admins -> AdminPC] /\ aread \in [Admins -> Snapshot]
        /\ chan \in [Handlers -> ConfigVersion \cup {None}]
    BY DEF TypeInv, StoreTypeInv, StoreTypeOK, NotifierTypeOK, DeliveryInv
  <1>1. CASE AdminStep(a)
    <2>1. StoreStep(a)
      BY <1>1 DEF AdminStep
    <2>2. HistoryGrows
      BY <1>0, <2>1, HistoryStep
    <2>3. StoreGood'
      <3>1. IntactInv' /\ RuleBounded'
        BY <1>0, <2>1, IntactStep, RuleBoundedStep, StoreGoodParts
      <3>2. Published(item)' => item'.publishedValue \in released'
        BY <1>0, <2>1, ReleasedStep, StoreGoodParts
      <3> QED BY <3>1, <3>2 DEF StoreGood, GoodRow, IntactInv, RowsIntact, Published
    <2>4. NotificationsGood'
      BY <1>0, <2>1, NotificationsStep
    <2>5. UNCHANGED <<chan, hitem, hver, cache, reply>>
      BY <1>1 DEF AdminStep, notifierVars, clientVars
    <2>6. ChannelsGood' /\ HandlersGood' /\ ClientsGood'
      BY <1>0, <2>2, <2>5, DeliveryFrame
    <2> QED BY <2>3, <2>4, <2>6 DEF DeliveryInv
  <1>2. CASE ~ AdminStep(a)
    <2>1. UNCHANGED <<item, grayRule, released, maxGray, hitem, hver, cache, reply>>
      BY <1>2 DEF Notify, Send, NotifyDone, storeVars, rows, storeHistory, handlerVars,
                  clientVars
    <2>2. HistoryGrows
      BY <1>0, <2>1, HistoryStutter
    <2>3. \A b \in Admins :
             /\ apc'[b] = "publishing" => apc[b] = "publishing" /\ aread'[b] = aread[b]
             /\ apc'[b] \in {"notifying", "sending"} =>
                   apc[b] \in {"notifying", "sending"} /\ aread'[b] = aread[b]
      BY <1>0, <1>2 DEF Notify, Send, NotifyDone, storeVars, Goto, Return
    <2>4. StoreGood'
      BY <1>0, <2>1, <2>3 DEF StoreGood, GoodRow, Published, CarriedIntact, RuleBounded
    <2>5. NotificationsGood'
      BY <1>0, <2>1, <2>3 DEF NotificationsGood, NotifiedVersion, GoodForAll, Intact
    <2>6. ChannelsGood'
      <3>1. CASE Send(a)
        <4>1. PICK h \in todo[a] : NotifySend(a, h, NotifiedVersion(a))
          BY <3>1 DEF Send
        <4>2. GoodForAll(NotifiedVersion(a))
          BY <1>0, <3>1 DEF Send, NotificationsGood
        <4>3. \A k \in Handlers : chan'[k] = chan[k] \/ chan'[k] = NotifiedVersion(a)
          BY <1>0, <4>1 DEF NotifySend
        <4> QED BY <1>0, <2>1, <4>2, <4>3 DEF ChannelsGood, GoodForAll, Intact
      <3>2. CASE ~ Send(a)
        <4>1. UNCHANGED chan
          BY <1>2, <3>2 DEF Notify, NotifyDone, NotifyBegin, NotifyEnd
        <4> QED BY <1>0, <2>1, <4>1 DEF ChannelsGood, GoodForAll, Intact
      <3> QED BY <3>1, <3>2
    <2>7. HandlersGood' /\ ClientsGood'
      BY <1>0, <2>1 DEF HandlersGood, ClientsGood, GoodForAll, GoodFor, GoodRow, Intact,
                        Published, HitGray
    <2> QED BY <2>4, <2>5, <2>6, <2>7 DEF DeliveryInv
  <1> QED BY <1>1, <1>2

-----------------------------------------------------------------------------
(* Handlers. *)

(* calculateVersion turns a good row into a version good for its client: a *)
(* draft only through a rule that is enabled and covers the client.        *)
LEMMA CalculateVersionGood ==
  ASSUME TypeInv, StoreGood, NEW c \in Clients, NEW row \in ConfigItem, GoodRow(row),
         row.publishedValue \in Values, NEW rule \in {grayRule, None}
  PROVE  GoodFor(c, CalculateVersion(row, c, rule))
  <1>0. /\ row # None /\ row.publishedValue # None
        /\ grayRule \in GrayRule \cup {None} /\ maxGray \in 0..100
    BY NoneFacts DEF TypeInv, StoreTypeInv, StoreTypeOK
  <1>1. CASE GrayApplies(c, rule)
    <2>1. rule = grayRule /\ rule # None /\ rule.enabled /\ HitGray(c, rule.percentage)
      BY <1>1 DEF GrayApplies
    <2>2. rule.percentage \in 0..100 /\ rule.percentage <= maxGray
      BY <1>0, <2>1 DEF GrayRule, StoreGood, RuleBounded
    <2>3. HitGray(c, maxGray)
      BY <1>0, <2>1, <2>2, HitGrayMonotone
    <2> QED BY <1>1, <2>3 DEF CalculateVersion, GoodFor, GoodRow, Intact
  <1>2. CASE ~ GrayApplies(c, rule)
    BY <1>0, <1>2 DEF CalculateVersion, GoodFor, GoodRow, Intact, Published
  <1> QED BY <1>1, <1>2

LEMMA AnswerGood ==
  ASSUME NEW h \in Handlers, NEW r \in Reply, TypeInv, HandlersGood, ClientsGood,
         hreq[h].client \in Clients, r.changed => GoodFor(hreq[h].client, r.version),
         UNCHANGED <<released, maxGray>>, Answer(h, r)
  PROVE  HandlersGood' /\ ClientsGood'
  <1>0. /\ hitem \in [Handlers -> ConfigItem \cup {None}]
        /\ hver \in [Handlers -> ConfigVersion \cup {None}]
        /\ reply \in [Clients -> Reply \cup {None}]
    BY DEF TypeInv, HandlerTypeInv, ClientTypeInv
  <1>1. HandlersGood'
    <2>1. \A k \in Handlers : hitem'[k] \in {hitem[k], None} /\ hver'[k] \in {hver[k], None}
      BY <1>0 DEF Answer
    <2> QED BY <2>1 DEF HandlersGood, GoodForAll, GoodRow, Intact, Published
  <1>2. ClientsGood'
    <2>1. \A c \in Clients : reply'[c] = reply[c]
                              \/ (c = hreq[h].client /\ reply'[c] = r)
      BY <1>0 DEF Answer
    <2>2. UNCHANGED cache
      BY DEF Answer
    <2> QED BY <2>1, <2>2 DEF ClientsGood, GoodFor, Intact, HitGray
  <1> QED BY <1>1, <1>2

(* A handler's step leaves the rows alone. *)
LEMMA StoreGoodKept ==
  ASSUME StoreGood, NotificationsGood,
         UNCHANGED <<item, grayRule, apc, aread, released, maxGray>>
  PROVE  StoreGood' /\ NotificationsGood'
  BY DEF StoreGood, GoodRow, Published, CarriedIntact, RuleBounded, NotificationsGood,
         NotifiedVersion, GoodForAll, Intact

LEMMA DeliveryHandler ==
  ASSUME NEW h \in Handlers, TypeInv, DeliveryInv, HandlerStep(h)
  PROVE  DeliveryInv'
  <1>0. /\ StoreGood /\ NotificationsGood /\ ChannelsGood /\ HandlersGood /\ ClientsGood
        /\ HandlerLocals(h)
        /\ hitem \in [Handlers -> ConfigItem \cup {None}]
        /\ hver \in [Handlers -> ConfigVersion \cup {None}]
        /\ chan \in [Handlers -> ConfigVersion \cup {None}]
    BY DEF TypeInv, HandlerTypeInv, NotifierTypeOK, DeliveryInv
  <1>1. UNCHANGED <<item, grayRule, apc, aread, released, maxGray>>
    BY DEF HandlerStep, GetItem, GetMissing, GetAnswer, PollItem, PollMissing, PollCompare,
           WaitBegin, Wake, Expire, AnswerExpired, WaitEnd, RereadItem, RereadMissing,
           RereadAnswer, ItemRead, ItemMissing, RuleRead, rows, storeHistory, storeVars
  <1>2. StoreGood' /\ NotificationsGood'
    BY <1>0, <1>1, StoreGoodKept
  <1>3. ChannelsGood'
    <2>1. \A k \in Handlers : chan'[k] \in {chan[k], None}
      BY <1>0 DEF HandlerStep, GetItem, GetMissing, GetAnswer, PollItem, PollMissing,
             PollCompare, WaitBegin, Wake, Expire, AnswerExpired, WaitEnd, RereadItem,
             RereadMissing, RereadAnswer, ItemRead, notifierVars, Subscribe, Unsubscribe,
             Receive
    <2> QED BY <1>0, <1>1, <2>1 DEF ChannelsGood, GoodForAll, Intact
  <1>4. CASE GetItem(h) \/ PollItem(h) \/ RereadItem(h)
    <2>1. \A k \in Handlers : hitem'[k] = hitem[k] \/ (hitem'[k] = item /\ Published(item))
      BY <1>0, <1>4 DEF GetItem, PollItem, RereadItem, ItemRead
    <2>2. UNCHANGED <<hver, cache, reply>>
      BY <1>4 DEF GetItem, PollItem, RereadItem, ItemRead, clientVars
    <2>3. HandlersGood'
      BY <1>0, <1>1, <2>1, <2>2
         DEF HandlersGood, StoreGood, GoodForAll, GoodRow, Intact, Published
    <2>4. ClientsGood'
      BY <1>0, <1>1, <2>2 DEF ClientsGood, GoodFor, Intact, HitGray
    <2> QED BY <1>2, <1>3, <2>3, <2>4 DEF DeliveryInv
  <1>5. CASE GetMissing(h) \/ PollMissing(h) \/ AnswerExpired(h)
    <2>1. Answer(h, Unchanged) /\ hreq[h].client \in Clients
      BY <1>0, <1>5 DEF GetMissing, PollMissing, AnswerExpired, HandlerLocals
    <2>2. HandlersGood' /\ ClientsGood'
      BY <1>0, <1>1, <2>1, UnchangedTyped, AnswerGood
    <2> QED BY <1>2, <1>3, <2>2 DEF DeliveryInv
  <1>6. CASE \E rule \in {grayRule, None} :
               /\ hpc[h] \in {"getRule", "pollRule", "rereadRule"}
               /\ Answer(h, Changed(CalculateVersion(hitem[h], hreq[h].client, rule)))
    <2> DEFINE version(rule) == CalculateVersion(hitem[h], hreq[h].client, rule)
    <2>1. PICK rule \in {grayRule, None} : Answer(h, Changed(version(rule)))
      BY <1>6
    <2>2. /\ hreq[h].client \in Clients /\ hitem[h] \in ConfigItem
          /\ hitem[h].publishedValue \in Values /\ hitem[h].publishedMD5 \in Digests
      BY <1>0, <1>6 DEF HandlerLocals
    <2>3. GoodRow(hitem[h])
      BY <1>0, <2>2, NoneFacts DEF HandlersGood
    <2>4. GoodFor(hreq[h].client, version(rule)) /\ version(rule) \in ConfigVersion
      BY <1>0, <2>2, <2>3, CalculateVersionGood, CalculateVersionTyped
    <2>5. HandlersGood' /\ ClientsGood'
      BY <1>0, <1>1, <2>1, <2>2, <2>4, ChangedTyped, AnswerGood
    <2> QED BY <1>2, <1>3, <2>5 DEF DeliveryInv
  <1>7. CASE RereadMissing(h)
    <2>1. /\ Answer(h, Changed(hver[h])) /\ hreq[h].client \in Clients
          /\ hver[h] \in ConfigVersion
      BY <1>0, <1>7 DEF RereadMissing, HandlerLocals
    <2>2. GoodFor(hreq[h].client, hver[h])
      BY <1>0, <2>1, NoneFacts DEF HandlersGood, GoodForAll, GoodFor
    <2>3. HandlersGood' /\ ClientsGood'
      BY <1>0, <1>1, <2>1, <2>2, ChangedTyped, AnswerGood
    <2> QED BY <1>2, <1>3, <2>3 DEF DeliveryInv
  <1>8. CASE \/ WaitBegin(h) \/ Wake(h) \/ Expire(h) \/ WaitEnd(h)
             \/ hpc' = [hpc EXCEPT ![h] = "subscribing"]
                /\ hitem' = [hitem EXCEPT ![h] = None] /\ UNCHANGED <<hver, clientVars>>
    <2>1. UNCHANGED <<cache, reply>> /\ \A k \in Handlers : hitem'[k] \in {hitem[k], None}
      BY <1>0, <1>8 DEF WaitBegin, Wake, Expire, WaitEnd, clientVars
    <2>2. \A k \in Handlers : hver'[k] = hver[k] \/ (hver'[k] = chan[k] /\ chan[k] # None)
      BY <1>0, <1>8 DEF WaitBegin, Wake, Receive, Expire, WaitEnd
    <2>3. HandlersGood'
      BY <1>0, <1>1, <2>1, <2>2
         DEF HandlersGood, ChannelsGood, GoodForAll, GoodRow, Intact, Published
    <2>4. ClientsGood'
      BY <1>0, <1>1, <2>1 DEF ClientsGood, GoodFor, Intact, HitGray
    <2> QED BY <1>2, <1>3, <2>3, <2>4 DEF DeliveryInv
  <1>9. CASE GetAnswer(h) \/ RereadAnswer(h)
    BY <1>6, <1>9 DEF GetAnswer, RereadAnswer
  <1>10. CASE PollCompare(h)
    BY <1>6, <1>8, <1>10 DEF PollCompare
  <1> QED BY <1>4, <1>5, <1>7, <1>8, <1>9, <1>10 DEF HandlerStep

-----------------------------------------------------------------------------
(* Clients and faults. *)

LEMMA DeliveryClient ==
  ASSUME NEW c \in Clients, TypeInv, DeliveryInv,
         Start(c) \/ ClientLoop(c) \/ Stop(c) \/ LoseConnection(c)
         \/ \E version \in ConfigVersion : RunListener(c, version)
  PROVE  DeliveryInv'
  <1>0. /\ StoreGood /\ NotificationsGood /\ ChannelsGood /\ HandlersGood /\ ClientsGood
        /\ reply \in [Clients -> Reply \cup {None}]
        /\ cache \in [Clients -> ConfigVersion \cup {None}]
    BY DEF TypeInv, ClientTypeInv, DeliveryInv
  <1>1. UNCHANGED <<item, grayRule, apc, aread, released, maxGray, chan, hitem, hver>>
    BY DEF Start, ClientLoop, FetchReply, Poll, PollReply, RequestError, LoopExit, Stop,
           LoseConnection, RunListener, SendRequest, storeVars, rows, storeHistory,
           notifierVars, handlerVars
  <1>2. StoreGood' /\ NotificationsGood'
    BY <1>0, <1>1, StoreGoodKept
  <1>3. ChannelsGood' /\ HandlersGood'
    BY <1>0, <1>1 DEF ChannelsGood, HandlersGood, GoodForAll, GoodRow, Intact, Published
  <1>4. /\ \A d \in Clients : reply'[d] \in {reply[d], None}
        /\ \A d \in Clients : cache'[d] = cache[d]
              \/ (reply[d] # None /\ reply[d].changed /\ cache'[d] = reply[d].version)
    BY <1>0 DEF Start, ClientLoop, FetchReply, Poll, PollReply, RequestError, LoopExit, Stop,
                LoseConnection, RunListener
  <1>5. ClientsGood'
    BY <1>0, <1>1, <1>4 DEF ClientsGood, GoodFor, Intact, HitGray
  <1> QED BY <1>2, <1>3, <1>5 DEF DeliveryInv

LEMMA DeliveryRestart == TypeInv /\ DeliveryInv /\ ServerRestart => DeliveryInv'
  <1> SUFFICES ASSUME TypeInv, DeliveryInv, ServerRestart PROVE DeliveryInv'
    OBVIOUS
  <1>1. UNCHANGED <<item, grayRule, released, maxGray, cache, reply>>
    BY DEF ServerRestart, rows, storeHistory
  <1>2. StoreGood' /\ NotificationsGood'
    BY <1>1 DEF DeliveryInv, ServerRestart, StoreGood, GoodRow, Published, CarriedIntact,
                RuleBounded, NotificationsGood
  <1>3. ChannelsGood' /\ HandlersGood'
    BY DEF ServerRestart, ChannelsGood, HandlersGood
  <1>4. ClientsGood'
    BY <1>1 DEF DeliveryInv, ClientsGood, GoodFor, Intact, HitGray
  <1> QED BY <1>2, <1>3, <1>4 DEF DeliveryInv

LEMMA DeliveryStutter == TypeInv /\ DeliveryInv /\ UNCHANGED vars => DeliveryInv'
  <1> SUFFICES ASSUME TypeInv, DeliveryInv, UNCHANGED vars PROVE DeliveryInv'
    OBVIOUS
  <1>1. UNCHANGED <<item, grayRule, apc, aread, released, maxGray, chan, hitem, hver, cache,
                    reply>>
    BY DEF vars, storeVars, rows, storeHistory, notifierVars, handlerVars, clientVars
  <1>2. HistoryGrows
    BY <1>1, HistoryStutter DEF TypeInv
  <1> QED BY <1>1, <1>2, StoreGoodKept, DeliveryFrame DEF DeliveryInv

LEMMA DeliveryStep == TypeInv /\ DeliveryInv /\ [Next]_vars => DeliveryInv'
  BY DeliveryAdmin, DeliveryHandler, DeliveryClient, DeliveryRestart, DeliveryStutter DEF Next

(* No client ever caches a value under another value's MD5 (CachesIntact). *)
THEOREM ClientCachesIntact == Spec => []CachesIntact
  BY TypeInvInit, TypeInvStep, DeliveryInit, DeliveryStep, DeliveryImplies, PTL DEF Spec

(* A client holds a value that was never published only if an enabled rule *)
(* put it in the gray group (DraftsStayPrivate).                           *)
THEOREM DraftsReachOnlyGrayClients == Spec => []DraftsStayPrivate
  BY TypeInvInit, TypeInvStep, DeliveryInit, DeliveryStep, DeliveryImplies, PTL DEF Spec
-----------------------------------------------------------------------------
(* The refinement: each step of the program is a step of ConfigRelease, or *)
(* leaves releases, reach and views alone.                                 *)

LEMMA ReleaseStart == Init => Abstract!Start
  BY DEF Init, StoreInit, Abstract!Start

(* What an Admin API request does to the histories. *)
LEMMA AdminRefines ==
  ASSUME NEW a \in Admins, TypeInv, TypeInv',
         AdminStep(a) \/ Notify(a) \/ Send(a) \/ NotifyDone(a)
  PROVE  Abstract!Release \/ Abstract!WidenGray \/ UNCHANGED Abstract!releaseVars
  <1>0. cache' = cache
    BY DEF AdminStep, Notify, Send, NotifyDone, clientVars
  <1>1. CASE ~ AdminStep(a)
    BY <1>0, <1>1 DEF Notify, Send, NotifyDone, Return, Goto, storeVars, storeHistory,
                      Abstract!releaseVars
  <1>2. CASE AdminStep(a)
    <2>0. StoreTypeInv /\ StoreTypeInv' /\ StoreStep(a)
      BY <1>2 DEF AdminStep, TypeInv
    <2>1. CASE PublishUpdate(a)
      <3>1. \/ released' = released \cup {aread[a].value}
            \/ UNCHANGED released
        BY <2>1 DEF PublishUpdate
      <3>2. maxGray' = maxGray
        BY <2>1 DEF PublishUpdate
      <3>3. CASE UNCHANGED released
        BY <1>0, <3>2, <3>3 DEF Abstract!releaseVars
      <3>4. CASE released' = released \cup {aread[a].value} /\ released' # released
        <4>1. aread[a].value \in Values
          BY <2>0, <2>1 DEF StoreTypeInv, ReadsTyped, PublishUpdate
        <4> QED BY <1>0, <3>2, <3>4, <4>1 DEF Abstract!Release
      <3> QED BY <3>1, <3>3, <3>4
    <2>2. CASE ~ PublishUpdate(a)
      <3>1. released' = released
        BY <2>0, <2>2 DEF StoreStep, SaveDraftRead, SaveDraftWrite, CreateItem, UpdateDraft,
             SaveDraftMisses, PublishRead, PublishReread, DeleteConfig, DeleteGrayRule,
             DeleteNamespace, SaveGrayRuleRead, SaveGrayRuleWrite, StorageError, storeHistory
      <3>2. maxGray \in 0..100 /\ maxGray' \in 0..100 /\ maxGray <= maxGray'
        BY <2>0, HistoryStep DEF HistoryGrows
      <3> QED BY <1>0, <3>1, <3>2 DEF Abstract!WidenGray, Abstract!releaseVars
    <2> QED BY <2>1, <2>2
  <1> QED BY <1>1, <1>2

(* What a client's step does to its cache. *)
LEMMA ClientRefines ==
  ASSUME NEW c \in Clients, TypeInv, DeliveryInv,
         Start(c) \/ ClientLoop(c) \/ Stop(c) \/ LoseConnection(c)
         \/ \E version \in ConfigVersion : RunListener(c, version)
  PROVE  Abstract!Deliver(c) \/ UNCHANGED Abstract!releaseVars
  <1>0. /\ reply \in [Clients -> Reply \cup {None}]
        /\ cache \in [Clients -> ConfigVersion \cup {None}]
    BY DEF TypeInv, ClientTypeInv
  <1>1. UNCHANGED <<released, maxGray>>
    BY DEF Start, ClientLoop, FetchReply, Poll, PollReply, RequestError, LoopExit, Stop,
           LoseConnection, RunListener, storeVars, storeHistory
  <1>2. \/ UNCHANGED cache
        \/ /\ reply[c] # None /\ reply[c].changed
           /\ cache' = [cache EXCEPT ![c] = reply[c].version]
    BY <1>0 DEF Start, ClientLoop, FetchReply, Poll, PollReply, RequestError, LoopExit, Stop,
                LoseConnection, RunListener
  <1>3. CASE UNCHANGED cache
    BY <1>1, <1>3 DEF Abstract!releaseVars
  <1>4. CASE /\ reply[c] # None /\ reply[c].changed
             /\ cache' = [cache EXCEPT ![c] = reply[c].version]
    <2>1. GoodFor(c, reply[c].version)
      BY <1>4 DEF DeliveryInv, ClientsGood
    <2>2. reply[c].version \in ConfigVersion
      BY <1>4 DEF TypeInv, ClientTypeInv
    <2>3. reply[c].version \in Abstract!ConfigVersion
      BY <2>2 DEF ConfigVersion, Abstract!ConfigVersion
    <2>4. Abstract!MayHold(c, reply[c].version)
      BY <2>1 DEF Abstract!MayHold, Abstract!Intact, Abstract!HitGray, GoodFor, Intact, HitGray
    <2> QED BY <1>1, <1>4, <2>3, <2>4 DEF Abstract!Deliver
  <1> QED BY <1>2, <1>3, <1>4

LEMMA ReleaseStep ==
  TypeInv /\ TypeInv' /\ DeliveryInv /\ [Next]_vars => [Abstract!Step]_(Abstract!releaseVars)
  <1> SUFFICES ASSUME TypeInv, TypeInv', DeliveryInv, [Next]_vars
               PROVE  Abstract!Step \/ UNCHANGED Abstract!releaseVars
    OBVIOUS
  <1>1. CASE \E a \in Admins : AdminStep(a) \/ Notify(a) \/ Send(a) \/ NotifyDone(a)
    BY <1>1, AdminRefines DEF Abstract!Step
  <1>2. CASE \E h \in Handlers : HandlerStep(h)
    <2>1. UNCHANGED <<released, maxGray, cache>>
      BY <1>2 DEF HandlerStep, GetItem, GetMissing, GetAnswer, PollItem, PollMissing,
           PollCompare, WaitBegin, Wake, Expire, AnswerExpired, WaitEnd, RereadItem,
           RereadMissing, RereadAnswer, ItemRead, ItemMissing, RuleRead, Answer,
           storeVars, storeHistory, clientVars
    <2> QED BY <2>1 DEF Abstract!releaseVars
  <1>3. CASE \E c \in Clients : \/ Start(c) \/ ClientLoop(c) \/ Stop(c) \/ LoseConnection(c)
                              \/ \E version \in ConfigVersion : RunListener(c, version)
    BY <1>3, ClientRefines DEF Abstract!Step
  <1>4. CASE ServerRestart \/ UNCHANGED vars
    BY <1>4 DEF ServerRestart, vars, storeVars, storeHistory, clientVars, Abstract!releaseVars
  <1> QED BY <1>1, <1>2, <1>3, <1>4 DEF Next

(* The configuration centre implements ConfigRelease (ImplementsRelease):  *)
(* interleaved requests, notifications, retries and crashes only ever hand *)
(* a client, one at a time, an intact version it may see at that moment.   *)
THEOREM CenterImplementsRelease == Spec => ImplementsRelease
  BY TypeInvInit, TypeInvStep, DeliveryInit, DeliveryStep, ReleaseStart, ReleaseStep, PTL
     DEF Spec, ImplementsRelease, Abstract!Releasing

-----------------------------------------------------------------------------
(* Polling handlers are not forgotten (SubscribedIsWoken) and do not       *)
(* answer from the past (FreshAnswer), for any number of concurrent        *)
(* publications, deletions and pollers. Freshness joins two invariants:    *)
(* what a rereading handler holds was in force since it subscribed         *)
(* (InForceCovers), and no rule that is enabled now reaches a client       *)
(* outside the gray group of maxGray (RuleBounded above).                  *)

(* A fault-free history of a subscription includes what is published now,  *)
(* and what a woken handler has read again.                                *)
InForceCovers ==
    \A h \in Handlers :
        /\ Subscribed(h) /\ Published(item) => item.publishedMD5 \in inForce[h]
        /\ hpc[h] = "rereadRule" => hitem[h].publishedMD5 \in inForce[h]

WakeInv == InForceCovers /\ SubscribedIsWoken

LEMMA WakeInit == Init => WakeInv
  BY DEF Init, StoreInit, WakeInv, InForceCovers, SubscribedIsWoken, Subscribed, Published

(* Faults are never taken back. *)
LEMMA FaultsGrow ==
  ASSUME StoreTypeInv, Fault
  PROVE  faults' # 0
  BY DEF Fault, StoreTypeInv, StoreTypeOK

-----------------------------------------------------------------------------
(* What one step of a request does to the published column and to the      *)
(* notifications that are due.                                             *)
LEMMA PublishedChange ==
  ASSUME NEW a \in Admins, StoreTypeInv, StoreStep(a), Published(item)'
  PROVE  \/ apc'[a] = "rereading"
         \/ Published(item) /\ item'.publishedMD5 = item.publishedMD5
  <1>0. /\ item \in ConfigItem \cup {None} /\ apc \in [Admins -> AdminPC]
        /\ None \notin ConfigItem
    BY NoneFacts DEF StoreTypeInv, StoreTypeOK
  <1>1. CASE SaveDraftWrite(a)
    <2>1. CASE \E v \in Values, f \in Formats : CreateItem(a, v, f)
      BY <2>1 DEF CreateItem, Published
    <2>2. CASE \E v \in Values, f \in Formats : UpdateDraft(a, v, f)
      <3>1. /\ item # None /\ item'.publishedValue = item.publishedValue
            /\ item'.publishedMD5 = item.publishedMD5
        BY <1>0, <2>2 DEF UpdateDraft, RowIs, ConfigItem
      <3> QED BY <3>1 DEF Published
    <2>3. CASE SaveDraftMisses(a)
      BY <2>3 DEF SaveDraftMisses, Published
    <2> QED BY <1>1, <2>1, <2>2, <2>3 DEF SaveDraftWrite
  <1>2. CASE PublishUpdate(a)
    BY <1>0, <1>2 DEF PublishUpdate, Goto
  <1>3. CASE DeleteConfig(a) \/ DeleteNamespace(a)
    BY <1>3 DEF DeleteConfig, DeleteNamespace, Published
  <1>4. CASE \/ SaveDraftRead(a) \/ PublishRead(a) \/ PublishReread(a) \/ DeleteGrayRule(a)
             \/ SaveGrayRuleRead(a) \/ SaveGrayRuleWrite(a) \/ StorageError(a)
    <2>1. UNCHANGED item
      BY <1>4 DEF SaveDraftRead, PublishRead, PublishReread, DeleteGrayRule, SaveGrayRuleRead,
                  SaveGrayRuleWrite, StorageError, rows
    <2> QED BY <2>1 DEF Published
  <1> QED BY <1>1, <1>2, <1>3, <1>4 DEF StoreStep

(* A due notification stays due, but for a fault or an unpublished item. *)
LEMMA DueStays ==
  ASSUME NEW a \in Admins, TypeInv, StoreStep(a), UNCHANGED todo, NEW h \in Handlers,
         NotificationDue(h), faults' = 0, Published(item)'
  PROVE  NotificationDue(h)'
  <1>0. StoreTypeInv /\ apc \in [Admins -> AdminPC]
    BY DEF TypeInv, StoreTypeInv, StoreTypeOK
  <1>1. \A b \in Admins \ {a} : apc'[b] = apc[b]
    BY <1>0 DEF StoreStep, SaveDraftRead, SaveDraftWrite, PublishRead, PublishUpdate,
           PublishReread, DeleteConfig, DeleteGrayRule, DeleteNamespace, SaveGrayRuleRead,
           SaveGrayRuleWrite, StorageError, Goto, Return
  <1>2. CASE apc[a] \in {"rereading", "notifying", "sending"}
    <2>1. PublishReread(a)
      <3>1. ~ StorageError(a)
        BY <1>0, FaultsGrow DEF StorageError
      <3> QED BY <1>2, <3>1 DEF StoreStep, SaveDraftRead, SaveDraftWrite, PublishRead,
             PublishUpdate, DeleteConfig, DeleteGrayRule, DeleteNamespace, SaveGrayRuleRead,
             SaveGrayRuleWrite, Begin
    <2>2. Published(item)
      BY <2>1 DEF PublishReread, rows, Published
    <2>3. apc'[a] = "notifying"
      BY <1>0, <2>1, <2>2 DEF PublishReread, Goto
    <2> QED BY <2>3 DEF NotificationDue
  <1>3. CASE apc[a] \notin {"rereading", "notifying", "sending"}
    <2>1. PICK b \in Admins : \/ apc[b] \in {"rereading", "notifying"}
                              \/ apc[b] = "sending" /\ h \in todo[b]
      BY DEF NotificationDue
    <2>2. b # a
      BY <1>3, <2>1
    <2>3. apc'[b] = apc[b] /\ todo'[b] = todo[b]
      BY <1>1, <2>2
    <2> QED BY <2>1, <2>3 DEF NotificationDue
  <1> QED BY <1>2, <1>3

LEMMA WakeStore ==
  ASSUME NEW a \in Admins, TypeInv, WakeInv, AdminStep(a)
  PROVE  WakeInv'
  <1>0. /\ StoreTypeInv /\ StoreStep(a) /\ UNCHANGED <<hpc, hitem, chan, todo>>
        /\ inForce \in [Handlers -> SUBSET Digests]
        /\ faults \in Nat /\ apc \in [Admins -> AdminPC]
    BY DEF TypeInv, StoreTypeInv, StoreTypeOK, HandlerTypeInv, AdminStep, notifierVars
  <1>1. inForce' = [h \in Handlers |-> IF Subscribed(h) THEN inForce[h] \cup PublishedNow'
                                                        ELSE inForce[h]]
    BY DEF AdminStep
  <1>2. InForceCovers'
    BY <1>0, <1>1 DEF WakeInv, InForceCovers, Subscribed, PublishedNow, Published
  <1>3. SubscribedIsWoken'
    <2> SUFFICES ASSUME NEW h \in Handlers,
                        hpc'[h] = "waiting", chan'[h] = None, faults' = 0,
                        Published(item)', NEW d \in inForce'[h], d # item'.publishedMD5
                 PROVE  NotificationDue(h)'
      BY DEF SubscribedIsWoken
    <2>1. CASE apc'[a] = "rereading"
      BY <2>1 DEF NotificationDue
    <2>2. CASE Published(item) /\ item'.publishedMD5 = item.publishedMD5
      <3>1. d \in inForce[h] /\ hpc[h] = "waiting" /\ chan[h] = None
        BY <1>0, <1>1, <2>2 DEF Subscribed, PublishedNow
      <3>2. faults = 0
        BY <1>0 DEF StoreStep, SaveDraftRead, SaveDraftWrite, PublishRead, PublishUpdate,
             PublishReread, DeleteConfig, DeleteGrayRule, DeleteNamespace, SaveGrayRuleRead,
             SaveGrayRuleWrite, StorageError, Begin, Fault
      <3>3. NotificationDue(h)
        BY <2>2, <3>1, <3>2 DEF WakeInv, SubscribedIsWoken
      <3> QED BY <1>0, <3>3, DueStays
    <2> QED BY <1>0, <2>1, <2>2, PublishedChange
  <1> QED BY <1>2, <1>3 DEF WakeInv

-----------------------------------------------------------------------------
(* Notify: entering it makes the notification due to every waiting handler *)
(* because exactly those are registered; a send either fills the channel   *)
(* or leaves the handler among those still to be sent to.                  *)
LEMMA WakeNotify ==
  ASSUME NEW a \in Admins, TypeInv, NotifierInv, WakeInv,
         Notify(a) \/ Send(a) \/ NotifyDone(a)
  PROVE  WakeInv'
  <1>0. /\ apc \in [Admins -> AdminPC] /\ todo \in [Admins -> SUBSET Handlers]
        /\ chan \in [Handlers -> ConfigVersion \cup {None}]
        /\ UNCHANGED <<item, hpc, hitem, inForce, faults>>
    BY DEF TypeInv, StoreTypeInv, StoreTypeOK, NotifierTypeOK, Notify, Send, NotifyDone, rows,
           storeVars, handlerVars
  <1>1. InForceCovers'
    BY <1>0 DEF WakeInv, InForceCovers, Subscribed, Published
  <1>2. ASSUME NEW h \in Handlers, hpc[h] = "waiting", chan'[h] = None,
               chan[h] = None => NotificationDue(h)
        PROVE  NotificationDue(h)'
    <2>1. CASE Notify(a)
      <3>1. h \in listeners
        BY <1>2 DEF NotifierInv, ListenersAreWaiting
      <3>2. apc'[a] = "sending" /\ h \in todo'[a]
        BY <1>0, <2>1, <3>1 DEF Notify, Goto, NotifyBegin
      <3> QED BY <3>2 DEF NotificationDue
    <2>2. CASE Send(a)
      <3>1. PICK k \in todo[a] : NotifySend(a, k, NotifiedVersion(a))
        BY <2>2 DEF Send
      <3>2. NotifiedVersion(a) # None
        BY <2>2, NoneFacts DEF Send, NotifiedVersion, TypeInv, StoreTypeInv, ReadsTyped
      <3>3. k # h /\ chan[h] = None
        BY <1>0, <1>2, <3>1, <3>2 DEF NotifySend
      <3>4. /\ UNCHANGED apc
            /\ \A b \in Admins : h \in todo[b] => h \in todo'[b]
        BY <1>0, <2>2, <3>1, <3>3 DEF Send, storeVars, NotifySend
      <3> QED BY <1>2, <3>3, <3>4 DEF NotificationDue
    <2>3. CASE NotifyDone(a)
      <3>1. chan[h] = None /\ todo[a] = {} /\ apc[a] = "sending" /\ UNCHANGED todo
        BY <1>2, <2>3 DEF NotifyDone, NotifyEnd
      <3>2. PICK b \in Admins : \/ apc[b] \in {"rereading", "notifying"}
                                \/ apc[b] = "sending" /\ h \in todo[b]
        BY <1>2, <3>1 DEF NotificationDue
      <3>3. b # a /\ apc'[b] = apc[b]
        BY <1>0, <2>3, <3>1, <3>2 DEF NotifyDone, Return, Goto
      <3> QED BY <3>1, <3>2, <3>3 DEF NotificationDue
    <2> QED BY <2>1, <2>2, <2>3
  <1>3. SubscribedIsWoken'
    BY <1>0, <1>2 DEF WakeInv, SubscribedIsWoken, Published
  <1> QED BY <1>1, <1>3 DEF WakeInv

-----------------------------------------------------------------------------
(* Handlers and clients change neither what is published nor what is due.  *)

LEMMA WakeFrame ==
  ASSUME WakeInv, UNCHANGED <<item, apc, todo>>, faults' = 0 => faults = 0, InForceCovers',
         \A h \in Handlers : hpc'[h] = "waiting" /\ chan'[h] = None =>
            \/ hpc[h] = "waiting" /\ chan[h] = None /\ inForce'[h] = inForce[h]
            \/ inForce'[h] = PublishedNow
  PROVE  WakeInv'
  <1> SUFFICES ASSUME NEW h \in Handlers, hpc'[h] = "waiting", chan'[h] = None, faults' = 0,
                      Published(item)', NEW d \in inForce'[h], d # item'.publishedMD5
               PROVE  NotificationDue(h)'
    BY DEF WakeInv, SubscribedIsWoken
  <1>1. Published(item) /\ d # item.publishedMD5
    BY DEF Published
  <1>2. hpc[h] = "waiting" /\ chan[h] = None /\ d \in inForce[h]
    BY <1>1 DEF PublishedNow
  <1>3. NotificationDue(h)
    BY <1>1, <1>2 DEF WakeInv, SubscribedIsWoken
  <1> QED BY <1>3 DEF NotificationDue

LEMMA HandlerFaults ==
  ASSUME NEW h \in Handlers, TypeInv, HandlerStep(h)
  PROVE  UNCHANGED <<item, apc, todo>> /\ (faults' = 0 => faults = 0)
  <1>1. UNCHANGED <<item, apc, todo>>
    BY DEF HandlerStep, GetItem, GetMissing, GetAnswer, PollItem, PollMissing, PollCompare,
           WaitBegin, Wake, Expire, AnswerExpired, WaitEnd, RereadItem, RereadMissing,
           RereadAnswer, ItemRead, ItemMissing, RuleRead, rows, storeVars, notifierVars,
           Subscribe, Unsubscribe, Receive
  <1>2. faults' = faults \/ Fault
    BY DEF HandlerStep, GetItem, GetMissing, GetAnswer, PollItem, PollMissing, PollCompare,
           WaitBegin, Wake, Expire, AnswerExpired, WaitEnd, RereadItem, RereadMissing,
           RereadAnswer, ItemRead, ItemMissing, RuleRead, storeVars
  <1> QED BY <1>1, <1>2, FaultsGrow DEF TypeInv

LEMMA WakeHandler ==
  ASSUME NEW h \in Handlers, TypeInv, WakeInv, HandlerStep(h)
  PROVE  WakeInv'
  <1>0. /\ hpc \in [Handlers -> HandlerPC] /\ inForce \in [Handlers -> SUBSET Digests]
        /\ hitem \in [Handlers -> ConfigItem \cup {None}]
        /\ chan \in [Handlers -> ConfigVersion \cup {None}]
        /\ UNCHANGED <<item, apc, todo>> /\ (faults' = 0 => faults = 0)
    BY HandlerFaults DEF TypeInv, HandlerTypeInv, NotifierTypeOK
  <1> USE DEF InForceCovers, Subscribed, Published, WakeInv
  <1>1. CASE WaitBegin(h)
    <2>1. /\ hpc' = [hpc EXCEPT ![h] = "waiting"]
          /\ inForce' = [inForce EXCEPT ![h] = PublishedNow]
          /\ chan' = [chan EXCEPT ![h] = None] /\ UNCHANGED hitem
      BY <1>1 DEF WaitBegin, Subscribe
    <2>2. InForceCovers'
      BY <1>0, <2>1 DEF PublishedNow
    <2> QED BY <1>0, <2>1, <2>2, WakeFrame
  <1>2. CASE Wake(h) \/ Expire(h) \/ WaitEnd(h)
    <2>1. /\ UNCHANGED <<inForce, hitem>>
          /\ \E pc \in {"woken", "expired", "rereadItem"} : hpc' = [hpc EXCEPT ![h] = pc]
          /\ \A k \in Handlers \ {h} : chan'[k] = chan[k]
          /\ hpc[h] \in {"waiting", "woken"}
      BY <1>0, <1>2 DEF Wake, Receive, Expire, WaitEnd, Unsubscribe, notifierVars
    <2>2. InForceCovers'
      BY <1>0, <2>1
    <2> QED BY <1>0, <2>1, <2>2, WakeFrame
  <1>3. CASE GetItem(h) \/ PollItem(h) \/ RereadItem(h)
    <2>1. /\ UNCHANGED <<inForce, chan>> /\ hitem' = [hitem EXCEPT ![h] = item]
          /\ Published(item)
          /\ \/ hpc[h] = "rereadItem" /\ hpc' = [hpc EXCEPT ![h] = "rereadRule"]
             \/ \E pc \in {"getRule", "pollRule"} : hpc' = [hpc EXCEPT ![h] = pc]
      BY <1>3 DEF GetItem, PollItem, RereadItem, ItemRead, notifierVars
    <2>2. InForceCovers'
      BY <1>0, <2>1
    <2> QED BY <1>0, <2>1, <2>2, WakeFrame
  <1>4. ASSUME NEW r, Answer(h, r)
        PROVE  WakeInv'
    <2>1. /\ hpc' = [hpc EXCEPT ![h] = "free"] /\ inForce' = [inForce EXCEPT ![h] = {}]
          /\ hitem' = [hitem EXCEPT ![h] = None]
      BY <1>4 DEF Answer
    <2>2. \A k \in Handlers \ {h} : chan'[k] = chan[k]
      BY <1>0, <2>1 DEF HandlerStep, GetItem, GetMissing, GetAnswer, PollItem, PollMissing,
             PollCompare, WaitBegin, Wake, Expire, AnswerExpired, WaitEnd, RereadItem,
             RereadMissing, RereadAnswer, ItemRead, notifierVars, Subscribe, Unsubscribe,
             Receive
    <2>3. InForceCovers'
      BY <1>0, <2>1
    <2> QED BY <1>0, <2>1, <2>2, <2>3, WakeFrame
  <1>5. CASE GetMissing(h) \/ PollMissing(h) \/ AnswerExpired(h) \/ RereadMissing(h)
             \/ GetAnswer(h) \/ RereadAnswer(h)
    BY <1>4, <1>5 DEF GetMissing, PollMissing, AnswerExpired, RereadMissing, GetAnswer,
                      RereadAnswer
  <1>6. CASE PollCompare(h)
    <2>1. CASE \E r : Answer(h, r)
      BY <1>4, <2>1
    <2>2. CASE ~ \E r : Answer(h, r)
      <3>1. /\ hpc' = [hpc EXCEPT ![h] = "subscribing"] /\ hitem' = [hitem EXCEPT ![h] = None]
            /\ UNCHANGED <<inForce, chan>>
        BY <1>6, <2>2 DEF PollCompare, notifierVars
      <3>2. InForceCovers'
        BY <1>0, <3>1
      <3> QED BY <1>0, <3>1, <3>2, WakeFrame
    <2> QED BY <2>1, <2>2
  <1> QED BY <1>1, <1>2, <1>3, <1>5, <1>6 DEF HandlerStep

LEMMA WakeClient ==
  ASSUME NEW c \in Clients, TypeInv, WakeInv,
         Start(c) \/ ClientLoop(c) \/ Stop(c) \/ LoseConnection(c)
         \/ \E version \in ConfigVersion : RunListener(c, version)
  PROVE  WakeInv'
  <1>0. hpc \in [Handlers -> HandlerPC] /\ StoreTypeInv
    BY DEF TypeInv, HandlerTypeInv
  <1>1. /\ UNCHANGED <<item, apc, todo, chan, inForce, hitem>>
        /\ faults' = faults \/ Fault
    BY DEF Start, ClientLoop, FetchReply, Poll, PollReply, RequestError, LoopExit, Stop,
           LoseConnection, RunListener, SendRequest, storeVars, rows, notifierVars,
           handlerVars
  <1>2. faults' = 0 => faults = 0
    BY <1>0, <1>1, FaultsGrow
  <1>3. \/ UNCHANGED hpc
        \/ \E h \in Handlers, pc \in {"getItem", "pollItem"} : hpc' = [hpc EXCEPT ![h] = pc]
    BY DEF Start, ClientLoop, FetchReply, Poll, PollReply, RequestError, LoopExit, Stop,
           LoseConnection, RunListener, SendRequest, handlerVars
  <1>4. \A h \in Handlers : hpc'[h] \in {"waiting", "woken", "rereadItem", "rereadRule"}
                            => hpc'[h] = hpc[h]
    BY <1>0, <1>3
  <1>5. InForceCovers'
    BY <1>1, <1>4 DEF WakeInv, InForceCovers, Subscribed, Published
  <1> QED BY <1>1, <1>2, <1>4, <1>5, WakeFrame

LEMMA WakeRestart == TypeInv /\ WakeInv /\ ServerRestart => WakeInv'
  BY DEF ServerRestart, WakeInv, InForceCovers, SubscribedIsWoken, Subscribed

LEMMA WakeStutter == TypeInv /\ WakeInv /\ UNCHANGED vars => WakeInv'
  BY DEF vars, storeVars, rows, notifierVars, handlerVars, WakeInv, InForceCovers,
         SubscribedIsWoken, Subscribed, Published, NotificationDue

LEMMA WakeStep == TypeInv /\ NotifierInv /\ WakeInv /\ [Next]_vars => WakeInv'
  BY WakeStore, WakeNotify, WakeHandler, WakeClient, WakeRestart, WakeStutter DEF Next

(* A subscribed handler is not forgotten (SubscribedIsWoken): when another *)
(* version was published since it subscribed, its channel holds a          *)
(* notification or one is due, in every fault-free behaviour.              *)
THEOREM SubscribedHandlersAreWoken == Spec => []SubscribedIsWoken
  <1>1. WakeInv => SubscribedIsWoken
    BY DEF WakeInv
  <1> QED BY TypeInvInit, TypeInvStep, NotifierInvInit, NotifierInvStep, WakeInit, WakeStep,
             <1>1, PTL DEF Spec

-----------------------------------------------------------------------------
(* Who is outside the gray group of maxGray is served what is published. *)
LEMMA PublishedIsServed ==
  ASSUME TypeInv, RuleBounded, NEW c \in Clients, ~ HitGray(c, maxGray),
         NEW rule \in {grayRule, None}, NEW row
  PROVE  CalculateVersion(row, c, rule).md5 = row.publishedMD5
  <1>1. grayRule \in GrayRule \cup {None} /\ maxGray \in 0..100 /\ Bucket[c] \in 0..99
    BY GrayAssumption DEF TypeInv, StoreTypeInv, StoreTypeOK
  <1>2. ~ GrayApplies(c, rule)
    <2> SUFFICES ASSUME GrayApplies(c, rule) PROVE FALSE
      OBVIOUS
    <2>1. rule = grayRule /\ grayRule # None /\ grayRule.enabled
      BY DEF GrayApplies
    <2>2. grayRule.percentage \in 0..100 /\ grayRule.percentage <= maxGray
      BY <1>1, <2>1 DEF RuleBounded, GrayRule
    <2> QED BY <1>1, <2>1, <2>2 DEF GrayApplies, HitGray
  <1> QED BY <1>2 DEF CalculateVersion

(* The response a handler gives is the one its client waits for. *)
LEMMA AnswerReaches ==
  ASSUME TypeInv, NEW h \in Handlers, NEW response, Answer(h, response),
         hreq[h].client \in Clients, conn[hreq[h].client] = h
  PROVE  reply'[hreq[h].client] = response
  <1>1. reply \in [Clients -> Reply \cup {None}]
    BY DEF TypeInv, ClientTypeInv
  <1> QED BY <1>1 DEF Answer

(* Only the two answers after a re-read end a rereading handler, but for a *)
(* restart of the server.                                                  *)
LEMMA RereadingEnds ==
  ASSUME TypeInv, NEW h \in Handlers, [Next]_vars, ~ ServerRestart,
         hpc[h] \in {"rereadItem", "rereadRule"}, hpc'[h] = "free"
  PROVE  RereadMissing(h) \/ RereadAnswer(h)
  <1>1. hpc \in [Handlers -> HandlerPC]
    BY DEF TypeInv, HandlerTypeInv
  <1>2. CASE \E k \in Handlers : HandlerStep(k)
    <2>1. PICK k \in Handlers : HandlerStep(k)
      BY <1>2
    <2>2. \A j \in Handlers \ {k} : hpc'[j] = hpc[j]
      BY <1>1, <2>1 DEF HandlerStep, GetItem, GetMissing, GetAnswer, PollItem, PollMissing,
             PollCompare, WaitBegin, Wake, Expire, AnswerExpired, WaitEnd, RereadItem,
             RereadMissing, RereadAnswer, ItemRead, Answer
    <2>3. k = h
      BY <2>2
    <2> QED BY <1>1, <2>1, <2>3 DEF HandlerStep, GetItem, GetMissing, GetAnswer, PollItem,
             PollMissing, PollCompare, WaitBegin, Wake, Expire, AnswerExpired, WaitEnd,
             RereadItem, ItemRead
  <1>3. CASE ~ \E k \in Handlers : HandlerStep(k)
    <2>1. \/ UNCHANGED hpc
          \/ \E k \in Handlers, pc \in {"getItem", "pollItem"} : hpc' = [hpc EXCEPT ![k] = pc]
      BY <1>3 DEF Next, AdminStep, Notify, Send, NotifyDone, Start, ClientLoop, FetchReply, Poll,
           PollReply, RequestError, LoopExit, Stop, LoseConnection, RunListener,
           SendRequest, handlerVars, vars
    <2> QED BY <1>1, <2>1
  <1> QED BY <1>2, <1>3

LEMMA FreshStep ==
  ASSUME TypeInv, WakeInv, RuleBounded, [Next]_vars, NEW h \in Handlers
  PROVE  FreshReply(h)
  <1> DEFINE c == hreq[h].client
  <1> SUFFICES ASSUME hpc[h] \in {"rereadItem", "rereadRule"}, hpc'[h] = "free",
                      conn[c] = h, faults' = 0, Published(item), ~ HitGray(c, maxGray)
               PROVE  reply'[c].version.md5 \in inForce[h]
    BY DEF FreshReply
  <1>1. c \in Clients /\ StoreTypeInv
    BY DEF TypeInv, HandlerTypeInv, HandlerLocals
  <1>2. ~ Fault
    BY <1>1, FaultsGrow
  <1>3. ~ ServerRestart /\ ~ RereadMissing(h)
    BY <1>2 DEF ServerRestart, RereadMissing, ItemMissing
  <1>4. RereadAnswer(h)
    BY <1>3, RereadingEnds
  <1>5. PICK rule \in {grayRule, None} : Answer(h, Changed(CalculateVersion(hitem[h], c, rule)))
    BY <1>4 DEF RereadAnswer
  <1>6. reply'[c].version.md5 = CalculateVersion(hitem[h], c, rule).md5
    BY <1>1, <1>5, AnswerReaches DEF Changed
  <1>7. reply'[c].version.md5 = hitem[h].publishedMD5
    BY <1>1, <1>6, PublishedIsServed
  <1>8. hitem[h].publishedMD5 \in inForce[h]
    BY <1>4 DEF WakeInv, InForceCovers, RereadAnswer
  <1> QED BY <1>7, <1>8

(* A woken poll answers its client with a version published since it       *)
(* subscribed (FreshAnswer), whichever superseded publication woke it.     *)
THEOREM AnswersAreFresh == Spec => FreshAnswer
  <1>1. DeliveryInv => RuleBounded
    BY DEF DeliveryInv, StoreGood
  <1>2. TypeInv /\ WakeInv /\ RuleBounded /\ [Next]_vars
        => [\A h \in Handlers : FreshReply(h)]_vars
    BY FreshStep
  <1> QED BY TypeInvInit, TypeInvStep, NotifierInvInit, NotifierInvStep, WakeInit, WakeStep,
             DeliveryInit, DeliveryStep, <1>1, <1>2, PTL DEF Spec, FreshAnswer
=============================================================================
