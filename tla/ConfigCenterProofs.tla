------------------------- MODULE ConfigCenterProofs -------------------------
(***************************************************************************)
(* Proofs about ConfigCenter, for any number of administrators, clients,   *)
(* handlers, requests and faults. The steps on the store are the lemmas of *)
(* ConfigStoreProofs.                                                      *)
(***************************************************************************)
EXTENDS ConfigCenter, ConfigStoreProofs

(* The handlers' state has its types, and a handler that is about to use a *)
(* local variable has set it.                                              *)
HandlerLocals(h) ==
    /\ hpc[h] # "free" => hreq[h].client \in Clients
    /\ hpc[h] \in {"getRule", "pollRule", "rereadRule"} =>
          /\ hitem[h] \in ConfigItem
          /\ hitem[h].publishedValue \in Values /\ hitem[h].publishedMD5 \in Digests
    /\ hpc[h] \in {"woken", "rereadItem"} => hver[h] \in ConfigVersion

HandlerTypeInv ==
    /\ hpc \in [Handlers -> HandlerPC]
    /\ hreq \in [Handlers -> Request]
    /\ hitem \in [Handlers -> ConfigItem \cup {None}]
    /\ hver \in [Handlers -> ConfigVersion \cup {None}]
    /\ inForce \in [Handlers -> SUBSET Digests]
    /\ \A h \in Handlers : HandlerLocals(h)

(* The clients' state has its types, and a changed reply has a version. *)
ClientTypeInv ==
    /\ cpc \in [Clients -> ClientPC]
    /\ conn \in [Clients -> Handlers \cup {None}]
    /\ reply \in [Clients -> Reply \cup {None}]
    /\ cache \in [Clients -> ConfigVersion \cup {None}]
    /\ stopping \subseteq Clients
    /\ spawned \in [Clients -> [ConfigVersion -> Nat]]
    /\ applied \in [Clients -> ConfigVersion \cup {None}]
    /\ \A c \in Clients : reply[c] # None /\ reply[c].changed =>
                             reply[c].version \in ConfigVersion

TypeInv == StoreTypeInv /\ NotifierTypeOK /\ HandlerTypeInv /\ ClientTypeInv

LEMMA TypeInvImpliesTypeOK == TypeInv => TypeOK
  BY DEF TypeInv, StoreTypeInv, HandlerTypeInv, ClientTypeInv, TypeOK

LEMMA NoneFacts ==
    /\ None \notin Values /\ None \notin Digests /\ None \notin Formats
    /\ None \notin Clients /\ None \notin Handlers
    /\ None \notin ConfigItem /\ None \notin GrayRule /\ None \notin ConfigVersion
  BY NoneAssumption, RowAssumption

LEMMA TypeInvInit == Init => TypeInv
  <1> SUFFICES ASSUME Init PROVE TypeInv
    OBVIOUS
  <1>1. StoreTypeInv
    BY StoreTypeInit DEF Init
  <1>2. NotifierTypeOK
    BY DEF Init, NotifierInit, NotifierTypeOK
  <1>3. HandlerTypeInv
    BY DEF Init, HandlerTypeInv, HandlerLocals, HandlerPC, Request, NoRequest
  <1>4. ClientTypeInv
    BY DEF Init, ClientTypeInv, ClientPC
  <1> QED BY <1>1, <1>2, <1>3, <1>4 DEF TypeInv

-----------------------------------------------------------------------------
(* A published row has both its published columns. *)
LEMMA PublishedTyped ==
  ASSUME StoreTypeInv, Published(item)
  PROVE  /\ item \in ConfigItem /\ item # None
         /\ item.publishedValue \in Values /\ item.publishedMD5 \in Digests
  BY DEF StoreTypeInv, StoreTypeOK, PublishedPair, Published, ConfigItem

LEMMA PublishedNowTyped ==
  ASSUME StoreTypeInv
  PROVE  PublishedNow \subseteq Digests
  BY PublishedTyped DEF PublishedNow

LEMMA CalculateVersionTyped ==
  ASSUME NEW row \in ConfigItem, NEW c, NEW rule,
         row.publishedValue \in Values, row.publishedMD5 \in Digests
  PROVE  CalculateVersion(row, c, rule) \in ConfigVersion
  BY DEF CalculateVersion, ConfigItem, ConfigVersion

LEMMA ChangedTyped ==
  ASSUME NEW version \in ConfigVersion
  PROVE  /\ Changed(version) \in Reply /\ Changed(version).changed
         /\ Changed(version).version = version
  BY DEF Changed, Reply

LEMMA UnchangedTyped == Unchanged \in Reply /\ ~ Unchanged.changed
  BY DEF Unchanged, Reply

(* Reading the store changes nothing but the number of faults. *)
LEMMA FaultOnlyTyped ==
  ASSUME StoreTypeInv, UNCHANGED <<rows, apc, aread, ops, storeHistory>>,
         UNCHANGED faults \/ Fault
  PROVE  StoreTypeInv'
  BY DEF StoreTypeInv, StoreTypeOK, ReadsTyped, PublishedPair, rows, storeHistory, Fault

LEMMA AnswerTyped ==
  ASSUME NEW h \in Handlers, NEW r \in Reply, HandlerTypeInv, ClientTypeInv,
         hpc[h] # "free", r.changed => r.version \in ConfigVersion, Answer(h, r)
  PROVE  HandlerTypeInv' /\ ClientTypeInv'
  <1>1. hreq[h].client \in Clients
    BY DEF HandlerTypeInv, HandlerLocals
  <1>2. NoRequest \in Request /\ "free" \in HandlerPC
    BY DEF NoRequest, Request, HandlerPC
  <1>3. HandlerTypeInv'
    <2>1. /\ hpc' \in [Handlers -> HandlerPC] /\ hreq' \in [Handlers -> Request]
          /\ hitem' \in [Handlers -> ConfigItem \cup {None}]
          /\ hver' \in [Handlers -> ConfigVersion \cup {None}]
          /\ inForce' \in [Handlers -> SUBSET Digests]
      BY <1>2 DEF Answer, HandlerTypeInv
    <2>2. \A k \in Handlers : HandlerLocals(k)'
      BY DEF Answer, HandlerTypeInv, HandlerLocals
    <2> QED BY <2>1, <2>2 DEF HandlerTypeInv
  <1>4. ClientTypeInv'
    <2> DEFINE c == hreq[h].client
    <2>1. UNCHANGED <<cpc, cache, stopping, spawned, applied>>
      BY DEF Answer
    <2>2. CASE conn[c] = h
      <3>1. reply' = [reply EXCEPT ![c] = r] /\ conn' = [conn EXCEPT ![c] = None]
        BY <2>2 DEF Answer
      <3>2. reply' \in [Clients -> Reply \cup {None}]
            /\ conn' \in [Clients -> Handlers \cup {None}]
        BY <1>1, <3>1 DEF ClientTypeInv
      <3>3. \A d \in Clients : reply'[d] # None /\ reply'[d].changed =>
                                   reply'[d].version \in ConfigVersion
        BY <1>1, <3>1 DEF ClientTypeInv
      <3> QED BY <2>1, <3>2, <3>3 DEF ClientTypeInv
    <2>3. CASE conn[c] # h
      BY <2>1, <2>3 DEF Answer, ClientTypeInv
    <2> QED BY <2>2, <2>3
  <1> QED BY <1>3, <1>4

-----------------------------------------------------------------------------
(* TypeInv is inductive: one lemma per process. *)

LEMMA AdminTyped ==
  ASSUME NEW a \in Admins, TypeInv,
         AdminStep(a) \/ Notify(a) \/ Send(a) \/ NotifyDone(a)
  PROVE  TypeInv'
  <1> USE DEF TypeInv
  <1>1. CASE AdminStep(a)
    <2>1. StoreTypeInv'
      BY <1>1, StoreTypeStep DEF AdminStep
    <2>2. PublishedNow' \subseteq Digests
      BY <2>1, PublishedNowTyped DEF PublishedNow, Published, StoreTypeInv, StoreTypeOK,
                                     PublishedPair, ConfigItem
    <2>3. HandlerTypeInv'
      BY <1>1, <2>2 DEF AdminStep, HandlerTypeInv, HandlerLocals
    <2>4. NotifierTypeOK' /\ ClientTypeInv'
      BY <1>1 DEF AdminStep, NotifierTypeOK, ClientTypeInv, notifierVars, clientVars
    <2> QED BY <2>1, <2>3, <2>4
  <1>2. CASE Notify(a)
    <2>1. StoreTypeInv'
      <3>1. apc' \in [Admins -> AdminPC] /\ aread' \in [Admins -> Snapshot] /\ ReadsTyped'
        BY <1>2 DEF Notify, Goto, StoreTypeInv, StoreTypeOK, ReadsTyped, AdminPC
      <3> QED BY <1>2, <3>1 DEF Notify, StoreTypeInv, StoreTypeOK, PublishedPair, rows,
                                 storeHistory
    <2>2. NotifierTypeOK'
      BY <1>2 DEF Notify, NotifyBegin, NotifierTypeOK
    <2>3. HandlerTypeInv' /\ ClientTypeInv'
      BY <1>2 DEF Notify, HandlerTypeInv, HandlerLocals, ClientTypeInv, handlerVars, clientVars
    <2> QED BY <2>1, <2>2, <2>3
  <1>3. CASE Send(a)
    <2>1. StoreTypeInv'
      BY <1>3, StoreTypeStutter DEF Send
    <2>2. NotifiedVersion(a) \in ConfigVersion
      BY <1>3 DEF Send, NotifiedVersion, StoreTypeInv, ReadsTyped
    <2>3. NotifierTypeOK'
      BY <1>3, <2>2 DEF Send, NotifySend, NotifierTypeOK
    <2>4. HandlerTypeInv' /\ ClientTypeInv'
      BY <1>3 DEF Send, HandlerTypeInv, HandlerLocals, ClientTypeInv, handlerVars, clientVars
    <2> QED BY <2>1, <2>3, <2>4
  <1>4. CASE NotifyDone(a)
    <2>1. StoreTypeInv'
      <3>1. apc' \in [Admins -> AdminPC] /\ aread' \in [Admins -> Snapshot] /\ ReadsTyped'
        BY <1>4, ReturnTyped DEF NotifyDone, StoreTypeInv, StoreTypeOK
      <3> QED BY <1>4, <3>1 DEF NotifyDone, StoreTypeInv, StoreTypeOK, PublishedPair, rows,
                                 storeHistory
    <2>2. NotifierTypeOK'
      BY <1>4 DEF NotifyDone, NotifyEnd, NotifierTypeOK
    <2>3. HandlerTypeInv' /\ ClientTypeInv'
      BY <1>4 DEF NotifyDone, HandlerTypeInv, HandlerLocals, ClientTypeInv, handlerVars,
                  clientVars
    <2> QED BY <2>1, <2>2, <2>3
  <1> QED BY <1>1, <1>2, <1>3, <1>4

(* A handler that only changes its own state and the notifier's. *)
LEMMA QuietHandlerTyped ==
  ASSUME TypeInv, UNCHANGED <<storeVars, clientVars>>
  PROVE  StoreTypeInv' /\ ClientTypeInv'
  BY StoreTypeStutter DEF TypeInv, ClientTypeInv, clientVars

LEMMA ItemReadTyped ==
  ASSUME NEW h \in Handlers, TypeInv, hpc[h] \in {"getItem", "pollItem", "rereadItem"},
         NEW next \in {"getRule", "pollRule", "rereadRule"}, ItemRead(h, next)
  PROVE  TypeInv'
  <1>1. /\ item \in ConfigItem
        /\ item.publishedValue \in Values /\ item.publishedMD5 \in Digests
    BY PublishedTyped DEF ItemRead, TypeInv
  <1>2. StoreTypeInv' /\ ClientTypeInv'
    BY QuietHandlerTyped DEF ItemRead
  <1>3. NotifierTypeOK'
    BY DEF ItemRead, TypeInv, NotifierTypeOK, notifierVars
  <1>4. HandlerTypeInv'
    <2>1. /\ hpc' \in [Handlers -> HandlerPC]
          /\ hitem' \in [Handlers -> ConfigItem \cup {None}]
      BY <1>1 DEF ItemRead, TypeInv, HandlerTypeInv, HandlerPC
    <2>2. HandlerLocals(h)'
      BY <1>1 DEF ItemRead, TypeInv, HandlerTypeInv, HandlerLocals
    <2>3. \A k \in Handlers \ {h} : HandlerLocals(k)'
      BY DEF ItemRead, TypeInv, HandlerTypeInv, HandlerLocals
    <2> QED BY <2>1, <2>2, <2>3 DEF ItemRead, TypeInv, HandlerTypeInv
  <1> QED BY <1>2, <1>3, <1>4 DEF TypeInv

LEMMA HandlerTyped ==
  ASSUME NEW h \in Handlers, TypeInv, HandlerStep(h)
  PROVE  TypeInv'
  <1>0. /\ StoreTypeInv /\ NotifierTypeOK /\ HandlerTypeInv /\ ClientTypeInv
        /\ HandlerLocals(h)
    BY DEF TypeInv, HandlerTypeInv
  <1>1. CASE GetItem(h) \/ PollItem(h) \/ RereadItem(h)
    BY <1>1, ItemReadTyped DEF GetItem, PollItem, RereadItem
  <1>2. CASE GetMissing(h) \/ PollMissing(h)
    <2>1. StoreTypeInv'
      BY <1>0, <1>2, FaultOnlyTyped DEF GetMissing, PollMissing, ItemMissing
    <2>2. HandlerTypeInv' /\ ClientTypeInv'
      BY <1>0, <1>2, AnswerTyped, UnchangedTyped DEF GetMissing, PollMissing
    <2>3. NotifierTypeOK'
      BY <1>0, <1>2 DEF GetMissing, PollMissing, NotifierTypeOK, notifierVars
    <2> QED BY <2>1, <2>2, <2>3 DEF TypeInv
  <1>3. CASE GetAnswer(h) \/ RereadAnswer(h)
    <2>1. hpc[h] \in {"getRule", "rereadRule"}
      BY <1>3 DEF GetAnswer, RereadAnswer
    <2>2. PICK rule \in {grayRule, None} :
             /\ RuleRead(rule)
             /\ Answer(h, Changed(CalculateVersion(hitem[h], hreq[h].client, rule)))
      BY <1>3 DEF GetAnswer, RereadAnswer
    <2>3. CalculateVersion(hitem[h], hreq[h].client, rule) \in ConfigVersion
      BY <1>0, <2>1, CalculateVersionTyped DEF HandlerLocals
    <2>4. HandlerTypeInv' /\ ClientTypeInv'
      BY <1>0, <2>1, <2>2, <2>3, AnswerTyped, ChangedTyped
    <2>5. StoreTypeInv'
      BY <1>0, <2>2, FaultOnlyTyped DEF RuleRead
    <2>6. NotifierTypeOK'
      BY <1>0, <1>3 DEF GetAnswer, RereadAnswer, NotifierTypeOK, notifierVars
    <2> QED BY <2>4, <2>5, <2>6 DEF TypeInv
  <1>4. CASE PollCompare(h)
    <2> DEFINE version(rule) == CalculateVersion(hitem[h], hreq[h].client, rule)
    <2>1. PICK rule \in {grayRule, None} :
             /\ RuleRead(rule)
             /\ \/ version(rule).md5 # hreq[h].md5 /\ Answer(h, Changed(version(rule)))
                \/ /\ hpc' = [hpc EXCEPT ![h] = "subscribing"]
                   /\ hitem' = [hitem EXCEPT ![h] = None]
                   /\ UNCHANGED <<hreq, hver, inForce, clientVars>>
      BY <1>4 DEF PollCompare
    <2>2. StoreTypeInv'
      BY <1>0, <2>1, FaultOnlyTyped DEF RuleRead
    <2>3. NotifierTypeOK'
      BY <1>0, <1>4 DEF PollCompare, NotifierTypeOK, notifierVars
    <2>4. CASE Answer(h, Changed(version(rule)))
      <3>1. version(rule) \in ConfigVersion /\ hpc[h] # "free"
        BY <1>0, <1>4, CalculateVersionTyped DEF HandlerLocals, PollCompare
      <3>2. HandlerTypeInv' /\ ClientTypeInv'
        BY <1>0, <2>4, <3>1, AnswerTyped, ChangedTyped
      <3> QED BY <2>2, <2>3, <3>2 DEF TypeInv
    <2>5. CASE ~ Answer(h, Changed(version(rule)))
      <3>1. /\ hpc' = [hpc EXCEPT ![h] = "subscribing"]
            /\ hitem' = [hitem EXCEPT ![h] = None]
            /\ UNCHANGED <<hreq, hver, inForce, clientVars>>
        BY <2>1, <2>5
      <3>2. hpc[h] = "pollRule"
        BY <1>4 DEF PollCompare
      <3>3. HandlerTypeInv'
        BY <1>0, <3>1, <3>2 DEF HandlerTypeInv, HandlerLocals, HandlerPC
      <3>4. ClientTypeInv'
        BY <1>0, <3>1 DEF ClientTypeInv, clientVars
      <3> QED BY <2>2, <2>3, <3>3, <3>4 DEF TypeInv
    <2> QED BY <2>4, <2>5
  <1>5. CASE WaitBegin(h)
    <2>1. StoreTypeInv' /\ ClientTypeInv'
      BY <1>5, QuietHandlerTyped DEF WaitBegin
    <2>2. NotifierTypeOK'
      BY <1>0, <1>5 DEF WaitBegin, Subscribe, NotifierTypeOK
    <2>3. HandlerTypeInv'
      BY <1>0, <1>5, PublishedNowTyped DEF WaitBegin, HandlerTypeInv, HandlerLocals, HandlerPC
    <2> QED BY <2>1, <2>2, <2>3 DEF TypeInv
  <1>6. CASE Wake(h)
    <2>1. StoreTypeInv' /\ ClientTypeInv'
      BY <1>6, QuietHandlerTyped DEF Wake
    <2>2. NotifierTypeOK' /\ chan[h] \in ConfigVersion
      BY <1>0, <1>6 DEF Wake, Receive, NotifierTypeOK
    <2>3. HandlerTypeInv'
      BY <1>0, <1>6, <2>2 DEF Wake, HandlerTypeInv, HandlerLocals, HandlerPC
    <2> QED BY <2>1, <2>2, <2>3 DEF TypeInv
  <1>7. CASE Expire(h)
    <2>1. StoreTypeInv' /\ ClientTypeInv'
      BY <1>7, QuietHandlerTyped DEF Expire
    <2>2. NotifierTypeOK'
      BY <1>0, <1>7 DEF Expire, NotifierTypeOK, notifierVars
    <2>3. HandlerTypeInv'
      BY <1>0, <1>7 DEF Expire, HandlerTypeInv, HandlerLocals, HandlerPC
    <2> QED BY <2>1, <2>2, <2>3 DEF TypeInv
  <1>8. CASE AnswerExpired(h)
    <2>1. StoreTypeInv'
      BY <1>0, <1>8, StoreTypeStutter DEF AnswerExpired
    <2>2. NotifierTypeOK'
      BY <1>0, <1>8 DEF AnswerExpired, Unsubscribe, NotifierTypeOK
    <2>3. HandlerTypeInv' /\ ClientTypeInv'
      BY <1>0, <1>8, AnswerTyped, UnchangedTyped DEF AnswerExpired
    <2> QED BY <2>1, <2>2, <2>3 DEF TypeInv
  <1>9. CASE WaitEnd(h)
    <2>1. StoreTypeInv' /\ ClientTypeInv'
      BY <1>9, QuietHandlerTyped DEF WaitEnd
    <2>2. NotifierTypeOK'
      BY <1>0, <1>9 DEF WaitEnd, Unsubscribe, NotifierTypeOK
    <2>3. HandlerTypeInv'
      BY <1>0, <1>9 DEF WaitEnd, HandlerTypeInv, HandlerLocals, HandlerPC
    <2> QED BY <2>1, <2>2, <2>3 DEF TypeInv
  <1>10. CASE RereadMissing(h)
    <2>1. StoreTypeInv'
      BY <1>0, <1>10, FaultOnlyTyped DEF RereadMissing, ItemMissing
    <2>2. NotifierTypeOK'
      BY <1>0, <1>10 DEF RereadMissing, NotifierTypeOK, notifierVars
    <2>3. hpc[h] = "rereadItem" /\ hver[h] \in ConfigVersion
      BY <1>0, <1>10 DEF RereadMissing, HandlerLocals
    <2>4. HandlerTypeInv' /\ ClientTypeInv'
      BY <1>0, <1>10, <2>3, AnswerTyped, ChangedTyped DEF RereadMissing
    <2> QED BY <2>1, <2>2, <2>4 DEF TypeInv
  <1> QED BY <1>1, <1>2, <1>3, <1>4, <1>5, <1>6, <1>7, <1>8, <1>9, <1>10 DEF HandlerStep

LEMMA ClientTyped ==
  ASSUME NEW c \in Clients, TypeInv,
         Start(c) \/ ClientLoop(c) \/ Stop(c) \/ LoseConnection(c)
         \/ \E version \in ConfigVersion : RunListener(c, version)
  PROVE  TypeInv'
  <1>0. StoreTypeInv /\ NotifierTypeOK /\ HandlerTypeInv /\ ClientTypeInv
    BY DEF TypeInv
  <1>1. ASSUME NEW pc \in {"getItem", "pollItem"}, NEW md5 \in Digests \cup {None},
               SendRequest(c, pc, md5)
        PROVE  HandlerTypeInv' /\ conn' \in [Clients -> Handlers \cup {None}]
    <2>1. PICK h \in Handlers :
             /\ hpc' = [hpc EXCEPT ![h] = pc]
             /\ hreq' = [hreq EXCEPT ![h] = [client |-> c, md5 |-> md5]]
             /\ conn' = [conn EXCEPT ![c] = h]
             /\ UNCHANGED <<hitem, hver, inForce>>
      BY <1>1 DEF SendRequest
    <2>2. [client |-> c, md5 |-> md5] \in Request
      BY DEF Request
    <2>3. /\ hpc' \in [Handlers -> HandlerPC] /\ hreq' \in [Handlers -> Request]
          /\ conn' \in [Clients -> Handlers \cup {None}]
      BY <1>0, <2>1, <2>2 DEF HandlerTypeInv, ClientTypeInv, HandlerPC
    <2>4. \A k \in Handlers : HandlerLocals(k)'
      BY <1>0, <2>1 DEF HandlerTypeInv, HandlerLocals
    <2> QED BY <1>0, <2>1, <2>3, <2>4 DEF HandlerTypeInv
  <1>2. CachedMD5(c) \in Digests \cup {None}
    BY <1>0 DEF ClientTypeInv, CachedMD5, ConfigVersion
  <1>3. CASE Start(c)
    <2>1. HandlerTypeInv' /\ conn' \in [Clients -> Handlers \cup {None}]
      BY <1>1, <1>3 DEF Start
    <2>2. StoreTypeInv' /\ NotifierTypeOK'
      BY <1>0, <1>3, StoreTypeStutter DEF Start, NotifierTypeOK, notifierVars
    <2>3. ClientTypeInv'
      BY <1>0, <1>3, <2>1 DEF Start, ClientGoto, ClientTypeInv, ClientPC
    <2> QED BY <2>1, <2>2, <2>3 DEF TypeInv
  <1>4. CASE Poll(c)
    <2>1. HandlerTypeInv' /\ conn' \in [Clients -> Handlers \cup {None}]
      BY <1>1, <1>2, <1>4 DEF Poll
    <2>2. StoreTypeInv' /\ NotifierTypeOK'
      BY <1>0, <1>4, StoreTypeStutter DEF Poll, NotifierTypeOK, notifierVars
    <2>3. ClientTypeInv'
      BY <1>0, <1>4, <2>1 DEF Poll, ClientGoto, ClientTypeInv, ClientPC
    <2> QED BY <2>1, <2>2, <2>3 DEF TypeInv
  <1>5. CASE FetchReply(c)
    <2>1. StoreTypeInv' /\ NotifierTypeOK' /\ HandlerTypeInv'
      BY <1>0, <1>5, StoreTypeStutter
         DEF FetchReply, NotifierTypeOK, notifierVars, HandlerTypeInv, HandlerLocals, handlerVars
    <2>2. cache' \in [Clients -> ConfigVersion \cup {None}]
      BY <1>0, <1>5 DEF FetchReply, ClientTypeInv
    <2>3. ClientTypeInv'
      BY <1>0, <1>5, <2>2 DEF FetchReply, ClientGoto, ClientTypeInv, ClientPC
    <2> QED BY <2>1, <2>3 DEF TypeInv
  <1>6. CASE PollReply(c)
    <2>1. StoreTypeInv' /\ NotifierTypeOK' /\ HandlerTypeInv'
      BY <1>0, <1>6, StoreTypeStutter
         DEF PollReply, NotifierTypeOK, notifierVars, HandlerTypeInv, HandlerLocals, handlerVars
    <2>2. cache' \in [Clients -> ConfigVersion \cup {None}]
      BY <1>0, <1>6 DEF PollReply, ClientTypeInv
    <2>3. spawned' \in [Clients -> [ConfigVersion -> Nat]]
      <3>1. CASE reply[c].changed /\ c \in Listening
        <4>1. reply[c].version \in ConfigVersion
          BY <1>0, <1>6, <3>1 DEF PollReply, ClientTypeInv
        <4>2. spawned' = [spawned EXCEPT ![c][reply[c].version] = @ + 1]
          BY <1>6, <3>1 DEF PollReply
        <4> QED BY <1>0, <4>1, <4>2 DEF ClientTypeInv
      <3>2. CASE ~ (reply[c].changed /\ c \in Listening)
        BY <1>0, <1>6, <3>2 DEF PollReply, ClientTypeInv
      <3> QED BY <3>1, <3>2
    <2>4. ClientTypeInv'
      BY <1>0, <1>6, <2>2, <2>3 DEF PollReply, ClientGoto, ClientTypeInv, ClientPC
    <2> QED BY <2>1, <2>4 DEF TypeInv
  <1>7. CASE RequestError(c) \/ LoopExit(c) \/ Stop(c)
    <2>1. StoreTypeInv' /\ NotifierTypeOK' /\ HandlerTypeInv'
      BY <1>0, <1>7, StoreTypeStutter
         DEF RequestError, LoopExit, Stop, NotifierTypeOK, notifierVars, HandlerTypeInv,
             HandlerLocals, handlerVars
    <2>2. ClientTypeInv'
      BY <1>0, <1>7 DEF RequestError, LoopExit, Stop, ClientGoto, ClientTypeInv, ClientPC
    <2> QED BY <2>1, <2>2 DEF TypeInv
  <1>8. CASE LoseConnection(c)
    <2>1. StoreTypeInv'
      BY <1>0, <1>8, FaultOnlyTyped DEF LoseConnection
    <2>2. NotifierTypeOK' /\ HandlerTypeInv'
      BY <1>0, <1>8
         DEF LoseConnection, NotifierTypeOK, notifierVars, HandlerTypeInv, HandlerLocals,
             handlerVars
    <2>3. /\ conn' = [conn EXCEPT ![c] = None] /\ reply' = [reply EXCEPT ![c] = None]
          /\ UNCHANGED <<cpc, cache, stopping, spawned, applied>>
      BY <1>8 DEF LoseConnection
    <2>4. ClientTypeInv'
      BY <1>0, <2>3 DEF ClientTypeInv
    <2> QED BY <2>1, <2>2, <2>4 DEF TypeInv
  <1>9. ASSUME NEW version \in ConfigVersion, RunListener(c, version)
        PROVE  TypeInv'
    <2>1. StoreTypeInv' /\ NotifierTypeOK' /\ HandlerTypeInv'
      BY <1>0, <1>9, StoreTypeStutter
         DEF RunListener, NotifierTypeOK, notifierVars, HandlerTypeInv, HandlerLocals,
             handlerVars
    <2>2. spawned[c][version] \in Nat /\ spawned[c][version] - 1 \in Nat
      BY <1>0, <1>9 DEF RunListener, ClientTypeInv
    <2>3. spawned' \in [Clients -> [ConfigVersion -> Nat]]
      BY <1>0, <1>9, <2>2 DEF RunListener, ClientTypeInv
    <2>4. ClientTypeInv'
      BY <1>0, <1>9, <2>3 DEF RunListener, ClientTypeInv
    <2> QED BY <2>1, <2>4 DEF TypeInv
  <1> QED BY <1>3, <1>4, <1>5, <1>6, <1>7, <1>8, <1>9 DEF ClientLoop

LEMMA RestartTyped == TypeInv /\ ServerRestart => TypeInv'
  <1> SUFFICES ASSUME TypeInv, ServerRestart PROVE TypeInv'
    OBVIOUS
  <1>0. StoreTypeInv /\ NotifierTypeOK /\ HandlerTypeInv /\ ClientTypeInv
    BY DEF TypeInv
  <1>1. StoreTypeInv'
    BY <1>0 DEF ServerRestart, Fault, StoreTypeInv, StoreTypeOK, ReadsTyped, PublishedPair,
                rows, storeHistory, NothingRead, Snapshot, AdminPC
  <1>2. NotifierTypeOK'
    BY DEF ServerRestart, NotifierTypeOK
  <1>3. HandlerTypeInv'
    BY DEF ServerRestart, HandlerTypeInv, HandlerLocals, HandlerPC, NoRequest, Request
  <1>4. ClientTypeInv'
    BY <1>0 DEF ServerRestart, ClientTypeInv
  <1> QED BY <1>1, <1>2, <1>3, <1>4 DEF TypeInv

LEMMA StutterTyped == TypeInv /\ UNCHANGED vars => TypeInv'
  <1> SUFFICES ASSUME TypeInv, UNCHANGED vars PROVE TypeInv'
    OBVIOUS
  <1>1. StoreTypeInv' /\ ClientTypeInv'
    BY QuietHandlerTyped DEF vars
  <1>2. NotifierTypeOK' /\ HandlerTypeInv'
    BY DEF vars, TypeInv, NotifierTypeOK, notifierVars, HandlerTypeInv, HandlerLocals,
           handlerVars
  <1> QED BY <1>1, <1>2 DEF TypeInv

LEMMA TypeInvStep == TypeInv /\ [Next]_vars => TypeInv'
  BY AdminTyped, HandlerTyped, ClientTyped, RestartTyped, StutterTyped DEF Next

(* Every variable of the configuration centre keeps its type (TypeOK), and *)
(* no handler uses a local variable it has not set, for any number of      *)
(* administrators, handlers, clients, values and faults.                   *)
THEOREM TypeCorrect == Spec => []TypeOK
  BY TypeInvInit, TypeInvStep, TypeInvImpliesTypeOK, PTL DEF Spec

-----------------------------------------------------------------------------
(* The notifier. While a Notify has channels left to send to it holds the  *)
(* read lock, so nobody can unsubscribe one of them.                       *)

SendersHoldLock == \A a \in Admins : todo[a] # {} => a \in readers

NotifierInv == NoSendOnClosedChannel /\ SendersHoldLock /\ ListenersAreWaiting

LEMMA NotifierInvInit == Init => NotifierInv
  BY DEF Init, NotifierInit, NotifierInv, NoSendOnClosedChannel, SendersHoldLock,
         ListenersAreWaiting

(* A step that leaves the notifier alone and moves no handler into or out  *)
(* of WaitForChange.                                                       *)
Waits(h) == hpc[h] \in {"waiting", "woken", "expired"}

LEMMA NotifierInvFrame ==
  ASSUME NotifierInv, UNCHANGED <<listeners, readers, todo>>,
         \A h \in Handlers : Waits(h)' <=> Waits(h)
  PROVE  NotifierInv'
  BY DEF NotifierInv, NoSendOnClosedChannel, SendersHoldLock, ListenersAreWaiting, Waits

LEMMA NotifierInvAdmin ==
  ASSUME NEW a \in Admins, TypeInv, NotifierInv,
         AdminStep(a) \/ Notify(a) \/ Send(a) \/ NotifyDone(a)
  PROVE  NotifierInv'
  <1> USE DEF NotifierInv, NoSendOnClosedChannel, SendersHoldLock, ListenersAreWaiting
  <1>0. todo \in [Admins -> SUBSET Handlers] /\ UNCHANGED hpc
    BY DEF TypeInv, NotifierTypeOK, AdminStep, Notify, Send, NotifyDone, handlerVars
  <1>1. CASE AdminStep(a)
    BY <1>0, <1>1 DEF AdminStep, notifierVars
  <1>2. CASE Notify(a)
    BY <1>0, <1>2 DEF Notify, NotifyBegin
  <1>3. CASE Send(a)
    <2>1. PICK h \in todo[a] : NotifySend(a, h, NotifiedVersion(a))
      BY <1>3 DEF Send
    <2>2. /\ \A b \in Admins : todo'[b] \subseteq todo[b]
          /\ UNCHANGED <<listeners, readers>>
      BY <1>0, <2>1 DEF NotifySend
    <2> QED BY <1>0, <2>2
  <1>4. CASE NotifyDone(a)
    BY <1>0, <1>4 DEF NotifyDone, NotifyEnd
  <1> QED BY <1>1, <1>2, <1>3, <1>4

LEMMA NotifierInvHandler ==
  ASSUME NEW h \in Handlers, TypeInv, NotifierInv, HandlerStep(h)
  PROVE  NotifierInv'
  <1>0. hpc \in [Handlers -> HandlerPC]
    BY DEF TypeInv, HandlerTypeInv
  <1>1. CASE WaitBegin(h)
    <2>1. listeners' = listeners \cup {h} /\ UNCHANGED <<readers, todo>>
      BY <1>1 DEF WaitBegin, Subscribe
    <2>2. hpc' = [hpc EXCEPT ![h] = "waiting"]
      BY <1>1 DEF WaitBegin
    <2> QED BY <1>0, <2>1, <2>2
            DEF NotifierInv, NoSendOnClosedChannel, SendersHoldLock, ListenersAreWaiting
  <1>2. CASE WaitEnd(h) \/ AnswerExpired(h)
    <2>1. /\ listeners' = listeners \ {h} /\ UNCHANGED <<readers, todo>>
          /\ readers = {}
      BY <1>2 DEF WaitEnd, AnswerExpired, Unsubscribe, WriteLockFree
    <2>2. \E pc \in {"rereadItem", "free"} : hpc' = [hpc EXCEPT ![h] = pc]
      BY <1>2 DEF WaitEnd, AnswerExpired, Answer
    <2>3. \A a \in Admins : todo[a] = {}
      BY <2>1 DEF NotifierInv, SendersHoldLock
    <2> QED BY <1>0, <2>1, <2>2, <2>3
            DEF NotifierInv, NoSendOnClosedChannel, SendersHoldLock, ListenersAreWaiting
  <1>3. CASE Wake(h) \/ Expire(h)
    <2>1. UNCHANGED <<listeners, readers, todo>>
      BY <1>3 DEF Wake, Receive, Expire, notifierVars
    <2>2. \A k \in Handlers : Waits(k)' <=> Waits(k)
      BY <1>0, <1>3 DEF Wake, Expire, Waits
    <2> QED BY <2>1, <2>2, NotifierInvFrame
  <1>4. CASE GetItem(h) \/ PollItem(h) \/ RereadItem(h)
    <2>1. UNCHANGED <<listeners, readers, todo>>
      BY <1>4 DEF GetItem, PollItem, RereadItem, ItemRead, notifierVars
    <2>2. /\ ~ Waits(h)
          /\ \E pc \in {"getRule", "pollRule", "rereadRule"} : hpc' = [hpc EXCEPT ![h] = pc]
      BY <1>4 DEF GetItem, PollItem, RereadItem, ItemRead, Waits
    <2>3. \A k \in Handlers : Waits(k)' <=> Waits(k)
      BY <1>0, <2>2 DEF Waits
    <2> QED BY <2>1, <2>3, NotifierInvFrame
  <1>5. CASE GetMissing(h) \/ PollMissing(h) \/ RereadMissing(h) \/ GetAnswer(h)
             \/ RereadAnswer(h) \/ PollCompare(h)
    <2>1. UNCHANGED <<listeners, readers, todo>>
      BY <1>5 DEF GetMissing, PollMissing, RereadMissing, GetAnswer, RereadAnswer, PollCompare,
                  notifierVars
    <2>2. /\ ~ Waits(h)
          /\ \E pc \in {"free", "subscribing"} : hpc' = [hpc EXCEPT ![h] = pc]
      BY <1>5 DEF GetMissing, PollMissing, RereadMissing, GetAnswer, RereadAnswer, PollCompare,
                  Answer, Waits
    <2>3. \A k \in Handlers : Waits(k)' <=> Waits(k)
      BY <1>0, <2>2 DEF Waits
    <2> QED BY <2>1, <2>3, NotifierInvFrame
  <1> QED BY <1>1, <1>2, <1>3, <1>4, <1>5 DEF HandlerStep

LEMMA NotifierInvClient ==
  ASSUME NEW c \in Clients, TypeInv, NotifierInv,
         Start(c) \/ ClientLoop(c) \/ Stop(c) \/ LoseConnection(c)
         \/ \E version \in ConfigVersion : RunListener(c, version)
  PROVE  NotifierInv'
  <1>0. hpc \in [Handlers -> HandlerPC]
    BY DEF TypeInv, HandlerTypeInv
  <1>1. UNCHANGED <<listeners, readers, todo>>
    BY DEF Start, ClientLoop, FetchReply, Poll, PollReply, RequestError, LoopExit, Stop,
           LoseConnection, RunListener, notifierVars
  <1>2. CASE Start(c) \/ Poll(c)
    <2>1. \E h \in Handlers, pc \in {"getItem", "pollItem"} :
             hpc[h] = "free" /\ hpc' = [hpc EXCEPT ![h] = pc]
      BY <1>2 DEF Start, Poll, SendRequest
    <2>2. \A k \in Handlers : Waits(k)' <=> Waits(k)
      BY <1>0, <2>1 DEF Waits
    <2> QED BY <1>1, <2>2, NotifierInvFrame
  <1>3. CASE ~ (Start(c) \/ Poll(c))
    <2>1. UNCHANGED hpc
      BY <1>3 DEF ClientLoop, FetchReply, PollReply, RequestError, LoopExit, Stop,
                  LoseConnection, RunListener, handlerVars
    <2> QED BY <1>1, <2>1, NotifierInvFrame DEF Waits
  <1> QED BY <1>2, <1>3

LEMMA NotifierInvStep == TypeInv /\ NotifierInv /\ [Next]_vars => NotifierInv'
  <1>1. NotifierInv /\ ServerRestart => NotifierInv'
    BY DEF ServerRestart, NotifierInv, NoSendOnClosedChannel, SendersHoldLock,
           ListenersAreWaiting
  <1>2. NotifierInv /\ UNCHANGED vars => NotifierInv'
    BY NotifierInvFrame DEF vars, notifierVars, handlerVars, Waits
  <1> QED BY NotifierInvAdmin, NotifierInvHandler, NotifierInvClient, <1>1, <1>2 DEF Next

(* Notify never sends on a channel that Unsubscribe has closed             *)
(* (NoSendOnClosedChannel), whatever pollers time out, leave or are woken  *)
(* while any number of notifications run.                                  *)
THEOREM NeverSendsOnClosedChannel == Spec => []NoSendOnClosedChannel
  <1>1. NotifierInv => NoSendOnClosedChannel
    BY DEF NotifierInv
  <1> QED BY TypeInvInit, TypeInvStep, NotifierInvInit, NotifierInvStep, <1>1, PTL DEF Spec

(* No channel leaks and none is lost: exactly the handlers inside          *)
(* WaitForChange are registered (ListenersAreWaiting).                     *)
THEOREM ListenersMatchWaiters == Spec => []ListenersAreWaiting
  <1>1. NotifierInv => ListenersAreWaiting
    BY DEF NotifierInv
  <1> QED BY TypeInvInit, TypeInvStep, NotifierInvInit, NotifierInvStep, <1>1, PTL DEF Spec
=============================================================================
