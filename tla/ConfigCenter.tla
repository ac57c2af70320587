---------------------------- MODULE ConfigCenter ----------------------------
(***************************************************************************)
(* The configuration centre end to end: Admin API requests on the store    *)
(* (ConfigStore), the notifier (ConfigNotifier), the server's /config/get  *)
(* and /config/poll handlers (server/handler.go) and the SDK clients with  *)
(* their cache, long-polling loop and change listeners (sdk/client.go).    *)
(*                                                                         *)
(* A handler reads the item and the gray rule in two statements, answers   *)
(* at once when the client's MD5 is out of date, and otherwise subscribes, *)
(* waits for a notification, the 30 s timer or the client's departure,     *)
(* unsubscribes and reads again. Time is abstracted: the timer may fire    *)
(* whenever a handler waits.                                               *)
(***************************************************************************)
EXTENDS ConfigStore, ConfigNotifier

CONSTANTS
    Listening,     \* the clients that registered a change listener
    Stoppers       \* the clients that may call Stop

ASSUME ClientAssumption == Listening \subseteq Clients /\ Stoppers \subseteq Clients

VARIABLES
    hpc,           \* where each handler goroutine is
    hreq,          \* the client and the MD5 of the request it serves
    hitem,         \* the item it read
    hver,          \* the version it was notified of
    inForce,       \* history: the MD5s published since it subscribed
    cpc,           \* where each client is
    conn,          \* the handler its request is waiting for, or None
    reply,         \* the response on its way to the client, or None
    cache,         \* the cached version, or None
    stopping,      \* the clients whose stopCh is closed
    spawned,       \* how many listener goroutines hold each version
    applied        \* the last version a listener applied, or None

handlerVars == <<hpc, hreq, hitem, hver, inForce>>
clientVars == <<cpc, conn, reply, cache, stopping, spawned, applied>>
vars == <<storeVars, notifierVars, handlerVars, clientVars>>

HandlerPC == {"free", "getItem", "getRule", "pollItem", "pollRule", "subscribing",
              "waiting", "woken", "expired", "rereadItem", "rereadRule"}
ClientPC == {"new", "fetching", "ready", "polling", "stopped"}

NoRequest == [client |-> None, md5 |-> None]
Request == [client : Clients \cup {None}, md5 : Digests \cup {None}]

(* PollConfigResp; a /config/get that answers 404 leaves the client's      *)
(* cache entry alone, exactly as an unchanged poll.                        *)
Reply == [changed : BOOLEAN, version : ConfigVersion \cup {None}]
Unchanged == [changed |-> FALSE, version |-> None]
Changed(version) == [changed |-> TRUE, version |-> version]

Init ==
    /\ StoreInit /\ NotifierInit
    /\ hpc = [h \in Handlers |-> "free"]
    /\ hreq = [h \in Handlers |-> NoRequest]
    /\ hitem = [h \in Handlers |-> None]
    /\ hver = [h \in Handlers |-> None]
    /\ inForce = [h \in Handlers |-> {}]
    /\ cpc = [c \in Clients |-> "new"]
    /\ conn = [c \in Clients |-> None]
    /\ reply = [c \in Clients |-> None]
    /\ cache = [c \in Clients |-> None]
    /\ stopping = {}
    /\ spawned = [c \in Clients |-> [v \in ConfigVersion |-> 0]]
    /\ applied = [c \in Clients |-> None]

-----------------------------------------------------------------------------
(* Admin API requests.                                                     *)

PublishedNow == IF Published(item) THEN {item.publishedMD5} ELSE {}

Subscribed(h) == hpc[h] \in {"waiting", "woken", "rereadItem", "rereadRule"}

AdminStep(a) ==
    /\ StoreStep(a)
    /\ inForce' = [h \in Handlers |-> IF Subscribed(h) THEN inForce[h] \cup PublishedNow'
                                                       ELSE inForce[h]]
    /\ UNCHANGED <<notifierVars, hpc, hreq, hitem, hver, clientVars>>

(* The version PublishConfig notifies: the published columns it re-read. *)
NotifiedVersion(a) == [value |-> aread[a].value, md5 |-> aread[a].md5,
                       format |-> aread[a].format]

Notify(a) ==
    /\ apc[a] = "notifying" /\ NotifyBegin(a)
    /\ Goto(a, "sending", aread[a])
    /\ UNCHANGED <<rows, ops, faults, storeHistory, handlerVars, clientVars>>

Send(a) ==
    /\ apc[a] = "sending"
    /\ \E h \in todo[a] : NotifySend(a, h, NotifiedVersion(a))
    /\ UNCHANGED <<storeVars, handlerVars, clientVars>>

NotifyDone(a) ==
    /\ apc[a] = "sending" /\ NotifyEnd(a) /\ Return(a)
    /\ UNCHANGED <<rows, ops, faults, storeHistory, handlerVars, clientVars>>

-----------------------------------------------------------------------------
(* The server's handlers.                                                  *)

(* Mutant of GrayApplies: a disabled rule counts. *)
GrayAppliesDisabled(c, rule) == rule # None /\ HitGray(c, rule.percentage)

(* calculateVersion: a gray client gets the draft, anyone else what is     *)
(* published; the format is the item's in both cases.                      *)
GrayApplies(c, rule) == rule # None /\ rule.enabled /\ HitGray(c, rule.percentage)

(* Mutant of CalculateVersion: the draft goes out under the published MD5. *)
CalculateVersionOldMD5(row, c, rule) ==
    [value |-> IF GrayApplies(c, rule) THEN row.draftValue ELSE row.publishedValue,
     md5 |-> row.publishedMD5, format |-> row.format]

CalculateVersion(row, c, rule) ==
    IF GrayApplies(c, rule)
    THEN [value |-> row.draftValue, md5 |-> row.draftMD5, format |-> row.format]
    ELSE [value |-> row.publishedValue, md5 |-> row.publishedMD5, format |-> row.format]

(* The handler returns; its response reaches the client only if the client *)
(* still waits for this very request.                                      *)
Answer(h, response) ==
    LET c == hreq[h].client IN
    /\ hpc' = [hpc EXCEPT ![h] = "free"]
    /\ hreq' = [hreq EXCEPT ![h] = NoRequest]
    /\ hitem' = [hitem EXCEPT ![h] = None]
    /\ hver' = [hver EXCEPT ![h] = None]
    /\ inForce' = [inForce EXCEPT ![h] = {}]
    /\ IF conn[c] = h
       THEN /\ reply' = [reply EXCEPT ![c] = response]
            /\ conn' = [conn EXCEPT ![c] = None]
       ELSE UNCHANGED <<reply, conn>>
    /\ UNCHANGED <<cpc, cache, stopping, spawned, applied>>

ItemRead(h, next) ==
    /\ Published(item)
    /\ hpc' = [hpc EXCEPT ![h] = next]
    /\ hitem' = [hitem EXCEPT ![h] = item]
    /\ UNCHANGED <<storeVars, notifierVars, hreq, hver, inForce, clientVars>>

(* GetPublishedConfig returns an error: no published row, or a storage     *)
(* error.                                                                  *)
ItemMissing ==
    /\ (~ Published(item) /\ UNCHANGED faults) \/ Fault
    /\ UNCHANGED <<rows, apc, aread, ops, storeHistory>>

(* GetGrayRule returns the rule; an error counts as "no rule". *)
RuleRead(rule) ==
    /\ (rule = grayRule /\ UNCHANGED faults) \/ (rule = None /\ Fault)
    /\ UNCHANGED <<rows, apc, aread, ops, storeHistory>>

(* /config/get *)
GetItem(h) == hpc[h] = "getItem" /\ ItemRead(h, "getRule")

GetMissing(h) ==
    /\ hpc[h] = "getItem" /\ ItemMissing
    /\ Answer(h, Unchanged)
    /\ UNCHANGED notifierVars

GetAnswer(h) ==
    /\ hpc[h] = "getRule"
    /\ \E rule \in {grayRule, None} :
          /\ RuleRead(rule)
          /\ Answer(h, Changed(CalculateVersion(hitem[h], hreq[h].client, rule)))
    /\ UNCHANGED notifierVars

(* /config/poll up to the wait *)
PollItem(h) == hpc[h] = "pollItem" /\ ItemRead(h, "pollRule")

PollMissing(h) ==
    /\ hpc[h] = "pollItem" /\ ItemMissing
    /\ Answer(h, Unchanged)
    /\ UNCHANGED notifierVars

PollCompare(h) ==
    /\ hpc[h] = "pollRule"
    /\ \E rule \in {grayRule, None} :
          LET version == CalculateVersion(hitem[h], hreq[h].client, rule) IN
          /\ RuleRead(rule)
          /\ \/ version.md5 # hreq[h].md5 /\ Answer(h, Changed(version))
             \/ /\ version.md5 = hreq[h].md5
                /\ hpc' = [hpc EXCEPT ![h] = "subscribing"]
                /\ hitem' = [hitem EXCEPT ![h] = None]
                /\ UNCHANGED <<hreq, hver, inForce, clientVars>>
    /\ UNCHANGED notifierVars

(* WaitForChange *)
WaitBegin(h) ==
    /\ hpc[h] = "subscribing" /\ Subscribe(h)
    /\ hpc' = [hpc EXCEPT ![h] = "waiting"]
    /\ inForce' = [inForce EXCEPT ![h] = PublishedNow]
    /\ UNCHANGED <<storeVars, hreq, hitem, hver, clientVars>>

Wake(h) ==
    /\ hpc[h] = "waiting" /\ Receive(h)
    /\ hpc' = [hpc EXCEPT ![h] = "woken"]
    /\ hver' = [hver EXCEPT ![h] = chan[h]]
    /\ UNCHANGED <<storeVars, hreq, hitem, inForce, clientVars>>

(* Mutant of Expire: no timer, only a departed client ends the wait. *)
ExpireWithoutTimer(h) ==
    /\ hpc[h] = "waiting" /\ conn[hreq[h].client] # h
    /\ hpc' = [hpc EXCEPT ![h] = "expired"]
    /\ UNCHANGED <<storeVars, notifierVars, hreq, hitem, hver, inForce, clientVars>>

(* The timer fires, or ctx is done because the client went away: both      *)
(* return (nil, false), and select may prefer either to a ready channel.   *)
Expire(h) ==
    /\ hpc[h] = "waiting"
    /\ hpc' = [hpc EXCEPT ![h] = "expired"]
    /\ UNCHANGED <<storeVars, notifierVars, hreq, hitem, hver, inForce, clientVars>>

(* Mutant of AnswerExpired: a timeout leaves the channel registered. *)
AnswerExpiredSubscribed(h) ==
    /\ hpc[h] = "expired" /\ Answer(h, Unchanged)
    /\ UNCHANGED <<storeVars, notifierVars>>

AnswerExpired(h) ==
    /\ hpc[h] = "expired" /\ Unsubscribe(h)
    /\ Answer(h, Unchanged)
    /\ UNCHANGED storeVars

WaitEnd(h) ==
    /\ hpc[h] = "woken" /\ Unsubscribe(h)
    /\ hpc' = [hpc EXCEPT ![h] = "rereadItem"]
    /\ UNCHANGED <<storeVars, hreq, hitem, hver, inForce, clientVars>>

(* Mutant of RereadItem: the handler answers what it was notified of. *)
RereadItemSkipped(h) ==
    /\ hpc[h] = "rereadItem" /\ Answer(h, Changed(hver[h]))
    /\ UNCHANGED <<storeVars, notifierVars>>

(* After a notification: read again; if that fails, answer the version the *)
(* notification carried.                                                   *)
RereadItem(h) == hpc[h] = "rereadItem" /\ ItemRead(h, "rereadRule")

RereadMissing(h) ==
    /\ hpc[h] = "rereadItem" /\ ItemMissing
    /\ Answer(h, Changed(hver[h]))
    /\ UNCHANGED notifierVars

RereadAnswer(h) ==
    /\ hpc[h] = "rereadRule"
    /\ \E rule \in {grayRule, None} :
          /\ RuleRead(rule)
          /\ Answer(h, Changed(CalculateVersion(hitem[h], hreq[h].client, rule)))
    /\ UNCHANGED notifierVars

HandlerStep(h) ==
    \/ GetItem(h) \/ GetMissing(h) \/ GetAnswer(h)
    \/ PollItem(h) \/ PollMissing(h) \/ PollCompare(h)
    \/ WaitBegin(h) \/ Wake(h) \/ Expire(h) \/ AnswerExpired(h) \/ WaitEnd(h)
    \/ RereadItem(h) \/ RereadMissing(h) \/ RereadAnswer(h)

-----------------------------------------------------------------------------
(* The SDK client.                                                         *)

(* An idle goroutine of the server takes the request. *)
SendRequest(c, pc, md5) ==
    \E h \in Handlers :
        /\ hpc[h] = "free"
        /\ hpc' = [hpc EXCEPT ![h] = pc]
        /\ hreq' = [hreq EXCEPT ![h] = [client |-> c, md5 |-> md5]]
        /\ conn' = [conn EXCEPT ![c] = h]
        /\ UNCHANGED <<hitem, hver, inForce>>

ClientGoto(c, pc) == cpc' = [cpc EXCEPT ![c] = pc]

Start(c) ==
    /\ cpc[c] = "new" /\ ClientGoto(c, "fetching")
    /\ SendRequest(c, "getItem", None)
    /\ UNCHANGED <<storeVars, notifierVars, reply, cache, stopping, spawned, applied>>

(* fetchConfig: fills the cache and fires no listener. *)
FetchReply(c) ==
    /\ cpc[c] = "fetching" /\ reply[c] # None
    /\ cache' = [cache EXCEPT ![c] = IF reply[c].changed THEN reply[c].version ELSE @]
    /\ reply' = [reply EXCEPT ![c] = None]
    /\ ClientGoto(c, "ready")
    /\ UNCHANGED <<storeVars, notifierVars, handlerVars, conn, stopping, spawned, applied>>

CachedMD5(c) == IF cache[c] = None THEN None ELSE cache[c].md5

(* Mutant of Poll: the loop may poll although stopCh is closed. *)
PollDespiteStop(c) ==
    /\ cpc[c] = "ready" /\ ClientGoto(c, "polling")
    /\ SendRequest(c, "pollItem", CachedMD5(c))
    /\ UNCHANGED <<storeVars, notifierVars, reply, cache, stopping, spawned, applied>>

(* longPollLoop looks at stopCh before every poll. *)
Poll(c) ==
    /\ cpc[c] = "ready" /\ c \notin stopping
    /\ ClientGoto(c, "polling")
    /\ SendRequest(c, "pollItem", CachedMD5(c))
    /\ UNCHANGED <<storeVars, notifierVars, reply, cache, stopping, spawned, applied>>

(* Mutant of PollReply: an answer without a version empties the cache. *)
PollReplyClears(c) ==
    /\ cpc[c] = "polling" /\ reply[c] # None
    /\ cache' = [cache EXCEPT ![c] = reply[c].version]
    /\ spawned' = IF reply[c].changed /\ c \in Listening
                  THEN [spawned EXCEPT ![c][reply[c].version] = @ + 1] ELSE spawned
    /\ reply' = [reply EXCEPT ![c] = None]
    /\ ClientGoto(c, "ready")
    /\ UNCHANGED <<storeVars, notifierVars, handlerVars, conn, stopping, applied>>

(* pollOnce: a changed version goes to the cache and to one new goroutine  *)
(* per registered listener.                                                *)
PollReply(c) ==
    /\ cpc[c] = "polling" /\ reply[c] # None
    /\ IF reply[c].changed
       THEN /\ cache' = [cache EXCEPT ![c] = reply[c].version]
            /\ spawned' = IF c \in Listening
                          THEN [spawned EXCEPT ![c][reply[c].version] = @ + 1]
                          ELSE spawned
       ELSE UNCHANGED <<cache, spawned>>
    /\ reply' = [reply EXCEPT ![c] = None]
    /\ ClientGoto(c, "ready")
    /\ UNCHANGED <<storeVars, notifierVars, handlerVars, conn, stopping, applied>>

(* The request failed: fetchConfig gives up, pollOnce sleeps RetryDelay. *)
RequestError(c) ==
    /\ cpc[c] \in {"fetching", "polling"} /\ conn[c] = None /\ reply[c] = None
    /\ ClientGoto(c, "ready")
    /\ UNCHANGED <<storeVars, notifierVars, handlerVars, conn, reply, cache, stopping,
                   spawned, applied>>

(* Listener goroutines run in any order. *)
RunListener(c, version) ==
    /\ spawned[c][version] > 0
    /\ spawned' = [spawned EXCEPT ![c][version] = @ - 1]
    /\ applied' = [applied EXCEPT ![c] = version]
    /\ UNCHANGED <<storeVars, notifierVars, handlerVars, cpc, conn, reply, cache, stopping>>

Stop(c) ==
    /\ c \in Stoppers \ stopping /\ cpc[c] \in {"ready", "polling"}
    /\ stopping' = stopping \cup {c}
    /\ UNCHANGED <<storeVars, notifierVars, handlerVars, cpc, conn, reply, cache, spawned,
                   applied>>

(* longPollLoop returns and wg.Wait releases Stop. *)
LoopExit(c) ==
    /\ cpc[c] = "ready" /\ c \in stopping
    /\ ClientGoto(c, "stopped")
    /\ UNCHANGED <<storeVars, notifierVars, handlerVars, conn, reply, cache, stopping,
                   spawned, applied>>

ClientLoop(c) ==
    FetchReply(c) \/ Poll(c) \/ PollReply(c) \/ RequestError(c) \/ LoopExit(c)

-----------------------------------------------------------------------------
(* Faults of the environment.                                              *)

(* The request or its response is lost, or the client's timeout (10 s, or  *)
(* poll_timeout + 10 s) passes; the handler that serves it may run on.     *)
LoseConnection(c) ==
    /\ conn[c] # None \/ reply[c] # None
    /\ conn' = [conn EXCEPT ![c] = None]
    /\ reply' = [reply EXCEPT ![c] = None]
    /\ Fault
    /\ UNCHANGED <<rows, apc, aread, ops, storeHistory, notifierVars, handlerVars,
                   cpc, cache, stopping, spawned, applied>>

(* The server process dies and starts again: the tables survive, requests, *)
(* subscriptions and connections do not.                                   *)
ServerRestart ==
    /\ Fault
    /\ apc' = [a \in Admins |-> "idle"]
    /\ aread' = [a \in Admins |-> NothingRead]
    /\ listeners' = {} /\ readers' = {}
    /\ chan' = [h \in Handlers |-> None]
    /\ todo' = [a \in Admins |-> {}]
    /\ hpc' = [h \in Handlers |-> "free"]
    /\ hreq' = [h \in Handlers |-> NoRequest]
    /\ hitem' = [h \in Handlers |-> None]
    /\ hver' = [h \in Handlers |-> None]
    /\ inForce' = [h \in Handlers |-> {}]
    /\ conn' = [c \in Clients |-> None]
    /\ UNCHANGED <<rows, ops, storeHistory, cpc, reply, cache, stopping, spawned, applied>>

Next ==
    \/ \E a \in Admins : AdminStep(a) \/ Notify(a) \/ Send(a) \/ NotifyDone(a)
    \/ \E h \in Handlers : HandlerStep(h)
    \/ \E c \in Clients : Start(c) \/ ClientLoop(c) \/ Stop(c) \/ LoseConnection(c)
    \/ \E c \in Clients, version \in ConfigVersion : RunListener(c, version)
    \/ ServerRestart

Spec == Init /\ [][Next]_vars

(* Goroutines that can run do run: an Admin API request that was begun, a  *)
(* handler (whose timer fires), a client's loop, a listener. Nobody has to *)
(* send a request, start or stop a client, and no fault has to happen.     *)
RequestInFlight(a) == (apc[a] # "idle" /\ AdminStep(a)) \/ Notify(a) \/ Send(a) \/ NotifyDone(a)

Fairness ==
    /\ \A a \in Admins : WF_vars(RequestInFlight(a))
    /\ \A h \in Handlers : WF_vars(HandlerStep(h))
    /\ \A c \in Clients : WF_vars(ClientLoop(c))
    /\ \A c \in Listening, version \in ConfigVersion : WF_vars(RunListener(c, version))

FairSpec == Spec /\ Fairness

-----------------------------------------------------------------------------
(* Types of the whole state. *)
TypeOK ==
    /\ StoreTypeOK /\ NotifierTypeOK
    /\ hpc \in [Handlers -> HandlerPC]
    /\ hreq \in [Handlers -> Request]
    /\ hitem \in [Handlers -> ConfigItem \cup {None}]
    /\ hver \in [Handlers -> ConfigVersion \cup {None}]
    /\ inForce \in [Handlers -> SUBSET Digests]
    /\ cpc \in [Clients -> ClientPC]
    /\ conn \in [Clients -> Handlers \cup {None}]
    /\ reply \in [Clients -> Reply \cup {None}]
    /\ cache \in [Clients -> ConfigVersion \cup {None}]
    /\ stopping \subseteq Clients
    /\ spawned \in [Clients -> [ConfigVersion -> Nat]]
    /\ applied \in [Clients -> ConfigVersion \cup {None}]

(* The abstract specification, seen through this one: what was released,   *)
(* how far gray rules reached, what the clients cache.                     *)
Abstract == INSTANCE ConfigRelease WITH releases <- released, reach <- maxGray, view <- cache

(* All of this, tables, handlers, notifications, retries and crashes,      *)
(* implements ConfigRelease: each step of the program releases a value,    *)
(* widens the gray group, hands one client a version it may see at that    *)
(* moment, or changes none of the three. No client ever loses what it has. *)
ImplementsRelease == Abstract!Releasing

(* A client never holds a value under another value's MD5, whatever it was *)
(* answered from: the first read, the re-read, or the version carried by a *)
(* notification. With a foreign MD5 the poll comparison would skip a real  *)
(* change, or report one for ever.                                         *)
CachesIntact == \A c \in Clients : cache[c] # None => Intact(cache[c])

(* "Drafts and releases are separate": a client holds a value that was     *)
(* never published only if some rule enabled so far put it in the gray     *)
(* group.                                                                  *)
DraftsStayPrivate ==
    \A c \in Clients :
        (cache[c] # None /\ cache[c].value \notin released) => HitGray(c, maxGray)

(* No channel leaks and none disappears: the registered channels are those *)
(* of the handlers inside WaitForChange, after timeouts, departures of the *)
(* client and restarts of the server.                                      *)
ListenersAreWaiting ==
    listeners = {h \in Handlers : hpc[h] \in {"waiting", "woken", "expired"}}

(* A notification is due to h: its publication is about to be read again,  *)
(* or is being sent and has not reached h.                                 *)
NotificationDue(h) ==
    \E a \in Admins : \/ apc[a] \in {"rereading", "notifying"}
                      \/ apc[a] = "sending" /\ h \in todo[a]

(* A subscribed handler is not forgotten: when another version was         *)
(* published since it subscribed, its channel holds a notification or one  *)
(* is due, however publications, deletions and subscriptions interleave    *)
(* (a fault may break this: see PublishReread and ServerRestart).          *)
SubscribedIsWoken ==
    \A h \in Handlers :
        (/\ hpc[h] = "waiting" /\ chan[h] = None /\ faults = 0
         /\ Published(item) /\ \E d \in inForce[h] : d # item.publishedMD5)
        => NotificationDue(h)

(* The response h gives this very moment, to a client that reads only      *)
(* published values, was in force since h subscribed.                      *)
FreshReply(h) ==
    LET c == hreq[h].client IN
    (/\ hpc[h] \in {"rereadItem", "rereadRule"} /\ hpc'[h] = "free"
     /\ conn[c] = h /\ faults' = 0 /\ Published(item) /\ ~ HitGray(c, maxGray))
    => reply'[c].version.md5 \in inForce[h]

(* A poll that was woken answers a version published at some time since it *)
(* subscribed, never an older one, although the notification that woke it  *)
(* may come from a publication superseded before the poll began. (While    *)
(* nothing is published the notified version is all there is to answer.)   *)
FreshAnswer == [][\A h \in Handlers : FreshReply(h)]_vars

(* A change listener ends on the newest configuration: when all listener   *)
(* goroutines of a client have run, the last version applied is the cached *)
(* one. The goroutines are not ordered, so the code does not ensure this.  *)
ListenerEndsOnCache ==
    \A c \in Listening :
        (applied[c] # None /\ \A v \in ConfigVersion : spawned[c][v] = 0)
        => applied[c] = cache[c]

(* Every request is answered or dropped: no handler goroutine stays for    *)
(* ever, not even one whose client went away.                              *)
HandlersReturn == \A h \in Handlers : hpc[h] # "free" ~> hpc[h] = "free"

(* Stop returns, whatever happens to the poll it waits for. *)
StopReturns == \A c \in Clients : c \in stopping ~> cpc[c] = "stopped"

Settled == ops = MaxOps /\ \A a \in Admins : apc[a] = "idle"

UpToDate(c) == cache[c] # None /\ cache[c].md5 = CalculateVersion(item, c, grayRule).md5

(* Once the administrators are done, every running client ends up with the *)
(* value that is right for it (published, or the draft for a gray client)  *)
(* and keeps it: a publication in the gap between a poll's comparison and  *)
(* its subscription, a skipped or lost notification, an unnotified change  *)
(* of draft or gray rule and a restart of the server only delay it.        *)
Convergence ==
    \A c \in Clients :
        (Settled /\ Published(item) /\ cpc[c] # "new")
        ~> [](c \in stopping \/ UpToDate(c))
=============================================================================
