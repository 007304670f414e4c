---------------------------- MODULE ReplayImport ----------------------------
(***************************************************************************)
(* The replay import: hands of the user are queued while a session is      *)
(* played, and their details are fetched through the game page between     *)
(* sessions, one request at a time, behind an access check.  The service   *)
(* worker, the port to the page with its reconnections, the operation slot *)
(* and the page (ReplayBridge) run side by side; storage survives a stop   *)
(* of the worker, its memory does not.                                     *)
(***************************************************************************)
EXTENDS ReplayBridge, FiniteSets

CONSTANTS
  MaxSessions,   \* sessions the game plays
  MaxHands,      \* hands the game deals
  QueueLimit,    \* REPLAY_IMPORT_QUEUE_LIMIT
  Faults,        \* what may happen beside the game, out of AllFaults
  MaxFaults,     \* how many of them
  MaxStimuli,    \* how many hands and faults together
  Flags          \* values of the setting: "off", "public", "developer"

AllFaults == {"toggle", "disconnect", "late", "stop", "operation", "delete", "retry",
              "timeout", "lapse", "day", "rawfailure"}
ASSUME ReplayAssumption ==
  /\ {MaxSessions, MaxHands, MaxFaults, MaxStimuli} \subseteq Nat /\ QueueLimit \in Nat \ {0}
  /\ Faults \subseteq AllFaults /\ Flags \subseteq {"off", "public", "developer"}

VARIABLES
  page,     \* the game page
  toPage,   \* messages of the worker under way to the page
  link,     \* the port: up or not, its number, what the content script still has to send
  w,        \* the worker's memory
  db,       \* storage: the setting, the access record, the queue and the details
  op,       \* the operation slot: "idle", "operation" or "delete"
  env       \* what happened, for the bounds and the properties

vars == <<page, toPage, link, w, db, op, env>>

NoToken == [place |-> "none", conns |-> {}, conn |-> 0, activity |-> "unknown", known |-> FALSE]
NoRequest == [kind |-> "none"]
NoDrain == [pc |-> "idle", rerun |-> FALSE, queued |-> {}, left |-> <<>>, settled |-> {},
            aborted |-> FALSE, issued |-> FALSE, wait |-> 0, answer |-> "none", target |-> 0]
NewWorker(epoch) ==
  [epoch |-> epoch, token |-> NoToken, auth |-> FALSE, ingest |-> <<>>, tasks |-> <<>>,
   req |-> NoRequest, drain |-> [NoDrain EXCEPT !.pc = "barrier"]]

Init ==
  /\ \E flag \in Flags :
       /\ page = NewPage(flag # "off")
       /\ db = [flag |-> flag, phase |-> "disabled", queue |-> <<>>, details |-> {}]
  /\ toPage = <<>> /\ op = "idle"
  /\ link = [up |-> TRUE, conn |-> 0, outbox |-> <<>>]
  /\ w = NewWorker(0)
  /\ env = [sessions |-> 0, hands |-> 0, faults |-> 0, lapsed |-> FALSE, old |-> {},
            accepted |-> {}, released |-> {}, deaf |-> FALSE, failed |-> FALSE]

Fault(kind) ==
  kind \in Faults /\ env.faults < MaxFaults /\ env.hands + env.faults < MaxStimuli
Counted == [env EXCEPT !.faults = @ + 1]
isBusy == op # "idle"
isActivePortOutsideSession == w.token.place = "port" /\ w.token.activity = "inactive"
canFetchNow == isActivePortOutsideSession
findActivePortForPlayer == w.token.place = "port" /\ w.token.known
ActivePortConnected(target) ==
  link.up /\ w.token.place = "port" /\ w.token.conn = link.conn /\ target = link.conn
readReplayImportEnabled ==
  \/ db.flag = "developer"
  \/ db.flag = "public" /\ db.phase = "verified" /\ ~env.lapsed

\* One drain at a time; a trigger that finds one running books a single rerun.
drainReplayImportQueueJoined(x) ==   \* mutant
  IF x.drain.pc = "idle" THEN [x EXCEPT !.drain.pc = "barrier"] ELSE x
drainReplayImportQueue(x) ==
  IF x.drain.pc = "idle" THEN [x EXCEPT !.drain.pc = "barrier"] ELSE [x EXCEPT !.drain.rerun = TRUE]
Return(x) ==
  [x EXCEPT !.drain = IF @.rerun THEN [NoDrain EXCEPT !.pc = "barrier"] ELSE NoDrain]

settle(x, answer) ==
  [x EXCEPT !.req = NoRequest, !.drain.answer = answer,
            !.drain.pc = IF @ = "verifying" THEN "verdict" ELSE "answered"]
releaseReplayRequests(x, answer) ==
  IF x.req.kind = "none" THEN x
  ELSE settle(x, IF x.req.kind = "verify" THEN answer ELSE "none")

\* What the page posts reaches the worker at once, or waits for the next port.
Received(x, conn, posts) ==
  [x EXCEPT !.ingest = @ \o [i \in DOMAIN posts |-> [conn |-> conn, post |-> posts[i]]]]
Deliver(x, posts) ==
  IF op = "delete" THEN x
  ELSE IF posts = AuthCaptured THEN drainReplayImportQueue([x EXCEPT !.auth = TRUE])
  ELSE Received(x, link.conn, posts)
Posted(posts) ==
  IF link.up THEN /\ w' = Deliver(w, posts) /\ UNCHANGED link
  ELSE /\ link' = [link EXCEPT !.outbox = IF posts = AuthCaptured THEN @ ELSE @ \o posts]
       /\ UNCHANGED w
PageHandles(result) == page' = result.page /\ Posted(result.posts)

-----------------------------------------------------------------------------
(* The game and the page.                                                  *)

GameEvent(kind, hand) == <<[type |-> kind, hand |-> hand]>>
Playing == page.activity = "active"
Deaf(kind) == op = "delete" /\ link.up /\ kind # "hand"

SessionStart ==
  /\ ~Playing /\ env.sessions < MaxSessions
  /\ page' = setReplayPageSessionActivity(page, "active")
  /\ Posted(GameEvent("start", 0))
  /\ env' = [env EXCEPT !.sessions = @ + 1, !.deaf = Deaf("start")]
  /\ UNCHANGED <<toPage, db, op>>

HandPlayed ==
  /\ Playing /\ env.hands < MaxHands /\ env.hands + env.faults < MaxStimuli
  /\ Posted(GameEvent("hand", env.hands + 1))
  /\ env' = [env EXCEPT !.hands = @ + 1]
  /\ UNCHANGED <<page, toPage, db, op>>

SessionEnd ==
  /\ Playing
  /\ page' = setReplayPageSessionActivity(page, "inactive")
  /\ Posted(GameEvent("end", 0))
  /\ env' = [env EXCEPT !.deaf = Deaf("end")]
  /\ UNCHANGED <<toPage, db, op>>

GameCallsApi ==
  /\ page.enabled /\ ~page.auth
  /\ PageHandles(announceAuthCaptured(page))
  /\ UNCHANGED <<toPage, db, op, env>>

ContentSeesFlag ==
  /\ page.enabled # (db.flag # "off")
  /\ PageHandles(RefreshConfig(page, db.flag # "off"))
  /\ UNCHANGED <<toPage, db, op, env>>

PageReceives ==
  /\ toPage # <<>>
  /\ toPage' = Tail(toPage)
  /\ PageHandles(onMessage(page, Head(toPage)))
  /\ UNCHANGED <<db, op, env>>

PageTakesRequest ==
  /\ ~page.http.live /\ page.queue # <<>>
  /\ PageHandles(replayFetchQueue(page))
  /\ UNCHANGED <<toPage, db, op, env>>

\* The server: a verification tells whether the pass is valid, a detail is given, refused
\* for good (2301, 2302 and other final errors), or the request fails for now.
ServerAnswers(req) ==
  IF req.kind = "verify" THEN {IF env.lapsed THEN "expired" ELSE "ok"}
  ELSE IF req.hand \in env.old THEN {"gone"} ELSE {"ok", "gone"}

HttpEnds ==
  /\ page.http.live
  /\ \/ \E answer \in ServerAnswers(page.http.req) : PageHandles(Answered(page, answer))
        /\ UNCHANGED env
     \/ /\ Fault("retry") /\ env' = Counted /\ PageHandles(Answered(page, "retry"))
  /\ UNCHANGED <<toPage, db, op>>

-----------------------------------------------------------------------------
(* The port.                                                               *)

Reconnected(x) ==   \* registerActivePortConnection within the grace of the same document
  IF x.token.place = "candidate"
  THEN [x EXCEPT !.token.place = "port", !.token.conn = link.conn + 1, !.token.conns = @ \cup {link.conn + 1}]
  ELSE x
releaseActivePort(x) ==
  IF x.token.place = "port" /\ x.token.conn = link.conn THEN [x EXCEPT !.token.place = "candidate"] ELSE x

Disconnect ==
  /\ link.up /\ Fault("disconnect")
  /\ link' = [link EXCEPT !.up = FALSE]
  /\ toPage' = <<>>
  /\ page' = postReplayCancel(page)
  /\ w' = releaseReplayRequests([releaseActivePort(w) EXCEPT !.auth = FALSE], "error")
  /\ env' = Counted
  /\ UNCHANGED <<db, op>>

Connected(x) ==
  LET y == drainReplayImportQueue(x)
      z == IF op # "delete" /\ page.enabled /\ page.auth
           THEN drainReplayImportQueue([y EXCEPT !.auth = TRUE]) ELSE y
  IN IF op = "delete" THEN z ELSE Received(z, link.conn + 1, link.outbox)

Reconnect ==
  /\ ~link.up
  /\ LET deaf == env.deaf \/ (op = "delete" /\ \E m \in ToSet(link.outbox) : m.type = "start")
     IN \/ w' = Connected(Reconnected(w)) /\ env' = [env EXCEPT !.deaf = deaf]
        \/ /\ Fault("late") /\ w.token.place = "candidate"
           /\ w' = Connected(w) /\ env' = [Counted EXCEPT !.deaf = deaf]
  /\ link' = [up |-> TRUE, conn |-> link.conn + 1, outbox |-> <<>>]
  /\ UNCHANGED <<page, toPage, db, op>>

\* The worker stops and starts anew; the content script's port breaks with it.
WorkerStops ==
  /\ Fault("stop")
  /\ op' = "idle"
  /\ link' = [link EXCEPT !.up = FALSE]
  /\ toPage' = <<>>
  /\ page' = IF link.up THEN postReplayCancel(page) ELSE page
  /\ w' = NewWorker(w.epoch + 1)
  /\ env' = Counted
  /\ UNCHANGED db

-----------------------------------------------------------------------------
(* The worker's ingestion queue.                                           *)

claimActivePort(x, conn) ==
  IF conn \in x.token.conns THEN x
  ELSE LET at == IF link.up THEN link.conn ELSE conn
       IN [x EXCEPT !.token = [place |-> "port", conns |-> {conn, at}, conn |-> at,
                               activity |-> "unknown", known |-> FALSE]]
MarkActive(x) ==
  IF x.token.place = "none" THEN x ELSE [x EXCEPT !.token.activity = "active"]
cancelReplayRequestsForSessionStart(x) ==
  /\ w' = releaseReplayRequests(x, "in-session")
  /\ toPage' = IF link.up THEN Append(toPage, [kind |-> "cancel"]) ELSE toPage

handleReplayPortMessage(x, conn, m) ==
  IF x.req.kind # "none" /\ m.id = x.req.id /\ m.epoch = x.epoch /\ conn = x.req.conn
  THEN settle(x, m.outcome) ELSE x

processEvent(x, conn, m) ==
  LET y == claimActivePort(x, conn)
  IN CASE m.type = "start" ->
            cancelReplayRequestsForSessionStart([MarkActive(y) EXCEPT !.token.known = TRUE])
       [] m.type = "end" ->
            /\ w' = drainReplayImportQueue([y EXCEPT !.token.activity = "inactive"])
            /\ UNCHANGED toPage
       [] OTHER ->
            /\ w' = [y EXCEPT !.tasks = Append(@, [type |-> "enqueue", hand |-> m.hand])]
            /\ UNCHANGED toPage

Ingest ==
  /\ w.ingest # <<>>
  /\ LET conn == Head(w.ingest).conn
         m == Head(w.ingest).post
         x == [w EXCEPT !.ingest = Tail(@)]
     IN \/ /\ m.type = "result" /\ w' = handleReplayPortMessage(x, conn, m)
           /\ UNCHANGED <<toPage, env>>
        \/ /\ m.type # "result" /\ processEvent(x, conn, m) /\ UNCHANGED env
        \/ \* The raw write fails: the event is dropped, but a start still closes the gate.
           /\ m.type # "result" /\ Fault("rawfailure")
           /\ env' = [Counted EXCEPT !.deaf = @ \/ m.type = "end"]
           /\ IF m.type = "start" THEN cancelReplayRequestsForSessionStart(MarkActive(x))
              ELSE w' = x /\ UNCHANGED toPage
  /\ UNCHANGED <<page, link, db, op>>

-----------------------------------------------------------------------------
(* The queue of hands, rewritten by one mutation after the other.          *)

InQueue == ToSet(db.queue)
appendToQueue(queue, hand) ==
  IF hand \in ToSet(queue) THEN queue
  ELSE LET all == Append(queue, hand)
       IN IF Len(all) > QueueLimit THEN Tail(all) ELSE all
Without(queue, hands) ==
  LET kept[i \in 0..Len(queue)] ==
        IF i = 0 THEN <<>>
        ELSE IF queue[i] \in hands THEN kept[i - 1] ELSE Append(kept[i - 1], queue[i])
  IN kept[Len(queue)]
updateQueueKeepingDeferred(queue, task) ==   \* mutant
  Without(queue, (ToSet(queue) \ task.queued) \cup task.settled)
updateQueue(queue, task) == Without(queue, task.settled)

Mutate ==
  /\ w.tasks # <<>>
  /\ LET task == Head(w.tasks)
         kept == IF task.type = "settle" THEN updateQueue(db.queue, task)
                 ELSE IF readReplayImportEnabled THEN appendToQueue(db.queue, task.hand) ELSE db.queue
     IN /\ db' = [db EXCEPT !.queue = kept]
        /\ env' = IF task.type = "settle" THEN env
                  ELSE [env EXCEPT !.accepted = @ \cup (ToSet(kept) \ InQueue),
                                   !.released = @ \cup (InQueue \ ToSet(kept))]
  /\ w' = [w EXCEPT !.tasks = Tail(@), !.drain.wait = IF @ > 0 THEN @ - 1 ELSE 0]
  /\ UNCHANGED <<page, toPage, link, op>>

-----------------------------------------------------------------------------
(* The drain.                                                              *)

At(pc) == w.drain.pc = pc
Goto(pc) == w' = [w EXCEPT !.drain.pc = pc]
Leave == w' = Return(w)
Abort == w' = [w EXCEPT !.drain.aborted = TRUE, !.drain.pc = "settle"]
MayFetch == canFetchNow /\ ~isBusy /\ readReplayImportEnabled
Skip(x) == [x EXCEPT !.drain.left = Tail(@), !.drain.pc = "pick", !.drain.answer = "none"]
Current == Head(w.drain.left)

withKeepAlive ==
  /\ At("barrier") /\ w.ingest = <<>>
  /\ IF canFetchNow /\ ~isBusy THEN Goto("access") ELSE Leave
  /\ env' = [env EXCEPT !.failed = FALSE]
  /\ UNCHANGED <<page, toPage, link, db, op>>

Phase(phase) == db' = [db EXCEPT !.phase = phase]

verifyReplayImportAccess ==
  /\ At("access")
  /\ LET stillVerified == db.phase = "verified" /\ ~env.lapsed
         unless(phase) == IF stillVerified THEN UNCHANGED db ELSE Phase(phase)
     IN CASE db.flag = "developer" -> Goto("allowed") /\ UNCHANGED db
          [] db.flag = "off" -> Leave /\ Phase("disabled")
          [] ~isActivePortOutsideSession -> Leave /\ unless("pending-session")
          [] ~(ActivePortConnected(w.token.conn) /\ w.auth) -> Leave /\ unless("pending-auth")
          [] OTHER -> /\ w' = [w EXCEPT !.drain.pc = "verify", !.drain.target = w.token.conn]
                      /\ Phase("checking")
  /\ UNCHANGED <<page, toPage, link, op, env>>

UnderWay == ToSet(link.outbox) \cup {m.post : m \in ToSet(w.ingest)}
RequestIds ==
  {m.id : m \in {n \in ToSet(toPage) : n.kind # "cancel"}} \cup {r.id : r \in ToSet(page.queue \o page.held)}
  \cup (IF page.http.live THEN {page.http.req.id} ELSE {}) \cup {m.id : m \in {n \in UnderWay : n.type = "result"}}
\* crypto.randomUUID(): no request that may still be answered has this id.
NewId == CHOOSE i \in 0..Cardinality(RequestIds) : i \notin RequestIds

Request(kind, hand, pc) ==
  /\ w' = [w EXCEPT !.req = [kind |-> kind, id |-> NewId, conn |-> link.conn],
                   !.drain.pc = pc, !.drain.issued = (kind = "detail")]
  /\ toPage' = Append(toPage, [kind |-> kind, id |-> NewId, epoch |-> w.epoch, hand |-> hand,
                               stale |-> FALSE])

requestReplayVerification ==
  /\ At("verify")
  /\ IF ~isActivePortOutsideSession
     THEN w' = [w EXCEPT !.drain.answer = "in-session", !.drain.pc = "verdict"] /\ UNCHANGED toPage
     ELSE IF ActivePortConnected(w.drain.target) THEN Request("verify", 0, "verifying")
     ELSE w' = [w EXCEPT !.drain.answer = "error", !.drain.pc = "verdict"] /\ UNCHANGED toPage
  /\ UNCHANGED <<page, link, db, op, env>>

VerifiedPhase ==
  LET answer == w.drain.answer
  IN CASE answer = "ok" -> IF env.lapsed THEN "expired" ELSE "verified"
       [] answer = "no-auth" -> "pending-auth"
       [] answer = "in-session" -> "pending-session"
       [] OTHER -> answer

VerificationAnswered ==
  /\ At("verdict")
  /\ CASE db.flag = "developer" -> Goto("allowed") /\ UNCHANGED <<db, env>>
       [] db.flag = "off" -> Leave /\ Phase("disabled") /\ UNCHANGED env
       [] OTHER ->
            /\ Phase(VerifiedPhase)
            /\ IF VerifiedPhase = "verified" THEN Goto("allowed") ELSE Leave
            /\ env' = [env EXCEPT !.failed = VerifiedPhase = "error"]
  /\ UNCHANGED <<page, toPage, link, op>>

startKeepAlive ==
  /\ At("allowed")
  /\ IF canFetchNow /\ ~isBusy THEN Goto("enabled") ELSE Leave
  /\ UNCHANGED <<page, toPage, link, db, op, env>>

drainOnce ==
  /\ At("enabled")
  /\ IF MayFetch THEN w' = [w EXCEPT !.drain.pc = "tail", !.drain.wait = Len(w.tasks)] ELSE Leave
  /\ UNCHANGED <<page, toPage, link, db, op, env>>

ReadQueue ==
  /\ At("tail") /\ w.drain.wait = 0
  /\ LET gone == InQueue \cap (env.old \cup db.details)
     IN /\ IF db.queue = <<>> THEN Leave
           ELSE w' = [w EXCEPT !.drain.pc = "pick", !.drain.queued = InQueue, !.drain.settled = gone,
                       !.drain.left = Without(db.queue, gone)]
        /\ env' = [env EXCEPT !.released = @ \cup (gone \ db.details)]
  /\ UNCHANGED <<page, toPage, link, db, op>>

PickHand ==
  /\ At("pick")
  /\ CASE w.drain.left = <<>> -> Goto("settle")
       [] w.drain.left # <<>> /\ ~MayFetch -> Abort
       [] w.drain.left # <<>> /\ MayFetch /\ ~findActivePortForPlayer -> w' = Skip(w)
       [] OTHER -> w' = [w EXCEPT !.drain.target = w.token.conn,
                                  !.drain.pc = IF w.drain.issued THEN "paused" ELSE "send"]
  /\ UNCHANGED <<page, toPage, link, db, op, env>>

PauseEnds ==
  /\ At("paused")
  /\ CASE ~MayFetch -> Abort
       [] MayFetch /\ ~findActivePortForPlayer -> w' = Skip(w)
       [] OTHER -> w' = [w EXCEPT !.drain.target = w.token.conn, !.drain.pc = "send"]
  /\ UNCHANGED <<page, toPage, link, db, op, env>>

requestReplayDetails ==
  /\ At("send")
  /\ IF isActivePortOutsideSession /\ ActivePortConnected(w.drain.target)
     THEN Request("detail", Current, "fetching")
     ELSE w' = [w EXCEPT !.drain.answer = "none", !.drain.issued = TRUE, !.drain.pc = "answered"] /\ UNCHANGED toPage
  /\ UNCHANGED <<page, link, db, op, env>>

\* A request that can no longer be answered ends by its timer; one that still can may too.
TimeOut ==
  /\ w.req.kind # "none"
  /\ \/ w.req.id \notin RequestIds /\ UNCHANGED env
     \/ Fault("timeout") /\ env' = Counted
  /\ w' = releaseReplayRequests(w, "error")
  /\ UNCHANGED <<page, toPage, link, db, op>>

DetailAnswered ==
  /\ At("answered")
  /\ LET answer == w.drain.answer
     IN /\ CASE ~MayFetch -> Abort
             [] MayFetch /\ answer = "ok" -> Goto("storing")
             [] MayFetch /\ answer = "gone" -> w' = [Skip(w) EXCEPT !.drain.settled = @ \cup {Current}]
             [] OTHER -> w' = Skip(w)
        /\ env' = IF MayFetch /\ answer = "gone" THEN [env EXCEPT !.released = @ \cup {Current}]
                  ELSE IF MayFetch /\ answer # "ok" THEN [env EXCEPT !.failed = TRUE] ELSE env
  /\ UNCHANGED <<page, toPage, link, db, op>>

mayStoreAnyway == TRUE   \* mutant
mayStore == MayFetch
storeReplayDetail ==
  /\ At("storing")
  /\ IF mayStore
     THEN /\ db' = [db EXCEPT !.details = @ \cup {Current}]
          /\ w' = [Skip(w) EXCEPT !.drain.settled = @ \cup {Current}]
     ELSE Abort /\ UNCHANGED db
  /\ UNCHANGED <<page, toPage, link, op, env>>

SettleHands ==
  /\ At("settle")
  /\ IF isBusy THEN Leave
     ELSE w' = [w EXCEPT !.drain.pc = "settling", !.drain.wait = Len(w.tasks) + 1,
                  !.tasks = Append(@, [type |-> "settle", settled |-> w.drain.settled, queued |-> w.drain.queued])]
  /\ UNCHANGED <<page, toPage, link, db, op, env>>

DrainEnds ==
  /\ At("settling") /\ w.drain.wait = 0
  /\ Leave
  /\ UNCHANGED <<page, toPage, link, db, op, env>>

Drain ==
  \/ withKeepAlive \/ verifyReplayImportAccess \/ requestReplayVerification \/ VerificationAnswered
  \/ startKeepAlive \/ drainOnce \/ ReadQueue \/ PickHand \/ PauseEnds \/ requestReplayDetails
  \/ DetailAnswered \/ storeReplayDetail \/ SettleHands \/ DrainEnds

-----------------------------------------------------------------------------
(* The rest of the extension and the world.                                *)

ToggleFlag ==
  /\ Fault("toggle") /\ page.enabled = (db.flag # "off")
  /\ \E flag \in Flags \ {db.flag} : db' = [db EXCEPT !.flag = flag]
  /\ w' = drainReplayImportQueue(w)
  /\ env' = Counted
  /\ UNCHANGED <<page, toPage, link, op>>

OperationStarts ==
  /\ op = "idle"
  /\ \E kind \in {"operation", "delete"} : Fault(kind) /\ op' = kind
  /\ env' = Counted
  /\ UNCHANGED <<page, toPage, link, w, db>>

OperationEnds ==
  /\ op # "idle" /\ op' = "idle"
  /\ w' = drainReplayImportQueue(w)
  /\ IF op = "delete"
     THEN /\ db' = [db EXCEPT !.queue = <<>>, !.details = {}]
          /\ env' = [env EXCEPT !.accepted = {}, !.released = {}]
     ELSE UNCHANGED <<db, env>>
  /\ UNCHANGED <<page, toPage, link>>

PassLapses ==
  /\ Fault("lapse") /\ ~env.lapsed
  /\ env' = [Counted EXCEPT !.lapsed = TRUE]
  /\ UNCHANGED <<page, toPage, link, w, db, op>>

\* The calendar window of every hand queued so far closes.
DayPasses ==
  /\ Fault("day") /\ ~(InQueue \subseteq env.old)
  /\ env' = [Counted EXCEPT !.old = @ \cup InQueue]
  /\ UNCHANGED <<page, toPage, link, w, db, op>>

Next ==
  \/ SessionStart \/ HandPlayed \/ SessionEnd \/ GameCallsApi \/ ContentSeesFlag
  \/ PageReceives \/ PageTakesRequest \/ HttpEnds
  \/ Disconnect \/ Reconnect \/ WorkerStops \/ Ingest \/ Mutate \/ Drain \/ TimeOut
  \/ ToggleFlag \/ OperationStarts \/ OperationEnds \/ PassLapses \/ DayPasses

\* Promises, timers and the network go on; what the user and the game do is not promised.
Fairness ==
  /\ WF_vars(PageReceives) /\ WF_vars(PageTakesRequest) /\ WF_vars(HttpEnds)
  /\ WF_vars(Ingest) /\ WF_vars(Mutate) /\ WF_vars(Drain) /\ WF_vars(TimeOut)
  /\ WF_vars(ContentSeesFlag) /\ WF_vars(Reconnect) /\ WF_vars(OperationEnds)

Spec == Init /\ [][Next]_vars /\ Fairness

-----------------------------------------------------------------------------
\* No request of the extension is open at the server while the page plays: the page itself
\* stops it with the socket event, whatever the worker knows (replay_bridge.ts 682-691).
NoRequestInSession == Playing => ~page.http.live \/ page.http.aborted

\* A detail is written only between sessions, unless the worker has yet to process the
\* start of the session or a deletion was dropping the page's messages (replay-import.ts 660-674).
StartUnderWay == \E m \in UnderWay : m.type = "start"
NothingStoredInSession ==
  [][~(db'.details \subseteq db.details) => ~Playing \/ StartUnderWay \/ env.deaf]_vars

\* A hand that was taken into the queue stays there until its detail is stored, the server or
\* the calendar refuses it for good, the queue overflows, or the user deletes the data,
\* whatever is queued while a drain settles (replay-import.ts 560-565, 722-725).
QueueLosesNothing == env.accepted \subseteq InQueue \cup db.details \cup env.released

\* When the user is outside a session with a connected page, a known player, a valid pass and
\* a captured envelope, no operation runs, no request failed and no end of a session was dropped
\* since the last trigger, the queue empties: no trigger is consumed by a drain that was giving up (replay-import.ts 440-463).
MayDrain ==
  /\ isActivePortOutsideSession /\ findActivePortForPlayer /\ ActivePortConnected(w.token.conn)
  /\ ~Playing /\ ~isBusy /\ w.auth /\ page.auth /\ page.enabled
  /\ db.flag # "off" /\ ~env.lapsed /\ ~env.failed /\ ~env.deaf
EventuallyFetched == <>[]MayDrain => []<>(db.queue = <<>>)
=============================================================================
