------------------------------ MODULE LiveHud ------------------------------
(***************************************************************************)
(* From the game's events to the HUD on the screen: the port of the game    *)
(* tab and the token that says which port is active, the queue of           *)
(* statistics, recalculations that overtake it, the completed hands and     *)
(* the cache of the recent hands, the restored last table, and App in each  *)
(* tab.  What the worker posts is handled at once; its computations are     *)
(* not, and the worker may stop between any two.                            *)
(***************************************************************************)
EXTENDS LiveApp

CONSTANTS
  Tabs,         \* game tabs; one of them plays at a time
  MaxSessions,  \* bound: sessions played
  MaxDeals,     \* bound: hands dealt
  SittingOut,   \* bound: the opponents' seats that a hand may leave empty
  MaxDetails,   \* bound: replay details stored
  Faults,       \* what may happen beside the game, out of AllFaults
  Alone,        \* bound: those that happen with no other
  MaxFaults     \* bound: how many of the others

AllFaults == {"disconnect", "late", "stop", "reload", "filter", "batch", "import",
              "missed", "spectate", "panel"}
ASSUME HudAssumption ==
  /\ {MaxSessions, MaxDeals, MaxDetails, MaxFaults} \subseteq Nat /\ Alone \cup Faults \subseteq AllFaults
  /\ N \in Nat \ {0} /\ SittingOut \subseteq Places /\ 0 \notin Tabs
  /\ MaxSessions # 0 /\ DOMAIN Table = 1..MaxSessions
  /\ \A s \in DOMAIN Table : Table[s].hero \in 0..N - 1 /\ Table[s].players \in [Places -> Nat]

VARIABLES
  game,   \* the session played, the deals, the hand that is open
  link,   \* the port of each tab: up or not, its document, what still has to be sent
  w,      \* the worker's memory
  db,     \* hands and details stored, the persisted deal, the saved last table
  apps,   \* App in each tab
  panel,  \* an open panel of recent hands
  env     \* faults so far

vars == <<game, link, w, db, apps, panel, env>>

HeroId == Table[1].players[Table[1].hero + 1]
NoRows == [rows |-> <<>>, of |-> NoDeal, packed |-> FALSE, outOfTurn |-> FALSE]
NoData == [hands |-> {}, details |-> 0]
NoCache == [hit |-> FALSE, data |-> NoData]
NoHand == [deal |-> NoDeal, gen |-> 0]
NewWorker ==
  [place |-> "none", tab |-> 0, doc |-> 0, gen |-> 0, next |-> 0, gens |-> [t \in Tabs |-> 0],
   known |-> NoRows, live |-> NoDeal, latest |-> NoDeal, events |-> NoHand, dealGen |-> 0,
   counting |-> <<>>, queue |-> <<>>, recalcs |-> {}, writing |-> <<>>, batch |-> "off", batchBehind |-> NoDeal,
   handEpoch |-> 0, replayEpoch |-> 0, pending |-> 0, completed |-> {},
   fetches |-> {}, cache |-> NoCache, cacheGen |-> 0]
NewFetch(id) == [id |-> id, pc |-> "asked", gen |-> 0, data |-> NoData]
\* A page that was loaded before anything was known.
LoadedPage == [NewApp EXCEPT !.mounted = TRUE, !.loading = FALSE, !.pre = "done"]
NoPanel == [tab |-> 0, status |-> "closed", want |-> 0, hand |-> 0, replay |-> 0, data |-> NoData]

Init ==
  /\ game = [tab |-> 0, session |-> 0, playing |-> FALSE, dealt |-> NoDeal, count |-> 0,
             hand |-> FALSE]
  /\ link = [t \in Tabs |-> [up |-> TRUE, doc |-> 0, outbox |-> <<>>]]
  /\ w = NewWorker
  /\ db = [hands |-> {0}, details |-> 0, latest |-> NoDeal, snapshot |-> EMPTY_SEATS]
  /\ apps = [t \in Tabs |-> LoadedPage]
  /\ panel = NoPanel
  /\ env = [faults |-> 0, behind |-> FALSE, restarted |-> FALSE]

Fault(kind) ==
  /\ kind \in Faults /\ env.faults < MaxFaults
  /\ kind \in Alone => env.faults = 0
Counted(kind) == [env EXCEPT !.faults = IF kind \in Alone THEN MaxFaults ELSE @ + 1]

-----------------------------------------------------------------------------
(* The active port.                                                        *)

resolveGeneration(x) == IF x.place = "none" THEN 0 ELSE x.gen
getActivePort(x) == IF x.place = "port" THEN {x.tab} ELSE {}
liveEvtDeal(x) == IF x.live = NoDeal THEN x.latest ELSE x.live
DealContext(x) == IF x.dealGen = resolveGeneration(x) THEN liveEvtDeal(x) ELSE NoDeal

\* claimActivePortForGameEvent: the port an event came through is the active one.
claimActivePort(x, t) ==
  IF resolveGeneration(x) # 0 /\ x.gens[t] = x.gen THEN x
  ELSE [x EXCEPT !.place = "port", !.tab = t, !.doc = link[t].doc, !.next = @ + 1,
                 !.gen = x.next + 1, !.gens[t] = x.next + 1, !.dealGen = 0]
releaseActivePort(x, t) ==
  LET y == [x EXCEPT !.gens[t] = 0]
  IN IF t \in getActivePort(x) THEN [y EXCEPT !.place = "candidate"] ELSE y

-----------------------------------------------------------------------------
(* What reaches App, and the panel that follows it.                        *)

Payload(x, rows, deal) ==
  [rows |-> rows.rows, of |-> rows.of, packed |-> rows.packed, outOfTurn |-> rows.outOfTurn,
   deal |-> deal, epoch |-> x.handEpoch, completed |-> x.completed]
Heard(a) == [a EXCEPT !.pre = IF @ = "asked" THEN "overtaken" ELSE @]
Receive(a, m) ==
  IF ~a.mounted THEN Heard(a)
  ELSE LET b == handleStatsMessage(Heard(a), m)
       IN IF isBehindBoundary(a, m) \/ isSpectatorDeal(m) THEN b
          ELSE [b EXCEPT !.live = TRUE, !.remembered = EMPTY_SEATS, !.completed = m.completed]

\* The panel fetches again when an epoch changes, and closes with the lineup it was
\* opened on.
Followed(p, x, new) ==
  IF p.tab = 0 THEN [panel |-> p, fetches |-> x.fetches]
  ELSE LET a == new[p.tab]
           asks == a.handEpoch # p.hand \/ a.replayEpoch # p.replay
       IN IF \A k \in Places \ {Hero} : ~isExist(a.seats[k])
          THEN [panel |-> [NoPanel EXCEPT !.want = p.want], fetches |-> x.fetches]
          ELSE IF ~asks THEN [panel |-> p, fetches |-> x.fetches]
          ELSE [panel |-> [p EXCEPT !.status = "loading", !.want = @ + 1, !.data = NoData,
                                    !.hand = a.handEpoch, !.replay = a.replayEpoch],
                fetches |-> x.fetches \cup
                              {NewFetch(p.want + 1)}]
Shown(x, new) ==
  LET f == Followed(panel, x, new)
  IN apps' = new /\ panel' = f.panel /\ w' = [x EXCEPT !.fetches = f.fetches]
Post(ts, m) == [t \in Tabs |-> IF t \in ts THEN Receive(apps[t], m) ELSE apps[t]]

\* registerActivePortForService: within the window the same document gets its token back,
\* and the latest rows again.
registerActivePortSilently(x, t) == apps  \* mutant
registerActivePortForService(x, t) ==
  IF x.known.rows = <<>> THEN apps
  ELSE Post({t}, Payload(x, x.known, DealContext(x)))

\* The statistics are computed.  Those of an older generation are dropped.
ofOlderGeneration(x, o) == o.gen # 0 /\ o.gen # resolveGeneration(x)
statsOutput(x, o) ==
  LET y == [x EXCEPT !.known = o.rows]
      deal == IF o.deal = NoDeal THEN DealContext(y) ELSE o.deal
  IN IF ofOlderGeneration(x, o) THEN Shown(x, apps)
     ELSE IF o.connected \/ resolveGeneration(x) = 0
     THEN Shown(y, Post({t \in Tabs : link[t].up}, Payload(y, o.rows, o.deal)))
     ELSE Shown(y, Post(getActivePort(y), Payload(y, o.rows, deal)))

Rows(deal) ==
  [rows |-> SeatUserIds(deal), of |-> deal, packed |-> FALSE, outOfTurn |-> FALSE]
\* recalculateAllStats leaves the empty seats out.
Seated(rows) ==
  LET seated[i \in 0..Len(rows)] ==
        IF i = 0 THEN <<>>
        ELSE IF isExist(rows[i]) THEN Append(seated[i - 1], rows[i]) ELSE seated[i - 1]
  IN seated[Len(rows)]
WithoutEmptySeats(deal) ==
  [Rows(deal) EXCEPT !.rows = Seated(@), !.packed = deal.out # {}]
Request(rows, gen, deal) ==
  [rows |-> rows, gen |-> gen, deal |-> deal, connected |-> FALSE]
ByDefault(x, rows) == Request(rows, resolveGeneration(x), DealContext(x))

-----------------------------------------------------------------------------
(* The game and its events.                                                *)

Committing(x) == IF x.writing = <<>> THEN NoDeal ELSE x.writing[1].deal
\* The rows of a deal wait until the stored hands are counted.
processDeal(x, deal) ==
  LET y == [x EXCEPT !.dealGen = resolveGeneration(x), !.live = deal,
                     !.latest = IF deal.seated THEN deal ELSE @,
                     !.events = [deal |-> deal, gen |-> resolveGeneration(x)]]
  IN IF x.batch # "off" THEN y
     ELSE [y EXCEPT !.counting =
             Append(@, [request |-> Request(Rows(deal), resolveGeneration(x), deal),
                        behind |-> Committing(x)])]
\* A hand that two generations share is rejected.
processResult(x) ==
  LET y == [x EXCEPT !.events = NoHand]
  IN IF x.events = NoHand \/ x.events.gen # resolveGeneration(x) THEN y
     ELSE [y EXCEPT !.writing = Append(@, [deal |-> x.events.deal, gen |-> x.events.gen,
                                           stored |-> FALSE, late |-> FALSE])]
\* One event that reaches the worker; a start is announced to the tab that plays.
processEvent(s, t, e) ==
  LET x == claimActivePort(s.w, t)
  IN CASE e.type = "start" ->
            [w |-> x, apps |-> [s.apps EXCEPT ![t] = handleSessionStart(@, e.session)]]
       [] e.type = "deal" -> [s EXCEPT !.w = processDeal(x, e.deal)]
       [] e.type = "result" -> [s EXCEPT !.w = processResult(x)]
       [] e.type = "end" -> [s EXCEPT !.w = x]
\* Those that were waiting for the port, one after the other.
processEvents(s, t, events) ==
  LET processed[i \in 0..Len(events)] ==
        IF i = 0 THEN s ELSE processEvent(processed[i - 1], t, events[i])
  IN processed[Len(events)]

\* persistState has run before the worker can stop.
Persisted(x) == db' = [db EXCEPT !.latest = x.latest]
Played(t, e, own) ==
  LET s == processEvent([w |-> w, apps |-> own], t, e)
  IN IF link[t].up
     THEN Shown(s.w, s.apps) /\ Persisted(s.w) /\ UNCHANGED link
     ELSE /\ link' = [link EXCEPT ![t].outbox = Append(@, e)]
          /\ Shown(w, own) /\ UNCHANGED db

\* Bounds: the tabs being alike, the first session is that of one of them; and no new
\* session once a panel has been opened, since its first rows close it.
SessionStart(t) ==
  /\ ~game.playing /\ panel.want = 0 /\ game.session < MaxSessions /\ apps[t].mounted
  /\ game.session = 0 => t = CHOOSE u \in Tabs : TRUE
  /\ game' = [game EXCEPT !.tab = t, !.session = @ + 1, !.playing = TRUE, !.hand = FALSE]
  /\ \/ Played(t, [type |-> "start", session |-> game.session + 1], apps) /\ UNCHANGED env
     \/ /\ Fault("missed") /\ game.session > 0
        /\ env' = Counted("missed") /\ UNCHANGED <<link, w, db, apps, panel>>

\* Without the hero a hand is one that is watched.
Deal(out) ==
  /\ game.playing /\ ~game.hand /\ game.count < MaxDeals
  /\ Cardinality(Places \ out) >= 2 /\ out \subseteq SittingOut \cup {Table[game.session].hero + 1}
  /\ LET seated == Table[game.session].hero + 1 \notin out
         deal == [id |-> game.count + 1, session |-> game.session, out |-> out, seated |-> seated]
     IN /\ game' = [game EXCEPT !.hand = TRUE, !.count = @ + 1,
                                !.dealt = deal]
        /\ Played(game.tab, [type |-> "deal", deal |-> deal], apps)
        /\ IF seated THEN env' = [env EXCEPT !.behind = FALSE]
           ELSE Fault("spectate") /\ env' = Counted("spectate")

HandResult ==
  /\ game.hand
  /\ game' = [game EXCEPT !.hand = FALSE]
  /\ Played(game.tab, [type |-> "result"], apps)
  /\ UNCHANGED env

\* The content script tells App that the session has ended before the worker hears of it.
SessionEnd ==
  /\ game.playing /\ ~game.hand
  /\ game' = [game EXCEPT !.playing = FALSE]
  /\ Played(game.tab, [type |-> "end"], [apps EXCEPT ![game.tab] = handleSessionEnd(@)])
  /\ UNCHANGED env

-----------------------------------------------------------------------------
(* The worker's computations.                                              *)

\* A transaction on the hands waits for those that were opened before it: a count or a
\* batch for the commit that was under way, a commit for the count of its own deal.
Passed(deal) == deal = NoDeal \/ Committing(w) # deal

HandsCounted ==
  /\ w.counting # <<>>
  /\ LET c == Head(w.counting)
     IN /\ Passed(c.behind)
        /\ w' = [w EXCEPT !.counting = Tail(@),
                          !.queue = IF db.hands = {} THEN @ ELSE Append(@, c.request)]
  /\ UNCHANGED <<game, link, db, apps, panel, env>>

\* Rows that a newer deal has overtaken are put back.
Overtaken(o) == o.rows.outOfTurn /\ o.rows.of # game.dealt

ReadEntityStream ==
  /\ w.queue # <<>>
  /\ LET x == [w EXCEPT !.queue = Tail(@)]
     IN IF w.batch # "off" THEN Shown(x, apps) ELSE statsOutput(x, Head(w.queue))
  /\ env' = [env EXCEPT !.behind = @ \/ Overtaken(Head(w.queue))]
  /\ UNCHANGED <<game, link, db>>

recalculateStats(o) ==
  /\ o \in w.recalcs
  /\ statsOutput([w EXCEPT !.recalcs = @ \ {o}], o)
  /\ env' = [env EXCEPT !.behind = @ \/ Overtaken(o)]
  /\ UNCHANGED <<game, link, db>>

\* A filter is changed: a recalculation outside the queue, and the last rows once more
\* unless they are not those of the hero's deal.
FilterChanges ==
  /\ Fault("filter") /\ w.latest # NoDeal
  /\ LET x == [w EXCEPT !.live = w.latest]
         o == [ByDefault(x, Rows(w.latest)) EXCEPT !.rows.outOfTurn = TRUE]
     IN w' = [x EXCEPT !.recalcs = @ \cup {o},
                       !.queue = IF w.known.rows = SeatUserIds(w.latest)
                                 THEN Append(@, ByDefault(x, w.known)) ELSE @]
  /\ env' = Counted("filter")
  /\ UNCHANGED <<game, link, db, apps, panel>>

\* A hand is committed, and then published.
HandCommitted ==
  /\ w.writing # <<>> /\ ~w.writing[1].stored
  /\ \A i \in 1..Len(w.counting) : w.counting[i].request.deal.id > Committing(w).id
  /\ w' = [w EXCEPT !.writing[1].stored = TRUE]
  /\ db' = [db EXCEPT !.hands = @ \cup {w.writing[1].deal.id}]
  /\ UNCHANGED <<game, link, apps, panel, env>>
HandPublished ==
  /\ w.writing # <<>> /\ w.writing[1].stored
  /\ LET hand == w.writing[1]
     IN w' = [w EXCEPT !.writing = Tail(@), !.handEpoch = @ + 1,
                       !.completed = @ \cup {hand.deal.id},
                       !.cache = NoCache, !.cacheGen = @ + 1,
                       !.queue = Append(@, [Request(Rows(hand.deal), hand.gen, hand.deal)
                                              EXCEPT !.rows.outOfTurn = hand.late])]
  /\ UNCHANGED <<game, link, db, apps, panel, env>>

\* An import or a rebuild; only the import also writes to every connected tab.
BatchStarts(kind) ==
  /\ Fault(kind) /\ w.batch = "off"
  /\ w' = [w EXCEPT !.batch = kind, !.batchBehind = Committing(w)]
  /\ env' = Counted(kind)
  /\ UNCHANGED <<game, link, db, apps, panel>>
BatchEnds ==
  /\ w.batch # "off" /\ w.counting = <<>> /\ Passed(w.batchBehind)
  /\ LET x == [w EXCEPT !.batch = "off", !.batchBehind = NoDeal, !.live = w.latest,
                           !.writing = [i \in DOMAIN @ |-> [@[i] EXCEPT !.late = TRUE]]]
         packed == ByDefault(x, WithoutEmptySeats(w.latest))
         written == IF w.batch = "import"
                    THEN <<packed, [packed EXCEPT !.connected = TRUE, !.gen = 0, !.deal = w.latest]>>
                    ELSE <<ByDefault(w, Rows(w.latest)), packed>>
     IN w' = [x EXCEPT !.queue = IF w.latest = NoDeal THEN @ ELSE @ \o written]
  /\ UNCHANGED <<game, link, db, apps, panel, env>>

-----------------------------------------------------------------------------
(* Ports that drop, a worker that stops, pages that are loaded again.      *)

Disconnect(t) ==
  /\ Fault("disconnect") /\ link[t].up
  /\ link' = [link EXCEPT ![t].up = FALSE]
  /\ w' = releaseActivePort(w, t)
  /\ env' = Counted("disconnect")
  /\ UNCHANGED <<game, db, apps, panel>>

\* The queue of the content script follows the new port; late is after the window in
\* which the document gets its token back.
Reconnect(t, late) ==
  /\ ~link[t].up
  /\ late => "late" \in Faults
  /\ LET back == w.place = "candidate" /\ w.tab = t /\ w.doc = link[t].doc /\ ~late
         x == IF back THEN [w EXCEPT !.place = "port", !.gens[t] = w.gen] ELSE w
         s == [w |-> x, apps |-> IF back THEN registerActivePortForService(x, t) ELSE apps]
         after == processEvents(s, t, link[t].outbox)
     IN /\ Shown(after.w, after.apps)
        /\ Persisted(after.w)
        /\ env' = [env EXCEPT !.behind = @ \/ ~back]
  /\ link' = [link EXCEPT ![t].up = TRUE, ![t].outbox = <<>>]
  /\ UNCHANGED game

\* restoreState reads the deal back; the ports and what was computed are gone.
Stop ==
  /\ Fault("stop")
  /\ w' = [NewWorker EXCEPT !.latest = db.latest]
  /\ link' = [t \in Tabs |-> [link[t] EXCEPT !.up = FALSE]]
  /\ panel' = IF panel.status = "loading" THEN [panel EXCEPT !.status = "error"] ELSE panel
  /\ env' = [Counted("stop") EXCEPT !.behind = TRUE, !.restarted = TRUE]
  /\ UNCHANGED <<game, db, apps>>

\* What the page has not sent is lost; the game goes on with the next hand.
Reload(t) ==
  /\ Fault("reload") /\ t = game.tab
  /\ link' = [link EXCEPT ![t] = [up |-> TRUE, doc |-> @.doc + 1, outbox |-> <<>>]]
  /\ apps' = [apps EXCEPT ![t] = NewApp]
  /\ w' = releaseActivePort(w, t)
  /\ panel' = IF panel.tab = t THEN [NoPanel EXCEPT !.want = panel.want] ELSE panel
  /\ game' = [game EXCEPT !.hand = @ /\ game.tab # t]
  /\ env' = [Counted("reload") EXCEPT !.behind = TRUE]
  /\ UNCHANGED db

Mount(t) ==
  /\ ~apps[t].mounted
  /\ apps' = [apps EXCEPT ![t] = mountApp(@, HeroId)]
  /\ env' = [env EXCEPT !.behind = TRUE]
  /\ UNCHANGED <<game, link, w, db, panel>>

\* The answer is dropped when the tab has meanwhile got live statistics.
PreGameAnswered(t) ==
  /\ apps[t].pre \in {"asked", "overtaken"}
  /\ LET known == apps[t].pre = "asked" /\ w.batch = "off" /\ w.latest # NoDeal
     IN Shown(w, [apps EXCEPT ![t] = IF known THEN latestStats(@, HeroId)
                                     ELSE [@ EXCEPT !.pre = "done"]])
  /\ UNCHANGED <<game, link, db, env>>

\* Bound: a table is saved only while a page may still be loaded that reads it.
SnapshotSaved(t) ==
  /\ apps[t].saving # EMPTY_SEATS /\ Fault("reload")
  /\ db' = [db EXCEPT !.snapshot = apps[t].saving]
  /\ apps' = [apps EXCEPT ![t].saving = EMPTY_SEATS]
  /\ UNCHANGED <<game, link, w, panel, env>>
SnapshotLoaded(t) ==
  /\ apps[t].mounted /\ apps[t].loading
  /\ Shown(w, [apps EXCEPT ![t] = loadLastTableSnapshot(@, db.snapshot)])
  /\ UNCHANGED <<game, link, db, env>>

-----------------------------------------------------------------------------
(* The panel of recent hands.                                              *)

\* Bound: in the first session.  A page that has heard more than this worker has counted
\* (an earlier one told it) may miss the next hands: they can bring an epoch it has had.
OpenPanel(t) ==
  /\ Fault("panel") /\ panel.tab = 0 /\ game.session = 1
  /\ \E k \in Places \ {Hero} : isExist(apps[t].seats[k])
  /\ panel' = [tab |-> t, status |-> "loading", want |-> panel.want + 1,
               hand |-> apps[t].handEpoch, replay |-> apps[t].replayEpoch, data |-> NoData]
  /\ w' = [w EXCEPT !.fetches = @ \cup {NewFetch(panel.want + 1)}]
  /\ env' = [Counted("panel") EXCEPT !.restarted = apps[t].handEpoch > w.handEpoch
                                                   \/ apps[t].replayEpoch > w.replayEpoch]
  /\ UNCHANGED <<game, link, db, apps>>

\* The panel takes the answer to its last request.
Answered(f, data) ==
  panel' = IF f.id = panel.want /\ panel.tab # 0
           THEN [panel EXCEPT !.status = "ready", !.data = data] ELSE panel

\* A fetch looks at the cache first; an entry may have expired.
FetchStarts(f) ==
  /\ f \in w.fetches /\ f.pc = "asked"
  /\ \/ /\ w.cache.hit
        /\ w' = [w EXCEPT !.fetches = @ \ {f}]
        /\ Answered(f, w.cache.data)
     \/ /\ w' = [w EXCEPT !.fetches = (@ \ {f}) \cup {[f EXCEPT !.pc = "hands", !.gen = w.cacheGen]}]
        /\ UNCHANGED panel
  /\ UNCHANGED <<game, link, db, apps, env>>
FetchReadsHands(f) ==
  /\ f \in w.fetches /\ f.pc = "hands"
  /\ w' = [w EXCEPT !.fetches = (@ \ {f}) \cup {[f EXCEPT !.pc = "details", !.data.hands = db.hands]}]
  /\ UNCHANGED <<game, link, db, apps, panel, env>>

\* What was read is kept only if nothing has changed since the fetch began.
cachedAnyway(x, f, data) == [x EXCEPT !.cache = [hit |-> TRUE, data |-> data]]  \* mutant
cached(x, f, data) ==
  IF x.cacheGen = f.gen THEN [x EXCEPT !.cache = [hit |-> TRUE, data |-> data]] ELSE x
FetchEnds(f) ==
  /\ f \in w.fetches /\ f.pc = "details"
  /\ LET data == [f.data EXCEPT !.details = db.details]
     IN /\ w' = cached([w EXCEPT !.fetches = @ \ {f}], f, data)
        /\ Answered(f, data)
  /\ UNCHANGED <<game, link, db, apps, env>>

\* A stored replay detail is announced at once, or with the next ones.
notifyReplayDetailsStored(x, details) ==
  LET y == [x EXCEPT !.pending = 0, !.replayEpoch = @ + 1]
  IN Shown(y, [t \in Tabs |->
                 IF t \in getActivePort(x) /\ apps[t].mounted
                 THEN [apps[t] EXCEPT !.replayEpoch = y.replayEpoch, !.details = details]
                 ELSE apps[t]])
\* Bound: details matter once a panel has asked for the hands, and with few requests.
DetailStored ==
  /\ db.details < MaxDetails /\ panel.want > 0 /\ Cardinality(w.fetches) <= 1
  /\ db' = [db EXCEPT !.details = @ + 1]
  /\ LET x == [w EXCEPT !.cache = NoCache, !.cacheGen = @ + 1, !.pending = @ + 1]
     IN Shown(x, apps) \/ notifyReplayDetailsStored(x, db.details + 1)
  /\ UNCHANGED <<game, link, env>>
FlushDetails ==
  /\ w.pending > 0
  /\ notifyReplayDetailsStored(w, db.details)
  /\ UNCHANGED <<game, link, db, env>>

-----------------------------------------------------------------------------
Next ==
  \/ \E t \in Tabs : SessionStart(t)
  \/ \E out \in SUBSET Places : Deal(out)
  \/ HandResult
  \/ SessionEnd
  \/ HandsCounted
  \/ ReadEntityStream
  \/ \E o \in w.recalcs : recalculateStats(o)
  \/ FilterChanges
  \/ HandCommitted
  \/ HandPublished
  \/ \E kind \in {"batch", "import"} : BatchStarts(kind)
  \/ BatchEnds
  \/ \E t \in Tabs : Disconnect(t)
  \/ \E t \in Tabs, late \in BOOLEAN : Reconnect(t, late)
  \/ Stop
  \/ \E t \in Tabs : Reload(t)
  \/ \E t \in Tabs : Mount(t)
  \/ \E t \in Tabs : PreGameAnswered(t)
  \/ \E t \in Tabs : SnapshotSaved(t)
  \/ \E t \in Tabs : SnapshotLoaded(t)
  \/ \E t \in Tabs : OpenPanel(t)
  \/ \E f \in w.fetches : FetchStarts(f)
  \/ \E f \in w.fetches : FetchReadsHands(f)
  \/ \E f \in w.fetches : FetchEnds(f)
  \/ DetailStored
  \/ FlushDetails

Spec == Init /\ [][Next]_vars

-----------------------------------------------------------------------------
(* Properties.                                                             *)

SeatedAt(session) ==
  rotateArrayFromIndex(Table[session].players, Table[session].hero)

\* Once rows of a live deal are applied in the tab that plays, every opponent on display
\* sits at that place in the session of those rows, and no newer session has been shown
\* before (App.tsx, the session boundary and the retained lineup).  Rows that the code
\* itself sends with a deal they do not belong to are set apart as Torn.
LineupIsOfThisSession ==
  game.playing =>
    LET a == apps[game.tab]
    IN a.mounted /\ ~a.awaiting /\ a.source # NoDeal /\ ~a.torn =>
         /\ a.source.session = a.newest
         /\ \A k \in Places \ {Hero} :
              isExist(a.seats[k]) => a.seats[k] = SeatedAt(a.source.session)[k]

\* Nothing the worker has taken in is still to be computed or sent.
Quiet(t) ==
  /\ w.counting = <<>> /\ w.queue = <<>> /\ w.recalcs = {} /\ w.writing = <<>> /\ w.batch = "off"
  /\ \A u \in Tabs : link[u].up /\ link[u].outbox = <<>>
  /\ getActivePort(w) = {t}

\* When nothing is under way, the HUD of the tab that plays shows who was dealt into the
\* hand, whatever port gaps there were since the deal (ports.ts, the token that returns
\* with the latest rows); unless the worker stopped, App was mounted again, the token
\* was lost or a recalculation was overtaken since that deal.
QuietHudIsCurrent ==
  game.playing /\ game.dealt.seated /\ game.dealt.session = game.session /\ ~env.behind =>
    LET a == apps[game.tab]
        dealt == rotateArrayFromIndex(SeatUserIds(game.dealt), Table[game.session].hero)
    IN a.mounted /\ ~a.torn /\ Quiet(game.tab) =>
         \A k \in Places : isExist(dealt[k]) => a.seats[k] = dealt[k]

\* A panel that is ready holds every hand and every replay detail its page has been told
\* of (recent-hands-service.ts, the cache and its generation), as long as the worker that
\* counts them has not started over behind what the page had heard.
PanelHoldsWhatWasAnnounced ==
  panel.tab # 0 /\ panel.status = "ready" /\ ~env.restarted =>
    /\ apps[panel.tab].completed \subseteq panel.data.hands
    /\ apps[panel.tab].details <= panel.data.details

\* The opponents of the last table stay on display until the first live lineup
\* (App.tsx:524, "pregameフォールバックは...", and App.last-table-restore.test.tsx:167).
RestoredSeatsStay ==
  \A t \in Tabs :
    LET a == apps[t]
    IN a.mounted /\ ~a.loading =>
         \A k \in Places : isExist(a.remembered[k]) => a.seats[k] = a.remembered[k]
=============================================================================
