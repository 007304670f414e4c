--------------------------- MODULE LiveHudProofs ---------------------------
(***************************************************************************)
(* Theorems about LiveHud for any tables, tabs, sessions, hands and faults: *)
(* an open panel of recent hands holds what its page has been told of.      *)
(***************************************************************************)
EXTENDS LiveHud, SequenceTheorems, WellFoundedInduction, TLAPS

-----------------------------------------------------------------------------
(* Types.                                                                  *)

Seats == [Places -> Nat]
RealDeals == [id : Nat \ {0}, session : 1..MaxSessions, out : SUBSET Places, seated : BOOLEAN]
Deals == {NoDeal} \cup RealDeals
RowSets == [rows : Seq(Nat), of : Deals, packed : BOOLEAN, outOfTurn : BOOLEAN]
Requests == [rows : RowSets, gen : Nat, deal : Deals, connected : BOOLEAN]
Events == [type : {"start"}, session : Nat] \cup [type : {"deal"}, deal : RealDeals]
          \cup [type : {"result", "end"}]
Datas == [hands : SUBSET Nat, details : Nat]
Fetches == [id : Nat, pc : {"asked", "hands", "details"}, gen : Nat, data : Datas]
Written == [deal : RealDeals, gen : Nat, stored : BOOLEAN, late : BOOLEAN]
Unfinished == {NoHand} \cup [deal : RealDeals, gen : Nat]

Apps ==
  [mounted : BOOLEAN, pre : {"asked", "pending", "overtaken", "done"}, loading : BOOLEAN,
   awaiting : BOOLEAN, boundary : Nat, seats : Seats, dim : Seats, restored : Seats,
   applied : BOOLEAN, saving : Seats, handEpoch : Nat, replayEpoch : Nat, source : Deals,
   newest : Nat, heard : Nat, torn : BOOLEAN, live : BOOLEAN, remembered : Seats,
   completed : SUBSET Nat, details : Nat]
Workers ==
  [place : {"none", "port", "candidate"}, tab : Tabs \cup {0}, doc : Nat, gen : Nat, next : Nat,
   gens : [Tabs -> Nat], known : RowSets, live : Deals, latest : Deals, events : Unfinished,
   dealGen : Nat, counting : Seq([request : Requests, behind : Deals]), queue : Seq(Requests),
   recalcs : SUBSET Requests, writing : Seq(Written), batch : {"off", "batch", "import"},
   batchBehind : Deals, handEpoch : Nat, replayEpoch : Nat, pending : Nat,
   completed : SUBSET Nat, fetches : SUBSET Fetches, cache : [hit : BOOLEAN, data : Datas],
   cacheGen : Nat]
Games == [tab : Tabs \cup {0}, session : 0..MaxSessions, playing : BOOLEAN, dealt : Deals,
          count : Nat, hand : BOOLEAN]
Links == [Tabs -> [up : BOOLEAN, doc : Nat, outbox : Seq(Events)]]
Databases == [hands : SUBSET Nat, details : Nat, latest : Deals, snapshot : Seats]
Panels == [tab : Tabs \cup {0}, status : {"closed", "loading", "ready", "error"}, want : Nat,
           hand : Nat, replay : Nat, data : Datas]
Envs == [faults : Nat, behind : BOOLEAN, restarted : BOOLEAN]

\* A session that is played, or whose hand is still open, has a tab.
GamePlaces == game.playing \/ game.hand => game.tab # 0 /\ game.session # 0
TypeOK ==
  /\ game \in Games /\ link \in Links /\ w \in Workers /\ db \in Databases
  /\ apps \in [Tabs -> Apps] /\ panel \in Panels /\ env \in Envs /\ GamePlaces

-----------------------------------------------------------------------------
(* The invariant: what has been told is stored, what is cached or read      *)
(* since the last change holds all that has been told, and so does what     *)
(* the panel shows or waits for.                                           *)

WritingIsStored(x, d) ==
  \A i \in 1..Len(x.writing) : x.writing[i].stored => x.writing[i].deal.id \in d.hands
ToldIsStored(x, as, d) ==
  /\ x.completed \subseteq d.hands
  /\ \A t \in Tabs : as[t].completed \subseteq d.hands /\ as[t].details <= d.details
Covers(hands, x, as) ==
  x.completed \subseteq hands /\ \A t \in Tabs : as[t].completed \subseteq hands
CacheIsCurrent(x, as, d) ==
  x.cache.hit => Covers(x.cache.data.hands, x, as) /\ x.cache.data.details = d.details
FetchIsCurrent(x, as, want) ==
  \A f \in x.fetches :
    /\ f.id <= want
    /\ f.pc # "asked" => f.gen <= x.cacheGen
    /\ f.pc = "details" /\ f.gen = x.cacheGen => Covers(f.data.hands, x, as)
Recent(x, as, d, want) ==
  ToldIsStored(x, as, d) /\ CacheIsCurrent(x, as, d) /\ FetchIsCurrent(x, as, want)

\* What the panel has to hold: what its page has been told, and what the worker would
\* tell it under the epoch it has already heard.
Awaited(hands, x, as, p) ==
  /\ as[p.tab].completed \subseteq hands
  /\ p.hand = x.handEpoch => x.completed \subseteq hands
PanelHolds(x, as, p) ==
  /\ p.hand = as[p.tab].handEpoch /\ p.replay = as[p.tab].replayEpoch
  /\ p.hand <= x.handEpoch /\ p.replay <= x.replayEpoch
  /\ p.status = "ready" => /\ Awaited(p.data.hands, x, as, p)
                           /\ as[p.tab].details <= p.data.details
  /\ \A f \in x.fetches : f.id = p.want /\ f.pc = "details" => Awaited(f.data.hands, x, as, p)
PanelFollows(x, as, p, restarted) == p.tab # 0 /\ ~restarted => PanelHolds(x, as, p)

PanelInv ==
  /\ WritingIsStored(w, db) /\ Recent(w, apps, db, panel.want)
  /\ PanelFollows(w, apps, panel, env.restarted)
IInv == TypeOK /\ PanelInv

-----------------------------------------------------------------------------
(* Recursion: the least index that is wrong.                               *)

LEMMA LeastOf ==
  ASSUME NEW T \in SUBSET Nat, T # {}
  PROVE  \E t \in T : \A u \in T : t <= u
<1>1. PICK t \in T : \A u \in T : ~(<<u, t>> \in OpToRel(<, Nat))
  BY NatLessThanWellFounded, WFMin
<1>2. \A u \in T : ~(u < t)
  BY <1>1, Zenon DEF OpToRel
<1> QED BY <1>2

\* A set that holds 0 and the successor of what it holds, up to n.
LEMMA UpTo ==
  ASSUME NEW n \in Nat, NEW G, 0 \in G, \A i \in 1..n : i - 1 \in G => i \in G
  PROVE  \A i \in 0..n : i \in G
<1> DEFINE Bad == {i \in 0..n : i \notin G}
<1> SUFFICES ASSUME Bad # {} PROVE FALSE
  OBVIOUS
<1>1. PICK i \in Bad : \A k \in Bad : i <= k
  BY LeastOf, Bad \in SUBSET Nat
<1>2. i \in 1..n /\ i - 1 \notin Bad /\ i - 1 \in 0..n
  BY <1>1
<1> QED BY <1>1, <1>2

\* The values of a recursion whose step leads from S to S, and that it has one.
StepsFrom(s, step, f, n) == f = [i \in 0..n |-> IF i = 0 THEN s ELSE step[<<f[i - 1], i>>]]

LEMMA StepsExist ==
  ASSUME NEW n \in Nat, NEW S, NEW s \in S, NEW step \in [S \X (1..n) -> S]
  PROVE  \E f \in [0..n -> S] : StepsFrom(s, step, f, n)
<1> DEFINE Fits(f, m) == /\ f \in [0..m -> S] /\ f[0] = s
                         /\ \A i \in 1..m : f[i] = step[<<f[i - 1], i>>]
           G == {m \in 0..n : \E f : Fits(f, m)}
<1>1. 0 \in G
  <2>1. Fits([i \in 0..0 |-> s], 0)
    OBVIOUS
  <2> HIDE DEF Fits
  <2>2. \E f : Fits(f, 0)
    BY <2>1
  <2> QED BY <2>2
<1>2. ASSUME NEW m \in 1..n, m - 1 \in G PROVE m \in G
  <2>1. PICK f : Fits(f, m - 1)
    BY <1>2
  <2> DEFINE g == [i \in 0..m |-> IF i = m THEN step[<<f[m - 1], m>>] ELSE f[i]]
  <2>2. f[m - 1] \in S /\ step[<<f[m - 1], m>>] \in S
    BY <2>1
  <2>3. g \in [0..m -> S] /\ g[0] = s
    BY <2>1, <2>2
  <2>4. ASSUME NEW i \in 1..m PROVE g[i] = step[<<g[i - 1], i>>]
    <3>3. g[m] = step[<<f[m - 1], m>>] /\ \A j \in 0..m : j # m => g[j] = f[j]
      OBVIOUS
    <3> HIDE DEF g
    <3>4. i - 1 \in 0..m /\ i - 1 # m /\ i \in 0..m
      OBVIOUS
    <3>5. g[i - 1] = f[i - 1]
      BY <3>3, <3>4
    <3>1. CASE i = m
      BY <3>1, <3>3, <3>5
    <3>2. CASE i # m
      <4>1. i \in 1..(m - 1)
        BY <3>2
      <4>2. f[i] = step[<<f[i - 1], i>>]
        BY <2>1, <4>1
      <4>3. g[i] = f[i]
        BY <3>2, <3>3, <3>4
      <4> QED BY <3>5, <4>2, <4>3
    <3> QED BY <3>1, <3>2
  <2>5. Fits(g, m)
    BY <2>3, <2>4
  <2> HIDE DEF Fits, g
  <2>6. \E h : Fits(h, m)
    BY <2>5
  <2> QED BY <2>6
<1> HIDE DEF G
<1>3. n \in G
  BY <1>1, <1>2, UpTo
<1>4. PICK f : Fits(f, n)
  BY <1>3 DEF G
<1>5. StepsFrom(s, step, f, n)
  BY <1>4 DEF StepsFrom
<1> QED BY <1>4, <1>5

LEMMA ProcessEventsIn ==
  ASSUME NEW S, NEW s \in S, NEW t, NEW events, Len(events) \in Nat,
         \A i \in 1..Len(events), x \in S : processEvent(x, t, events[i]) \in S
  PROVE  processEvents(s, t, events) \in S
<1> DEFINE n == Len(events)
           Fits(f) == f = [i \in 0..n |->
                             IF i = 0 THEN s ELSE processEvent(f[i - 1], t, events[i])]
           step == [p \in S \X (1..n) |-> processEvent(p[1], t, events[p[2]])]
           processed == CHOOSE f : Fits(f)
<1>1. step \in [S \X (1..n) -> S] /\ \A x \in S, i \in 1..n : step[<<x, i>>] = processEvent(x, t, events[i])
  OBVIOUS
<1> HIDE DEF step
<1>2. PICK f \in [0..n -> S] : StepsFrom(s, step, f, n)
  <2> n \in Nat
    OBVIOUS
  <2> HIDE DEF n
  <2> QED BY <1>1, StepsExist
<1>3. Fits(f)
  <2>3. \A i \in 0..n : i # 0 => i \in 1..n /\ i - 1 \in 0..n
    OBVIOUS
  <2>1. \A i \in 0..n : i # 0 => i \in 1..n /\ f[i - 1] \in S
    BY <1>2, <2>3
  <2>2. \A i \in 0..n : i # 0 => step[<<f[i - 1], i>>] = processEvent(f[i - 1], t, events[i])
    BY <1>1, <2>1
  <2> QED BY <1>2, <2>2 DEF StepsFrom
<1>4. Fits(processed)
  BY <1>3
<1>5. processed[0] = s /\ \A i \in 1..n : processed[i] = processEvent(processed[i - 1], t, events[i])
  <2> HIDE DEF processed
  <2>1. \A i \in 0..n : processed[i] = IF i = 0 THEN s ELSE processEvent(processed[i - 1], t, events[i])
    BY <1>4
  <2> QED BY <2>1
<1> HIDE DEF processed
<1>6. \A i \in 0..n : i \in {j \in 0..n : processed[j] \in S}
  <2> DEFINE G == {j \in 0..n : processed[j] \in S}
  <2>1. 0 \in G /\ \A i \in 1..n : i - 1 \in G => i \in G
    BY <1>5
  <2> HIDE DEF G
  <2>2. \A i \in 0..n : i \in G
    BY <2>1, UpTo
  <2> QED BY <2>2 DEF G
<1>7. processed[n] \in S
  BY <1>6, n \in 0..n
<1> QED BY <1>7 DEF processEvents, processed

LEMMA SeatedIsTyped ==
  ASSUME NEW rows \in Seq(Nat)
  PROVE  Seated(rows) \in Seq(Nat)
<1> DEFINE n == Len(rows)
           next(q, i) == IF isExist(rows[i]) THEN Append(q, rows[i]) ELSE q
           Fits(f) == f = [i \in 0..n |->
                             IF i = 0 THEN <<>>
                             ELSE IF isExist(rows[i]) THEN Append(f[i - 1], rows[i]) ELSE f[i - 1]]
           step == [p \in Seq(Nat) \X (1..n) |-> next(p[1], p[2])]
           seated == CHOOSE f : Fits(f)
<1>0. \A q \in Seq(Nat), i \in 1..n : next(q, i) \in Seq(Nat)
  OBVIOUS
<1>1. /\ step \in [Seq(Nat) \X (1..n) -> Seq(Nat)]
      /\ \A q \in Seq(Nat), i \in 1..n : step[<<q, i>>] = next(q, i)
  <2> HIDE DEF next
  <2> QED BY <1>0
<1>9. <<>> \in Seq(Nat) /\ n \in Nat
  OBVIOUS
<1> HIDE DEF step, next
<1>2. PICK f \in [0..n -> Seq(Nat)] : StepsFrom(<<>>, step, f, n)
  <2> HIDE DEF n
  <2> QED BY <1>1, <1>9, StepsExist
<1> USE DEF next
<1>3. Fits(f)
  <2>3. \A i \in 0..n : i # 0 => i \in 1..n /\ i - 1 \in 0..n
    OBVIOUS
  <2>1. \A i \in 0..n : i # 0 => i \in 1..n /\ f[i - 1] \in Seq(Nat)
    BY <1>2, <2>3
  <2>2. \A i \in 0..n : i # 0 => step[<<f[i - 1], i>>] = next(f[i - 1], i)
    BY <1>1, <2>1
  <2> QED BY <1>2, <2>2 DEF StepsFrom
<1>4. Fits(seated)
  BY <1>3
<1>5. seated[0] = <<>> /\ \A i \in 1..n : seated[i] = next(seated[i - 1], i)
  <2> HIDE DEF seated
  <2>1. \A i \in 0..n : seated[i] = IF i = 0 THEN <<>> ELSE next(seated[i - 1], i)
    BY <1>4
  <2> QED BY <2>1
<1> HIDE DEF seated, next
<1>6. \A i \in 0..n : i \in {j \in 0..n : seated[j] \in Seq(Nat)}
  <2> DEFINE G == {j \in 0..n : seated[j] \in Seq(Nat)}
  <2>1. 0 \in G
    BY <1>5, <1>9, 0 \in 0..n
  <2>3. ASSUME NEW i \in 1..n, i - 1 \in G PROVE i \in G
    <3>1. seated[i] = next(seated[i - 1], i) /\ seated[i - 1] \in Seq(Nat) /\ i \in 0..n
      BY <1>5, <2>3
    <3> QED BY <1>0, <3>1
  <2> HIDE DEF G
  <2>2. \A i \in 0..n : i \in G
    BY <1>9, <2>1, <2>3, UpTo
  <2> QED BY <2>2 DEF G
<1>7. seated[n] \in Seq(Nat)
  BY <1>6, n \in 0..n
<1> QED BY <1>7 DEF Seated, seated

-----------------------------------------------------------------------------
(* App keeps its type, and what it has been told changes only by Receive.   *)

SamePage(b, a) ==
  /\ b.completed = a.completed /\ b.details = a.details
  /\ b.handEpoch = a.handEpoch /\ b.replayEpoch = a.replayEpoch

LEMMA Basics ==
  /\ EMPTY_SEATS \in Seats /\ NoDeal \in Deals /\ Hero \in Places /\ 1..N = Places /\ N \in Nat
  /\ NewApp \in Apps /\ LoadedPage \in Apps
  /\ HeroId \in Nat /\ \A s \in 1..MaxSessions : Table[s].hero \in Nat /\ Table[s].players \in Seats
<1>1. EMPTY_SEATS \in Seats /\ NoDeal \in Deals /\ Hero \in Places /\ 1..N = Places /\ N \in Nat
  BY HudAssumption DEF EMPTY_SEATS, Seats, Nobody, Deals, Hero, Places
<1>2. NewApp \in Apps
  BY <1>1 DEF NewApp, Apps
<1>3. LoadedPage \in Apps
  BY <1>2 DEF LoadedPage, Apps
<1>4. \A s \in 1..MaxSessions : Table[s].hero \in 0..N - 1 /\ Table[s].players \in Seats
  BY HudAssumption DEF Seats
<1>5. 1 \in 1..MaxSessions
  BY HudAssumption
<1>6. HeroId \in Nat
  BY <1>1, <1>4, <1>5 DEF HeroId, Seats, Places
<1> QED BY <1>1, <1>2, <1>3, <1>4, <1>6

LEMMA Rotated ==
  ASSUME NEW rows \in Seq(Nat), NEW index \in Nat
  PROVE  rotateArrayFromIndex(rows, index) \in Seq(Nat)
<1>1. CASE index >= Len(rows)
  BY <1>1 DEF rotateArrayFromIndex
<1>2. CASE ~(index >= Len(rows))
  <2>1. index + 1 \in 1..Len(rows) + 1 /\ index \in 0..Len(rows) /\ Len(rows) \in Nat
    BY <1>2
  <2>2. SubSeq(rows, index + 1, Len(rows)) \in Seq(Nat) /\ SubSeq(rows, 1, index) \in Seq(Nat)
    BY <2>1, SubSeqProperties
  <2> QED BY <1>2, <2>2, ConcatProperties DEF rotateArrayFromIndex
<1> QED BY <1>1, <1>2

LEMMA ColumnsAreSeats ==
  ASSUME NEW rows \in Seq(Nat)
  PROVE  Columns(rows) \in Seats
<1>1. \A k \in Places : k <= Len(rows) => rows[k] \in Nat
  BY Basics DEF Places
<1> QED BY <1>1 DEF Columns, Seats, Nobody

LEMMA Dimmed ==
  ASSUME NEW a \in Apps, NEW mapped \in Seats
  PROVE  dimmed(a, mapped) \in Apps /\ SamePage(dimmed(a, mapped), a)
<1> DEFINE cache == IF isTableChange(a.dim, mapped) THEN EMPTY_SEATS ELSE a.dim
           shown == [k \in Places |-> IF isExist(mapped[k]) THEN mapped[k] ELSE cache[k]]
<1>1. cache \in Seats
  BY Basics DEF Apps
<1> HIDE DEF cache
<1>2. shown \in Seats
  BY <1>1 DEF Seats
<1>3. dimmed(a, mapped) = [a EXCEPT !.dim = shown, !.seats = shown]
  BY DEF dimmed, cache
<1> HIDE DEF shown
<1> QED BY <1>2, <1>3 DEF Apps, SamePage

LEMMA Scheduled ==
  ASSUME NEW a \in Apps
  PROVE  scheduleLastTableSnapshotSave(a) \in Apps /\ SamePage(scheduleLastTableSnapshotSave(a), a)
<1>1. buildLastTableSnapshot(a.seats) \in Seats
  BY DEF buildLastTableSnapshot, Apps, Seats, Nobody
<1> QED BY <1>1 DEF scheduleLastTableSnapshotSave, Apps, SamePage

\* The rows of a message, and of what it was computed from.
IsMessage(m) ==
  /\ m.rows \in Seq(Nat) /\ m.of \in Deals /\ m.packed \in BOOLEAN /\ m.outOfTurn \in BOOLEAN
  /\ m.deal \in Deals /\ m.epoch \in Nat

LEMMA StatsHandled ==
  ASSUME NEW a \in Apps, NEW m, IsMessage(m)
  PROVE  LET b == handleStatsMessage(a, m)
         IN /\ b \in Apps /\ b.completed = a.completed /\ b.details = a.details
            /\ b.replayEpoch = a.replayEpoch
            /\ IF isBehindBoundary(a, m) \/ isSpectatorDeal(m) THEN b.handEpoch = a.handEpoch
               ELSE b.handEpoch = m.epoch
<1> DEFINE first == isTrustedSeatedDeal(m) /\ a.awaiting
           b == IF first
                THEN [discardRetainedLineup(a) EXCEPT !.awaiting = FALSE, !.boundary = 0]
                ELSE a
           rows == IF isTrustedSeatedDeal(m)
                   THEN rotateArrayFromIndex(m.rows, Table[m.deal.session].hero) ELSE m.rows
           torn == b.torn \/ Torn(a, m)
           newest == IF m.deal.session > b.newest THEN m.deal.session ELSE b.newest
           c == [discardRestoredLineup(b) EXCEPT
                   !.applied = TRUE, !.handEpoch = m.epoch,
                   !.source = m.of, !.torn = torn, !.newest = newest]
<1>1. b \in Apps /\ SamePage(b, a)
  BY Basics DEF discardRetainedLineup, discardRestoredLineup, Apps, SamePage
<1>2. m.deal.session \in Nat /\ (isTrustedSeatedDeal(m) => m.deal.session \in 1..MaxSessions)
  BY HudAssumption DEF IsMessage, Deals, RealDeals, NoDeal, isTrustedSeatedDeal
<1>3. rows \in Seq(Nat)
  BY <1>2, Basics, Rotated DEF IsMessage
<1> HIDE DEF rows
<1>4. Columns(rows) \in Seats
  BY <1>3, ColumnsAreSeats
<1>5. handleStatsMessage(a, m) =
        IF isBehindBoundary(a, m) THEN a
        ELSE IF isSpectatorDeal(m) THEN b
        ELSE scheduleLastTableSnapshotSave(dimmed(c, Columns(rows)))
  <2> HIDE DEF b
  <2>1. c = [discardRestoredLineup(b) EXCEPT
               !.applied = TRUE, !.handEpoch = m.epoch,
               !.source = m.of, !.torn = @ \/ Torn(a, m),
               !.newest = IF m.deal.session > @ THEN m.deal.session ELSE @]
    BY <1>1 DEF discardRestoredLineup, Apps
  <2> HIDE DEF c
  <2> QED BY <2>1 DEF handleStatsMessage, b, rows
<1> HIDE DEF b
<1>6. torn \in BOOLEAN /\ newest \in Nat
  BY <1>1, <1>2 DEF Apps
<1> HIDE DEF torn, newest
<1>7. /\ c \in Apps /\ c.completed = b.completed /\ c.details = b.details
      /\ c.replayEpoch = b.replayEpoch /\ c.handEpoch = m.epoch
  BY <1>1, <1>6, Basics DEF discardRestoredLineup, Apps, IsMessage
<1> HIDE DEF c
<1>8. LET d == scheduleLastTableSnapshotSave(dimmed(c, Columns(rows)))
      IN d \in Apps /\ SamePage(d, c)
  BY <1>4, <1>7, Dimmed, Scheduled DEF SamePage
<1> QED BY <1>1, <1>5, <1>7, <1>8 DEF SamePage

\* What a page hears of the hands when a message of the worker reaches it.
Told(b, a, completed, epoch) ==
  \/ SamePage(b, a)
  \/ /\ b.completed = completed /\ b.handEpoch = epoch
     /\ b.details = a.details /\ b.replayEpoch = a.replayEpoch

LEMMA Received ==
  ASSUME NEW a \in Apps, NEW m, IsMessage(m), m.completed \in SUBSET Nat
  PROVE  Receive(a, m) \in Apps /\ Told(Receive(a, m), a, m.completed, m.epoch)
<1>1. Heard(a) \in Apps /\ SamePage(Heard(a), a)
  BY DEF Heard, Apps, SamePage
<1>2. Heard(a).awaiting = a.awaiting /\ Heard(a).boundary = a.boundary
  BY DEF Heard, Apps
<1>3. isBehindBoundary(Heard(a), m) <=> isBehindBoundary(a, m)
  BY <1>2 DEF isBehindBoundary
<1> DEFINE b == handleStatsMessage(Heard(a), m)
           c == [b EXCEPT !.live = TRUE, !.remembered = EMPTY_SEATS, !.completed = m.completed]
<1>4. /\ b \in Apps /\ b.completed = a.completed /\ b.details = a.details
      /\ b.replayEpoch = a.replayEpoch
      /\ IF isBehindBoundary(a, m) \/ isSpectatorDeal(m) THEN b.handEpoch = a.handEpoch
         ELSE b.handEpoch = m.epoch
  BY <1>1, <1>3, StatsHandled DEF SamePage
<1>5. Receive(a, m) = IF ~a.mounted THEN Heard(a)
                      ELSE IF isBehindBoundary(a, m) \/ isSpectatorDeal(m) THEN b ELSE c
  BY DEF Receive
<1> HIDE DEF b
<1>6. /\ c \in Apps /\ c.completed = m.completed /\ c.details = b.details
      /\ c.replayEpoch = b.replayEpoch /\ c.handEpoch = b.handEpoch
  BY <1>4, Basics DEF Apps
<1> HIDE DEF c
<1> QED BY <1>1, <1>4, <1>5, <1>6 DEF Told, SamePage

\* A page that is told of the session or of what is stored hears nothing of the hands.
LEMMA PreGameIsMessage ==
  IsMessage(PreGame(HeroId)) /\ PreGame(HeroId).rows \in Seats
<1>1. [EMPTY_SEATS EXCEPT ![Hero] = HeroId] \in Seats
  BY Basics DEF Seats
<1>2. \A r \in Seats : r \in Seq(Nat)
  <2> TAKE r \in Seats
  <2>1. r \in [1..N -> Nat] /\ N \in Nat
    BY Basics DEF Seats
  <2> QED BY <2>1
<1> QED BY <1>1, <1>2, Basics DEF PreGame, IsMessage

LEMMA WithoutEpoch ==
  ASSUME NEW a \in Apps, NEW b \in Apps, b.completed = a.completed, b.details = a.details,
         b.replayEpoch = a.replayEpoch
  PROVE  withoutEpoch(a, b) \in Apps /\ SamePage(withoutEpoch(a, b), a)
BY DEF withoutEpoch, Apps, SamePage

LEMMA PreGameHandled ==
  ASSUME NEW a \in Apps
  PROVE  /\ latestStats(a, HeroId) \in Apps /\ SamePage(latestStats(a, HeroId), a)
         /\ mountApp(a, HeroId) \in Apps /\ SamePage(mountApp(a, HeroId), a)
<1> DEFINE m == PreGame(HeroId)
           b == withoutEpoch(a, handleStatsMessage(a, m))
           seats == withRestoredSeats(b, m.rows)
           mounted == [a EXCEPT !.mounted = TRUE]
           d == withoutEpoch(mounted, handleStatsMessage(mounted, m))
<1>1. IsMessage(m) /\ m.rows \in Seats
  BY PreGameIsMessage
<1> HIDE DEF m
<1>2. b \in Apps /\ SamePage(b, a)
  BY <1>1, StatsHandled, WithoutEpoch
<1>3. mounted \in Apps /\ SamePage(mounted, a)
  BY DEF Apps, SamePage
<1>4. d \in Apps /\ SamePage(d, a)
  <2> HIDE DEF mounted
  <2>1. d \in Apps /\ SamePage(d, mounted)
    BY <1>1, <1>3, StatsHandled, WithoutEpoch
  <2> QED BY <1>3, <2>1 DEF SamePage
<1>5. /\ latestStats(a, HeroId) =
           IF ~a.mounted THEN [a EXCEPT !.pre = "pending"]
           ELSE [[b EXCEPT !.seats = seats, !.dim[Hero] = m.rows[Hero]] EXCEPT !.pre = "done"]
      /\ mountApp(a, HeroId) = IF a.pre # "pending" THEN mounted ELSE [d EXCEPT !.pre = "done"]
  BY DEF latestStats, handleChromeMessage, mountApp, m
<1> HIDE DEF b, d, mounted
<1>6. seats \in Seats
  BY <1>1, <1>2 DEF withRestoredSeats, Apps, Seats
<1> HIDE DEF seats
<1>7. b.dim \in Seats /\ m.rows[Hero] \in Nat
  BY <1>1, <1>2, Basics DEF Apps, Seats
<1>8. [b.dim EXCEPT ![Hero] = m.rows[Hero]] \in Seats
  BY <1>7, Basics DEF Seats
<1>9. LET e == [[b EXCEPT !.seats = seats, !.dim[Hero] = m.rows[Hero]] EXCEPT !.pre = "done"]
      IN e \in Apps /\ SamePage(e, a)
  BY <1>2, <1>6, <1>8 DEF Apps, SamePage
<1>10. /\ [a EXCEPT !.pre = "pending"] \in Apps /\ SamePage([a EXCEPT !.pre = "pending"], a)
       /\ [d EXCEPT !.pre = "done"] \in Apps /\ SamePage([d EXCEPT !.pre = "done"], a)
  BY <1>4 DEF Apps, SamePage
<1> QED BY <1>3, <1>5, <1>9, <1>10

LEMMA PageHeard ==
  ASSUME NEW a \in Apps, NEW session \in Nat, NEW snapshot \in Seats
  PROVE  /\ handleSessionStart(a, session) \in Apps /\ SamePage(handleSessionStart(a, session), a)
         /\ handleSessionEnd(a) \in Apps /\ SamePage(handleSessionEnd(a), a)
         /\ loadLastTableSnapshot(a, snapshot) \in Apps
         /\ SamePage(loadLastTableSnapshot(a, snapshot), a)
         /\ [a EXCEPT !.pre = "done"] \in Apps /\ SamePage([a EXCEPT !.pre = "done"], a)
         /\ [a EXCEPT !.saving = EMPTY_SEATS] \in Apps
         /\ SamePage([a EXCEPT !.saving = EMPTY_SEATS], a)
<1>1. handleSessionStart(a, session) \in Apps /\ SamePage(handleSessionStart(a, session), a)
  BY DEF handleSessionStart, Apps, SamePage
<1>2. handleSessionEnd(a) \in Apps /\ SamePage(handleSessionEnd(a), a)
  BY DEF handleSessionEnd, Apps, SamePage
<1>3. loadLastTableSnapshot(a, snapshot) \in Apps /\ SamePage(loadLastTableSnapshot(a, snapshot), a)
  <2> DEFINE remembered == IF a.live THEN EMPTY_SEATS ELSE snapshot
             b == [a EXCEPT !.loading = FALSE, !.remembered = remembered]
             r == [b EXCEPT !.restored = snapshot]
             seats == withRestoredSeats(r, a.seats)
  <2>1. remembered \in Seats
    BY Basics
  <2>2. loadLastTableSnapshot(a, snapshot) =
          IF snapshot = EMPTY_SEATS \/ a.applied THEN b ELSE [r EXCEPT !.seats = seats]
    BY DEF loadLastTableSnapshot
  <2> HIDE DEF remembered
  <2>3. b \in Apps /\ SamePage(b, a)
    BY <2>1 DEF Apps, SamePage
  <2> HIDE DEF b
  <2>4. r \in Apps /\ SamePage(r, a)
    BY <2>3 DEF Apps, SamePage
  <2> HIDE DEF r
  <2>5. seats \in Seats
    BY <2>4 DEF withRestoredSeats, Apps, Seats
  <2> HIDE DEF seats
  <2> QED BY <2>2, <2>3, <2>4, <2>5 DEF Apps, SamePage
<1>4. /\ [a EXCEPT !.pre = "done"] \in Apps /\ SamePage([a EXCEPT !.pre = "done"], a)
      /\ [a EXCEPT !.saving = EMPTY_SEATS] \in Apps /\ SamePage([a EXCEPT !.saving = EMPTY_SEATS], a)
  BY Basics DEF Apps, SamePage
<1> QED BY <1>1, <1>2, <1>3, <1>4

-----------------------------------------------------------------------------
(* The panel follows what its page has heard.                              *)

SameRecent(y, x) ==
  /\ y.completed = x.completed /\ y.handEpoch = x.handEpoch /\ y.replayEpoch = x.replayEpoch
  /\ y.fetches = x.fetches /\ y.cache = x.cache /\ y.cacheGen = x.cacheGen

\* The page of the panel has heard nothing the worker has not counted, and what it has
\* heard under the panel's own epochs the panel holds.
Heeds(x, as, p) ==
  /\ as[p.tab].handEpoch <= x.handEpoch /\ as[p.tab].replayEpoch <= x.replayEpoch
  /\ as[p.tab].handEpoch = p.hand /\ as[p.tab].replayEpoch = p.replay => PanelHolds(x, as, p)

LEMMA FollowedFits ==
  ASSUME NEW p \in Panels, NEW x \in Workers, NEW as \in [Tabs -> Apps], NEW d, NEW restarted,
         Recent(x, as, d, p.want), p.tab # 0 /\ ~restarted => Heeds(x, as, p)
  PROVE  LET f == Followed(p, x, as)
             y == [x EXCEPT !.fetches = f.fetches]
         IN /\ f.panel \in Panels /\ y \in Workers /\ Recent(y, as, d, f.panel.want)
            /\ PanelFollows(y, as, f.panel, restarted)
            /\ f.panel.status = "ready" => f.panel = p
<1> DEFINE f == Followed(p, x, as)
           y == [x EXCEPT !.fetches = f.fetches]
           closed == [NoPanel EXCEPT !.want = p.want]
           asked == [p EXCEPT !.status = "loading", !.want = p.want + 1, !.data = NoData,
                              !.hand = as[p.tab].handEpoch, !.replay = as[p.tab].replayEpoch]
           more == x.fetches \cup {NewFetch(p.want + 1)}
           Unchanged == f.panel = p /\ f.fetches = x.fetches
           Closes == f.panel = closed /\ f.fetches = x.fetches
           Asks == f.panel = asked /\ f.fetches = more /\ p.tab # 0
<1>1. \/ Unchanged /\ p.tab = 0
      \/ Closes
      \/ /\ Unchanged /\ p.tab # 0
         /\ as[p.tab].handEpoch = p.hand /\ as[p.tab].replayEpoch = p.replay
      \/ Asks
  <2> DEFINE asks == as[p.tab].handEpoch # p.hand \/ as[p.tab].replayEpoch # p.replay
             none == \A k \in Places \ {Hero} : ~isExist(as[p.tab].seats[k])
  <2>1. f = IF p.tab = 0 THEN [panel |-> p, fetches |-> x.fetches]
            ELSE IF none THEN [panel |-> closed, fetches |-> x.fetches]
            ELSE IF ~asks THEN [panel |-> p, fetches |-> x.fetches]
            ELSE [panel |-> asked, fetches |-> more]
    BY DEF Followed
  <2> HIDE DEF f, none, closed, asked, more
  <2> QED BY <2>1
<1>2. NoData \in Datas /\ closed \in Panels /\ closed.tab = 0 /\ closed.want = p.want /\ closed.status = "closed"
  BY DEF NoData, Datas, NoPanel, Panels
<1>3. NewFetch(p.want + 1) \in Fetches /\ NewFetch(p.want + 1).id = p.want + 1 /\ NewFetch(p.want + 1).pc = "asked"
  BY <1>2 DEF NewFetch, Fetches, Panels
<1>4. more \in SUBSET Fetches /\ \A g \in more : g \in x.fetches \/ (g.id = p.want + 1 /\ g.pc = "asked")
  BY <1>3 DEF Workers
<1>13. p.tab # 0 => as[p.tab].handEpoch \in Nat /\ as[p.tab].replayEpoch \in Nat
  BY DEF Panels, Apps
<1>14. p.want \in Nat /\ p.want + 1 \in Nat /\ p.want # p.want + 1
  BY DEF Panels
<1>5. p.tab # 0 => /\ asked \in Panels /\ asked.tab = p.tab /\ asked.want = p.want + 1
                   /\ asked.status = "loading" /\ asked.hand = as[p.tab].handEpoch
                   /\ asked.replay = as[p.tab].replayEpoch
  BY <1>2, <1>13, <1>14 DEF Panels
<1> HIDE DEF f, closed, asked, more
<1>6. f.panel \in Panels /\ f.fetches \in SUBSET Fetches
  BY <1>1, <1>2, <1>4, <1>5 DEF Workers
<1>7. /\ y \in Workers /\ y.fetches = f.fetches /\ y.completed = x.completed
      /\ y.handEpoch = x.handEpoch /\ y.replayEpoch = x.replayEpoch
      /\ y.cache = x.cache /\ y.cacheGen = x.cacheGen
  BY <1>6 DEF Workers
<1> HIDE DEF y
<1>8. \A hands : Covers(hands, y, as) <=> Covers(hands, x, as)
  BY <1>7 DEF Covers
<1>9. /\ \A g \in f.fetches : g \in x.fetches \/ (g.id = p.want + 1 /\ g.pc = "asked" /\ f.panel = asked /\ p.tab # 0)
      /\ f.panel.want \in {p.want, p.want + 1}
      /\ f.panel.want = p.want + 1 => f.panel = asked /\ p.tab # 0
  BY <1>1, <1>2, <1>4, <1>5, <1>14
<1>10. Recent(y, as, d, f.panel.want)
  <2>1. ToldIsStored(y, as, d) /\ CacheIsCurrent(y, as, d)
    BY <1>7, <1>8 DEF Recent, ToldIsStored, CacheIsCurrent
  <2>2. ASSUME NEW g \in f.fetches
        PROVE  /\ g.id <= f.panel.want
               /\ g.pc # "asked" => g.gen <= y.cacheGen
               /\ g.pc = "details" /\ g.gen = y.cacheGen => Covers(g.data.hands, y, as)
    <3>1. p.want \in Nat
      BY DEF Panels
    <3>2. CASE g \in x.fetches
      <4>1. g.id \in Nat /\ g.id <= p.want
        BY <3>2 DEF Workers, Fetches, Recent, FetchIsCurrent
      <4>2. g.id <= f.panel.want
        BY <1>9, <1>14, <4>1
      <4> QED BY <1>7, <1>8, <3>2, <4>2 DEF Recent, FetchIsCurrent
    <3>3. CASE g.id = p.want + 1 /\ g.pc = "asked" /\ f.panel = asked /\ p.tab # 0
      <4>1. f.panel.want = p.want + 1 /\ p.want + 1 <= p.want + 1
        <5>1. f.panel.want = p.want + 1
          BY <1>5, <3>3, Zenon
        <5>2. p.want + 1 <= p.want + 1
          BY <1>14
        <5> QED BY <5>1, <5>2
      <4>2. g.id <= f.panel.want /\ ~(g.pc # "asked") /\ g.pc # "details"
        BY <3>3, <4>1, Zenon
      <4> QED BY <4>2, Zenon
    <3> QED BY <1>9, <3>2, <3>3
  <2>3. FetchIsCurrent(y, as, f.panel.want)
    BY <1>7, <2>2 DEF FetchIsCurrent
  <2> QED BY <2>1, <2>3 DEF Recent
<1>11. PanelFollows(y, as, f.panel, restarted)
  <2> SUFFICES ASSUME f.panel.tab # 0, ~restarted PROVE PanelHolds(y, as, f.panel)
    BY DEF PanelFollows
  <2>1. \A q, hands : Awaited(hands, y, as, q) <=> Awaited(hands, x, as, q)
    BY <1>7 DEF Awaited
  <2>2. CASE Unchanged /\ p.tab # 0
             /\ as[p.tab].handEpoch = p.hand /\ as[p.tab].replayEpoch = p.replay
    <3>1. PanelHolds(x, as, p) /\ f.panel = p /\ y.fetches = x.fetches
      BY <1>7, <2>2 DEF Heeds
    <3> QED BY <1>7, <2>1, <3>1 DEF PanelHolds
  <2>3. CASE Asks
    <3>1. f.panel = asked /\ Heeds(x, as, p)
      BY <2>3
    <3>2. \A g \in y.fetches : g.id = asked.want => g.pc = "asked"
      <4>1. \A g \in x.fetches : g.id \in Nat /\ g.id <= p.want /\ p.want \in Nat
        BY DEF Workers, Fetches, Recent, FetchIsCurrent, Panels
      <4>2. \A g \in x.fetches : g.id # p.want + 1
        BY <4>1
      <4> QED BY <1>5, <1>7, <1>9, <2>3, <4>2
    <3> QED BY <1>5, <1>7, <2>3, <3>1, <3>2 DEF PanelHolds, Heeds
  <2> QED BY <1>1, <1>2, <2>2, <2>3
<1>12. f.panel.status = "ready" => f.panel = p
  BY <1>1, <1>2, <1>5
<1> QED BY <1>6, <1>7, <1>10, <1>11, <1>12 DEF f, y

LEMMA ToldFits ==
  ASSUME IInv, NEW x \in Workers, SameRecent(x, w), NEW as \in [Tabs -> Apps],
         \A t \in Tabs : Told(as[t], apps[t], w.completed, w.handEpoch),
         NEW d, d.hands = db.hands, d.details = db.details
  PROVE  /\ Recent(x, as, d, panel.want)
         /\ panel.tab # 0 /\ ~env.restarted => Heeds(x, as, panel)
<1>1. /\ w \in Workers /\ apps \in [Tabs -> Apps] /\ panel \in Panels
      /\ Recent(w, apps, db, panel.want) /\ PanelFollows(w, apps, panel, env.restarted)
  BY DEF IInv, PanelInv, TypeOK
<1>2. \A t \in Tabs : /\ as[t].completed \in {apps[t].completed, w.completed}
                      /\ as[t].details = apps[t].details
                      /\ as[t].replayEpoch = apps[t].replayEpoch
  BY DEF Told, SamePage
<1>3. ToldIsStored(x, as, d)
  BY <1>1, <1>2 DEF Recent, ToldIsStored, SameRecent
<1>4. \A hands : Covers(hands, w, apps) => Covers(hands, x, as)
  BY <1>2 DEF Covers, SameRecent
<1>5. CacheIsCurrent(x, as, d)
  BY <1>1, <1>4 DEF Recent, CacheIsCurrent, SameRecent
<1>6. FetchIsCurrent(x, as, panel.want)
  BY <1>1, <1>4 DEF Recent, FetchIsCurrent, SameRecent
<1>7. ASSUME panel.tab # 0, ~env.restarted PROVE Heeds(x, as, panel)
  <2> DEFINE t == panel.tab
  <2>1. PanelHolds(w, apps, panel) /\ t \in Tabs
    BY <1>1, <1>7 DEF PanelFollows, Panels
  <2>2. Told(as[t], apps[t], w.completed, w.handEpoch)
    BY <2>1
  <2>3. /\ w.handEpoch \in Nat /\ w.replayEpoch \in Nat
        /\ panel.hand \in Nat /\ panel.replay \in Nat
    BY <1>1 DEF Workers, Panels
  <2>6. /\ as[t].handEpoch = panel.hand \/ as[t].handEpoch = w.handEpoch
        /\ as[t].replayEpoch = panel.replay
        /\ x.handEpoch = w.handEpoch /\ x.replayEpoch = w.replayEpoch
    BY <2>1, <2>2, Zenon DEF PanelHolds, Told, SamePage, SameRecent
  <2>7. panel.hand <= w.handEpoch /\ panel.replay <= w.replayEpoch
    BY <2>1 DEF PanelHolds
  <2>4. as[t].handEpoch <= x.handEpoch /\ as[t].replayEpoch <= x.replayEpoch
    <3>1. w.handEpoch <= w.handEpoch
      BY <2>3
    <3>2. as[t].handEpoch <= x.handEpoch
      BY <2>6, <2>7, <3>1, Zenon
    <3>3. as[t].replayEpoch <= x.replayEpoch
      BY <2>6, <2>7, Zenon
    <3> QED BY <3>2, <3>3
  <2>5. ASSUME as[t].handEpoch = panel.hand, as[t].replayEpoch = panel.replay
        PROVE  PanelHolds(x, as, panel)
    <3>1. as[t].completed = apps[t].completed \/ (as[t].completed = w.completed /\ panel.hand = w.handEpoch)
      BY <2>2, <2>5 DEF Told, SamePage
    <3>2. \A hands : Awaited(hands, w, apps, panel) => Awaited(hands, x, as, panel)
      BY <3>1 DEF Awaited, SameRecent
    <3>3. as[t].details = apps[t].details
      BY <1>2, <2>1
    <3> QED BY <2>1, <2>5, <3>2, <3>3 DEF PanelHolds, SameRecent
  <2> QED BY <2>4, <2>5 DEF Heeds
<1> QED BY <1>3, <1>5, <1>6, <1>7 DEF Recent

\* What is shown keeps the invariant, if the worker and the pages fit together.
LEMMA ShownFits ==
  ASSUME IInv, NEW x \in Workers, NEW as \in [Tabs -> Apps], Shown(x, as),
         Recent(x, as, db', panel.want), panel.tab # 0 /\ ~env.restarted => Heeds(x, as, panel),
         WritingIsStored(x, db'), env'.restarted = env.restarted
  PROVE  w' \in Workers /\ apps' \in [Tabs -> Apps] /\ panel' \in Panels /\ PanelInv'
<1> DEFINE f == Followed(panel, x, as)
           y == [x EXCEPT !.fetches = f.fetches]
<1>1. panel \in Panels
  BY DEF IInv, TypeOK
<1>2. /\ f.panel \in Panels /\ y \in Workers /\ Recent(y, as, db', f.panel.want)
      /\ PanelFollows(y, as, f.panel, env.restarted)
  BY <1>1, FollowedFits
<1>3. apps' = as /\ panel' = f.panel /\ w' = y
  BY DEF Shown
<1>4. y.writing = x.writing
  BY DEF Workers
<1> HIDE DEF f, y
<1>5. /\ Recent(w', apps', db', panel'.want)
      /\ PanelFollows(w', apps', panel', env'.restarted)
  BY <1>2, <1>3
<1>6. WritingIsStored(w', db')
  BY <1>3, <1>4 DEF WritingIsStored
<1>7. PanelInv'
  BY <1>5, <1>6 DEF PanelInv
<1> QED BY <1>2, <1>3, <1>7

LEMMA ShownStep ==
  ASSUME IInv, NEW x \in Workers, SameRecent(x, w), NEW as \in [Tabs -> Apps],
         \A t \in Tabs : Told(as[t], apps[t], w.completed, w.handEpoch),
         Shown(x, as), WritingIsStored(x, db), env'.restarted = env.restarted,
         db'.hands = db.hands, db'.details = db.details
  PROVE  w' \in Workers /\ apps' \in [Tabs -> Apps] /\ panel' \in Panels /\ PanelInv'
<1>1. WritingIsStored(x, db')
  BY DEF WritingIsStored
<1>2. /\ Recent(x, as, db', panel.want)
      /\ panel.tab # 0 /\ ~env.restarted => Heeds(x, as, panel)
  BY ToldFits
<1> QED BY <1>1, <1>2, ShownFits

-----------------------------------------------------------------------------
(* What the worker does with an event says nothing new of the hands.        *)

Keeps(y, x) ==
  /\ y \in Workers /\ SameRecent(y, x)
  /\ \A d : WritingIsStored(x, d) => WritingIsStored(y, d)

LEMMA KeepsWriting ==
  ASSUME NEW x \in Workers, NEW y \in Workers, SameRecent(y, x), y.writing = x.writing
  PROVE  Keeps(y, x)
BY DEF Keeps, WritingIsStored

LEMMA KeepsIsTransitive ==
  ASSUME NEW x, NEW y, NEW z, Keeps(y, x), Keeps(z, y)
  PROVE  Keeps(z, x)
BY DEF Keeps, SameRecent

LEMMA PortClaimed ==
  ASSUME link \in Links, NEW x \in Workers, NEW t \in Tabs
  PROVE  Keeps(claimActivePort(x, t), x) /\ Keeps(releaseActivePort(x, t), x)
<1> DEFINE y == [x EXCEPT !.place = "port", !.tab = t, !.doc = link[t].doc, !.next = @ + 1,
                          !.gen = x.next + 1, !.gens[t] = x.next + 1, !.dealGen = 0]
           z == [x EXCEPT !.gens[t] = 0]
           c == [z EXCEPT !.place = "candidate"]
<1>1. link[t].doc \in Nat /\ x.next + 1 \in Nat /\ x.gens \in [Tabs -> Nat]
  BY DEF Links, Workers
<1>2. [x.gens EXCEPT ![t] = x.next + 1] \in [Tabs -> Nat] /\ [x.gens EXCEPT ![t] = 0] \in [Tabs -> Nat]
  BY <1>1
<1>3. y \in Workers /\ SameRecent(y, x) /\ y.writing = x.writing
  BY <1>1, <1>2 DEF Workers, SameRecent
<1>4. z \in Workers /\ SameRecent(z, x) /\ z.writing = x.writing
  BY <1>2 DEF Workers, SameRecent
<1>5. c \in Workers /\ SameRecent(c, x) /\ c.writing = x.writing
  <2> HIDE DEF z
  <2> QED BY <1>4 DEF Workers, SameRecent
<1>6. SameRecent(x, x)
  BY DEF SameRecent
<1>7. claimActivePort(x, t) \in {x, y} /\ releaseActivePort(x, t) \in {z, c}
  BY DEF claimActivePort, releaseActivePort
<1> HIDE DEF y, z, c
<1> QED BY <1>3, <1>4, <1>5, <1>6, <1>7, KeepsWriting

LEMMA Generation ==
  ASSUME NEW x \in Workers
  PROVE  /\ resolveGeneration(x) \in Nat /\ liveEvtDeal(x) \in Deals /\ DealContext(x) \in Deals
         /\ Committing(x) \in Deals
<1>1. resolveGeneration(x) \in Nat /\ liveEvtDeal(x) \in Deals /\ DealContext(x) \in Deals
  BY Basics DEF resolveGeneration, liveEvtDeal, DealContext, Workers
<1>2. Committing(x) \in Deals
  <2>1. x.writing \in Seq(Written)
    BY DEF Workers
  <2>2. x.writing # <<>> => x.writing[1] \in Written
    BY <2>1
  <2> QED BY <2>2, Basics DEF Committing, Written, Deals
<1> QED BY <1>1, <1>2

LEMMA RowsAreTyped ==
  ASSUME NEW deal \in RealDeals
  PROVE  Rows(deal) \in RowSets /\ WithoutEmptySeats(deal) \in RowSets
<1>1. SeatUserIds(deal) \in Seats
  BY Basics DEF SeatUserIds, RealDeals, Seats, Nobody
<1>2. SeatUserIds(deal) \in Seq(Nat)
  BY <1>1, Basics DEF Seats
<1>3. Rows(deal) \in RowSets
  BY <1>2 DEF Rows, RowSets, Deals
<1>4. Seated(Rows(deal).rows) \in Seq(Nat)
  BY <1>2, SeatedIsTyped DEF Rows
<1>5. WithoutEmptySeats(deal) \in RowSets
  BY <1>3, <1>4 DEF WithoutEmptySeats, RowSets
<1> QED BY <1>3, <1>5

LEMMA RequestIsTyped ==
  ASSUME NEW rows \in RowSets, NEW gen \in Nat, NEW deal \in Deals
  PROVE  /\ Request(rows, gen, deal) \in Requests
         /\ \A late \in BOOLEAN : [Request(rows, gen, deal) EXCEPT !.rows.outOfTurn = late] \in Requests
<1>1. \A late \in BOOLEAN : [rows EXCEPT !.outOfTurn = late] \in RowSets
  BY DEF RowSets
<1> QED BY <1>1 DEF Request, Requests

LEMMA DealProcessed ==
  ASSUME NEW x \in Workers, NEW deal \in RealDeals
  PROVE  Keeps(processDeal(x, deal), x)
<1> DEFINE gen == resolveGeneration(x)
           latest == IF deal.seated THEN deal ELSE x.latest
           hand == [deal |-> deal, gen |-> gen]
           y == [x EXCEPT !.dealGen = gen, !.live = deal, !.latest = latest, !.events = hand]
           entry == [request |-> Request(Rows(deal), gen, deal), behind |-> Committing(x)]
           z == [y EXCEPT !.counting = Append(y.counting, entry)]
<1>1. gen \in Nat /\ Committing(x) \in Deals /\ deal \in Deals
  BY Generation DEF Deals
<1>2. entry \in [request : Requests, behind : Deals]
  BY <1>1, RowsAreTyped, RequestIsTyped
<1>3. hand \in Unfinished /\ latest \in Deals
  BY <1>1 DEF Unfinished, Workers
<1>4. processDeal(x, deal) = IF x.batch # "off" THEN y ELSE z
  BY DEF processDeal, Workers
<1> HIDE DEF gen, hand, latest, entry
<1>5. y \in Workers /\ SameRecent(y, x) /\ y.writing = x.writing
  BY <1>1, <1>3 DEF Workers, SameRecent
<1> HIDE DEF y
<1>6. Append(y.counting, entry) \in Seq([request : Requests, behind : Deals])
  BY <1>2, <1>5, AppendProperties DEF Workers
<1>7. z \in Workers /\ SameRecent(z, x) /\ z.writing = x.writing
  BY <1>5, <1>6 DEF Workers, SameRecent
<1> HIDE DEF z
<1> QED BY <1>4, <1>5, <1>7, KeepsWriting

LEMMA ResultProcessed ==
  ASSUME NEW x \in Workers
  PROVE  Keeps(processResult(x), x)
<1> DEFINE y == [x EXCEPT !.events = NoHand]
           hand == [deal |-> x.events.deal, gen |-> x.events.gen, stored |-> FALSE, late |-> FALSE]
           z == [y EXCEPT !.writing = Append(y.writing, hand)]
           drops == x.events = NoHand \/ x.events.gen # resolveGeneration(x)
<1>1. processResult(x) = IF drops THEN y ELSE z
  BY DEF processResult, Workers
<1>2. y \in Workers /\ SameRecent(y, x) /\ y.writing = x.writing
  BY DEF Workers, SameRecent, Unfinished
<1>3. CASE drops
  BY <1>1, <1>2, <1>3, KeepsWriting
<1>4. CASE ~drops
  <2>1. hand \in Written /\ ~hand.stored
    BY <1>4 DEF Workers, Unfinished, Written
  <2> HIDE DEF hand, y
  <2>2. x.writing \in Seq(Written)
    BY DEF Workers
  <2>3. Append(y.writing, hand) \in Seq(Written)
    BY <1>2, <2>1, <2>2, AppendProperties
  <2>4. z \in Workers /\ SameRecent(z, x) /\ z.writing = Append(x.writing, hand)
    BY <1>2, <2>3 DEF Workers, SameRecent
  <2> HIDE DEF z
  <2>5. ASSUME NEW d, WritingIsStored(x, d), NEW i \in 1..Len(z.writing), z.writing[i].stored
        PROVE  z.writing[i].deal.id \in d.hands
    <3>1. (i \in 1..Len(x.writing) /\ z.writing[i] = x.writing[i]) \/ z.writing[i] = hand
      BY <2>1, <2>2, <2>4, AppendProperties
    <3> QED BY <2>1, <2>5, <3>1 DEF WritingIsStored
  <2> QED BY <1>1, <1>4, <2>4, <2>5 DEF Keeps, WritingIsStored
<1> QED BY <1>3, <1>4

States == [w : Workers, apps : [Tabs -> Apps]]

LEMMA EventProcessed ==
  ASSUME link \in Links, NEW s \in States, NEW t \in Tabs, NEW e \in Events
  PROVE  LET z == processEvent(s, t, e)
         IN z \in States /\ Keeps(z.w, s.w) /\ \A u \in Tabs : SamePage(z.apps[u], s.apps[u])
<1> DEFINE x == claimActivePort(s.w, t)
           z == processEvent(s, t, e)
           as == [s.apps EXCEPT ![t] = handleSessionStart(s.apps[t], e.session)]
<1>1. s.w \in Workers /\ s.apps \in [Tabs -> Apps]
  BY DEF States
<1>2. Keeps(x, s.w) /\ x \in Workers
  BY <1>1, PortClaimed DEF Keeps
<1> HIDE DEF x
<1>3. \A a : SamePage(a, a)
  BY DEF SamePage
<1>4. CASE e.type = "start"
  <2>1. e.session \in Nat
    BY <1>4 DEF Events
  <2>2. handleSessionStart(s.apps[t], e.session) \in Apps
        /\ SamePage(handleSessionStart(s.apps[t], e.session), s.apps[t])
    BY <1>1, <2>1, PageHeard, Basics
  <2>3. as \in [Tabs -> Apps] /\ \A u \in Tabs : SamePage(as[u], s.apps[u])
    BY <1>1, <1>3, <2>2
  <2>4. z = [w |-> x, apps |-> as]
    BY <1>4 DEF processEvent, x
  <2> HIDE DEF as, z
  <2>5. z \in States /\ z.w = x /\ z.apps = as
    BY <1>2, <2>3, <2>4 DEF States
  <2> QED BY <1>2, <2>3, <2>5, Zenon DEF z
<1>5. CASE e.type = "deal"
  <2>1. e.deal \in RealDeals
    BY <1>5 DEF Events
  <2>2. z = [s EXCEPT !.w = processDeal(x, e.deal)]
    BY <1>5 DEF processEvent, x
  <2>3. Keeps(processDeal(x, e.deal), s.w) /\ processDeal(x, e.deal) \in Workers
    BY <1>2, <2>1, DealProcessed, KeepsIsTransitive DEF Keeps
  <2> HIDE DEF z
  <2> QED BY <1>1, <1>3, <2>2, <2>3 DEF States, z
<1>6. CASE e.type = "result"
  <2>2. z = [s EXCEPT !.w = processResult(x)]
    BY <1>6 DEF processEvent, x
  <2>3. Keeps(processResult(x), s.w) /\ processResult(x) \in Workers
    BY <1>2, ResultProcessed, KeepsIsTransitive DEF Keeps
  <2> HIDE DEF z
  <2> QED BY <1>1, <1>3, <2>2, <2>3 DEF States, z
<1>7. CASE e.type = "end"
  <2>2. z = [s EXCEPT !.w = x]
    BY <1>7 DEF processEvent, x
  <2> HIDE DEF z
  <2> QED BY <1>1, <1>2, <1>3, <2>2 DEF States, z
<1>8. e.type \in {"start", "deal", "result", "end"}
  BY DEF Events
<1> QED BY <1>4, <1>5, <1>6, <1>7, <1>8

-----------------------------------------------------------------------------
(* What is shown.                                                          *)

Others == link' \in Links /\ db' \in Databases /\ game' \in Games /\ env' \in Envs /\ GamePlaces'
Kept == w' \in Workers /\ apps' \in [Tabs -> Apps] /\ panel' \in Panels /\ PanelInv'
Facts ==
  /\ game \in Games /\ link \in Links /\ w \in Workers /\ db \in Databases
  /\ apps \in [Tabs -> Apps] /\ panel \in Panels /\ env \in Envs /\ GamePlaces
  /\ WritingIsStored(w, db) /\ Recent(w, apps, db, panel.want)
  /\ PanelFollows(w, apps, panel, env.restarted)
  /\ w.handEpoch \in Nat /\ w.completed \in SUBSET Nat

LEMMA FactsHold == IInv => Facts
BY DEF IInv, TypeOK, PanelInv, Facts, Workers

LEMMA KeepsHolds ==
  /\ Others /\ Kept => IInv'
  /\ \A x \in Workers : Keeps(x, x)
BY DEF Others, Kept, IInv, TypeOK, Keeps, SameRecent

LEMMA ShownKept ==
  ASSUME IInv, NEW x, Keeps(x, w), NEW as \in [Tabs -> Apps],
         \A t \in Tabs : Told(as[t], apps[t], w.completed, w.handEpoch),
         Shown(x, as), env'.restarted = env.restarted,
         db'.hands = db.hands, db'.details = db.details
  PROVE  Kept
<1>1. WritingIsStored(x, db) /\ x \in Workers /\ SameRecent(x, w)
  BY FactsHold DEF Facts, Keeps
<1> QED BY <1>1, ShownStep DEF Kept

LEMMA PayloadIsMessage ==
  ASSUME NEW x \in Workers, SameRecent(x, w), NEW rows \in RowSets, NEW deal \in Deals
  PROVE  LET m == Payload(x, rows, deal)
         IN IsMessage(m) /\ m.completed = w.completed /\ m.epoch = w.handEpoch
BY DEF Payload, IsMessage, RowSets, Workers, SameRecent

LEMMA PostIsTold ==
  ASSUME IInv, NEW ts, NEW m, IsMessage(m), m.completed = w.completed, m.epoch = w.handEpoch
  PROVE  /\ Post(ts, m) \in [Tabs -> Apps]
         /\ \A t \in Tabs : Told(Post(ts, m)[t], apps[t], w.completed, w.handEpoch)
<1>1. \A t \in Tabs : /\ apps[t] \in Apps /\ Receive(apps[t], m) \in Apps
                      /\ Told(Receive(apps[t], m), apps[t], w.completed, w.handEpoch)
                      /\ Told(apps[t], apps[t], w.completed, w.handEpoch)
  <2> TAKE t \in Tabs
  <2>1. apps[t] \in Apps /\ m.completed \in SUBSET Nat
    BY FactsHold DEF Facts
  <2> QED BY <2>1, Received DEF Told, SamePage
<1> DEFINE r(t) == IF t \in ts THEN Receive(apps[t], m) ELSE apps[t]
<1>2. \A t \in Tabs : r(t) \in Apps /\ Told(r(t), apps[t], w.completed, w.handEpoch)
  BY <1>1
<1>3. Post(ts, m) = [t \in Tabs |-> r(t)]
  BY DEF Post
<1> HIDE DEF r
<1> QED BY <1>2, <1>3

LEMMA NothingTold ==
  ASSUME IInv
  PROVE  \A t \in Tabs : Told(apps[t], apps[t], w.completed, w.handEpoch)
BY DEF Told, SamePage

LEMMA OutputShown ==
  ASSUME IInv, NEW x, Keeps(x, w), NEW o \in Requests, statsOutput(x, o),
         env'.restarted = env.restarted, db' = db
  PROVE  Kept
<1> DEFINE y == [x EXCEPT !.known = o.rows]
           deal == IF o.deal = NoDeal THEN DealContext(y) ELSE o.deal
<1>1. x \in Workers /\ o.rows \in RowSets /\ o.deal \in Deals /\ apps \in [Tabs -> Apps]
  BY FactsHold DEF Keeps, Requests, Facts
<1>2. Keeps(y, x)
  BY <1>1, KeepsWriting DEF Workers, SameRecent
<1>3. Keeps(y, w) /\ y \in Workers /\ SameRecent(y, w)
  BY <1>2, KeepsIsTransitive DEF Keeps
<1>4. \/ Shown(x, apps)
      \/ Shown(y, Post({t \in Tabs : link[t].up}, Payload(y, o.rows, o.deal)))
      \/ Shown(y, Post(getActivePort(y), Payload(y, o.rows, deal)))
  BY DEF statsOutput
<1> HIDE DEF y
<1>5. deal \in Deals
  BY <1>1, <1>3, Generation
<1> HIDE DEF deal
<1>6. CASE Shown(x, apps)
  BY <1>1, <1>6, NothingTold, ShownKept
<1>7. ASSUME NEW ts, NEW e \in Deals, Shown(y, Post(ts, Payload(y, o.rows, e)))
      PROVE  Kept
  <2> DEFINE m == Payload(y, o.rows, e)
  <2>1. IsMessage(m) /\ m.completed = w.completed /\ m.epoch = w.handEpoch
    BY <1>1, <1>3, PayloadIsMessage
  <2>2. Shown(y, Post(ts, m))
    BY <1>7
  <2> HIDE DEF m
  <2> DEFINE as == Post(ts, m)
  <2>3. as \in [Tabs -> Apps] /\ \A t \in Tabs : Told(as[t], apps[t], w.completed, w.handEpoch)
    BY <2>1, PostIsTold
  <2>4. Shown(y, as)
    BY <2>2
  <2> HIDE DEF as
  <2> QED BY <1>3, <2>3, <2>4, ShownKept
<1> QED BY <1>1, <1>4, <1>5, <1>6, <1>7

\* Steps that leave the panel alone, and tell the pages nothing of the hands.
LEMMA PagesKept ==
  ASSUME IInv, Keeps(w', w), apps' \in [Tabs -> Apps], \A t \in Tabs : SamePage(apps'[t], apps[t]),
         panel' = panel, env'.restarted = env.restarted,
         db'.hands = db.hands, db'.details = db.details
  PROVE  Kept
<1>1. w' \in Workers /\ SameRecent(w', w) /\ WritingIsStored(w', db) /\ panel \in Panels
  BY FactsHold DEF Keeps, Facts
<1>2. \A t \in Tabs : Told(apps'[t], apps[t], w.completed, w.handEpoch)
  BY DEF Told
<1>3. Recent(w', apps', db', panel.want) /\ (panel.tab # 0 /\ ~env.restarted => Heeds(w', apps', panel))
  BY <1>1, <1>2, ToldFits
<1>4. WritingIsStored(w', db')
  BY <1>1 DEF WritingIsStored
<1>5. PanelFollows(w', apps', panel', env'.restarted)
  <2> SUFFICES ASSUME panel.tab # 0, ~env.restarted PROVE PanelHolds(w', apps', panel)
    BY DEF PanelFollows
  <2>1. PanelHolds(w, apps, panel) /\ panel.tab \in Tabs
    BY FactsHold, <1>1 DEF Facts, PanelFollows, Panels
  <2>2. apps'[panel.tab].handEpoch = panel.hand /\ apps'[panel.tab].replayEpoch = panel.replay
    BY <2>1 DEF PanelHolds, SamePage
  <2> QED BY <1>3, <2>2 DEF Heeds
<1>6. PanelInv'
  BY <1>3, <1>4, <1>5 DEF PanelInv
<1> QED BY <1>1, <1>6 DEF Kept

LEMMA WorkerKept ==
  ASSUME IInv, Keeps(w', w), UNCHANGED <<apps, panel, db>>, env'.restarted = env.restarted
  PROVE  Kept
BY PagesKept, FactsHold DEF Facts, SamePage

LEMMA FaultCounted ==
  ASSUME env \in Envs, NEW kind
  PROVE  Counted(kind) \in Envs /\ Counted(kind).restarted = env.restarted
BY HudAssumption DEF Counted, Envs

LEMMA PersistedIsTyped ==
  ASSUME db \in Databases, NEW x \in Workers, Persisted(x)
  PROVE  db' \in Databases /\ db'.hands = db.hands /\ db'.details = db.details
BY DEF Persisted, Databases, Workers

LEMMA PlayedKept ==
  ASSUME IInv, NEW t \in Tabs, NEW e \in Events, NEW own \in [Tabs -> Apps],
         \A u \in Tabs : SamePage(own[u], apps[u]), Played(t, e, own),
         env'.restarted = env.restarted
  PROVE  Kept /\ link' \in Links /\ db' \in Databases
<1> DEFINE start == [w |-> w, apps |-> own]
           s == processEvent(start, t, e)
<1>1. Facts
  BY FactsHold
<1>2. start \in States /\ start.w = w /\ start.apps = own
  BY <1>1 DEF States, Facts
<1> HIDE DEF start
<1>3. s \in States /\ Keeps(s.w, w) /\ \A u \in Tabs : SamePage(s.apps[u], own[u])
  BY <1>1, <1>2, EventProcessed DEF Facts
<1>4. s.w \in Workers /\ s.apps \in [Tabs -> Apps]
      /\ \A u \in Tabs : Told(s.apps[u], apps[u], w.completed, w.handEpoch)
  BY <1>3 DEF States, Told, SamePage
<1>5. \/ Shown(s.w, s.apps) /\ Persisted(s.w) /\ UNCHANGED link
      \/ link' = [link EXCEPT ![t].outbox = Append(link[t].outbox, e)] /\ Shown(w, own) /\ UNCHANGED db
  BY DEF Played, start
<1> HIDE DEF s
<1>6. CASE Shown(s.w, s.apps) /\ Persisted(s.w) /\ UNCHANGED link
  <2>1. db' \in Databases /\ db'.hands = db.hands /\ db'.details = db.details
    BY <1>1, <1>4, <1>6, PersistedIsTyped DEF Facts
  <2>2. Kept
    BY <1>3, <1>4, <1>6, <2>1, ShownKept
  <2> QED BY <1>1, <1>6, <2>1, <2>2 DEF Facts
<1>7. CASE link' = [link EXCEPT ![t].outbox = Append(link[t].outbox, e)] /\ Shown(w, own) /\ UNCHANGED db
  <2>1. link[t].outbox \in Seq(Events)
    BY <1>1 DEF Facts, Links
  <2>2. Append(link[t].outbox, e) \in Seq(Events)
    BY <2>1, AppendProperties
  <2>3. link' \in Links
    BY <1>1, <1>7, <2>2 DEF Facts, Links
  <2>4. Keeps(w, w) /\ \A u \in Tabs : Told(own[u], apps[u], w.completed, w.handEpoch)
    BY <1>1, KeepsHolds DEF Facts, Told
  <2>5. Kept
    BY <1>7, <2>4, ShownKept
  <2> QED BY <1>1, <1>7, <2>3, <2>5 DEF Facts
<1> QED BY <1>5, <1>6, <1>7

-----------------------------------------------------------------------------
(* The game.                                                               *)

LEMMA SessionStartKeeps ==
  ASSUME IInv, NEW t \in Tabs, SessionStart(t)
  PROVE  IInv'
<1> DEFINE e == [type |-> "start", session |-> game.session + 1]
<1>1. Facts
  BY FactsHold
<1>2. game.session \in 0..MaxSessions /\ game.session < MaxSessions /\ MaxSessions \in Nat
  BY <1>1, HudAssumption DEF Facts, Games, SessionStart
<1>3. e \in Events
  BY <1>2 DEF Events
<1>4. 0 \notin Tabs
  BY HudAssumption
<1>5. game' \in Games /\ GamePlaces'
  <2>3. game' = [game EXCEPT !.tab = t, !.session = game.session + 1, !.playing = TRUE,
                             !.hand = FALSE]
    BY <1>1 DEF SessionStart, Facts, Games
  <2>4. game.session + 1 \in 0..MaxSessions /\ game \in Games
    BY <1>1, <1>2 DEF Facts
  <2>1. game' \in Games /\ game'.tab = t /\ game'.session = game.session + 1
    BY <2>3, <2>4 DEF Games
  <2>2. t # 0 /\ game.session + 1 # 0
    BY <1>2, <1>4
  <2> QED BY <2>1, <2>2 DEF GamePlaces
<1>6. CASE Played(t, e, apps) /\ UNCHANGED env
  <2>1. Kept /\ link' \in Links /\ db' \in Databases
    BY <1>1, <1>3, <1>6, PlayedKept DEF Facts, SamePage
  <2> QED BY <1>1, <1>5, <1>6, <2>1, KeepsHolds DEF Others, Facts
<1>7. CASE env' = Counted("missed") /\ UNCHANGED <<link, w, db, apps, panel>>
  <2>1. env' \in Envs /\ env'.restarted = env.restarted
    BY <1>1, <1>7, FaultCounted DEF Facts
  <2>2. Kept
    BY <1>1, <1>7, <2>1, KeepsHolds, WorkerKept DEF Facts
  <2> QED BY <1>1, <1>5, <1>7, <2>1, <2>2, KeepsHolds DEF Others, Facts
<1> QED BY <1>6, <1>7 DEF SessionStart

LEMMA DealKeeps ==
  ASSUME IInv, NEW out \in SUBSET Places, Deal(out)
  PROVE  IInv'
<1> DEFINE seated == Table[game.session].hero + 1 \notin out
           deal == [id |-> game.count + 1, session |-> game.session, out |-> out, seated |-> seated]
           e == [type |-> "deal", deal |-> deal]
<1>1. Facts
  BY FactsHold
<1>2. /\ game.session \in 1..MaxSessions /\ game.tab \in Tabs /\ game.count \in Nat
      /\ game.playing
  BY <1>1, HudAssumption DEF Deal, Facts, Games, GamePlaces
<1>3. deal \in RealDeals
  BY <1>2 DEF RealDeals
<1>4. /\ game' = [game EXCEPT !.hand = TRUE, !.count = game.count + 1, !.dealt = deal]
      /\ Played(game.tab, e, apps)
      /\ env' = [env EXCEPT !.behind = FALSE] \/ env' = Counted("spectate")
  BY <1>1 DEF Deal, Facts, Games
<1>5. e \in Events
  BY <1>3 DEF Events
<1> HIDE DEF deal, e
<1>6. game' \in Games /\ GamePlaces'
  <2>1. game' \in Games /\ game'.tab = game.tab /\ game'.session = game.session
    <3>1. game \in Games /\ deal \in Deals /\ game.count + 1 \in Nat
      BY <1>1, <1>2, <1>3 DEF Facts, Deals
    <3>2. game' = [game EXCEPT !.hand = TRUE, !.count = game.count + 1, !.dealt = deal]
      BY <1>4
    <3> QED BY <3>1, <3>2 DEF Games
  <2>2. game.tab # 0 /\ game.session # 0
    BY <1>2, HudAssumption
  <2> QED BY <2>1, <2>2 DEF GamePlaces
<1>7. env' \in Envs /\ env'.restarted = env.restarted
  <2>1. env \in Envs /\ [env EXCEPT !.behind = FALSE] \in Envs
        /\ [env EXCEPT !.behind = FALSE].restarted = env.restarted
    BY <1>1 DEF Facts, Envs
  <2> QED BY <1>4, <2>1, FaultCounted
<1>8. Kept /\ link' \in Links /\ db' \in Databases
  BY <1>1, <1>2, <1>4, <1>5, <1>7, PlayedKept DEF Facts, SamePage
<1> QED BY <1>6, <1>7, <1>8, KeepsHolds DEF Others

LEMMA HandResultKeeps ==
  ASSUME IInv, HandResult
  PROVE  IInv'
<1> DEFINE e == [type |-> "result"]
<1>1. Facts
  BY FactsHold
<1>2. game.tab \in Tabs /\ e \in Events
  BY <1>1 DEF HandResult, Facts, Games, GamePlaces, Events
<1>3. game' \in Games /\ GamePlaces'
  <2>1. /\ game' \in Games /\ game'.tab = game.tab /\ game'.session = game.session
    BY <1>1 DEF HandResult, Facts, Games
  <2>2. game.tab # 0 /\ game.session # 0
    BY <1>1, Zenon DEF HandResult, Facts, GamePlaces
  <2> QED BY <2>1, <2>2 DEF GamePlaces
<1>4. Played(game.tab, e, apps) /\ UNCHANGED env
  BY DEF HandResult
<1> HIDE DEF e
<1>5. Kept /\ link' \in Links /\ db' \in Databases
  BY <1>1, <1>2, <1>4, PlayedKept DEF Facts, SamePage
<1> QED BY <1>1, <1>3, <1>4, <1>5, KeepsHolds DEF Others, Facts

LEMMA SessionEndKeeps ==
  ASSUME IInv, SessionEnd
  PROVE  IInv'
<1> DEFINE e == [type |-> "end"]
           own == [apps EXCEPT ![game.tab] = handleSessionEnd(apps[game.tab])]
<1>1. Facts
  BY FactsHold
<1>2. game.tab \in Tabs /\ e \in Events
  BY <1>1 DEF SessionEnd, Facts, Games, GamePlaces, Events
<1>3. game' \in Games /\ GamePlaces'
  <2>1. /\ game' \in Games /\ game'.tab = game.tab /\ game'.session = game.session
    BY <1>1 DEF SessionEnd, Facts, Games
  <2>2. game.tab # 0 /\ game.session # 0
    BY <1>1, Zenon DEF SessionEnd, Facts, GamePlaces
  <2> QED BY <2>1, <2>2 DEF GamePlaces
<1>4. handleSessionEnd(apps[game.tab]) \in Apps
      /\ SamePage(handleSessionEnd(apps[game.tab]), apps[game.tab])
  BY <1>1, <1>2, PageHeard, Basics DEF Facts
<1>5. own \in [Tabs -> Apps] /\ \A u \in Tabs : SamePage(own[u], apps[u])
  BY <1>1, <1>4 DEF Facts, SamePage
<1>6. Played(game.tab, e, own) /\ UNCHANGED env
  BY DEF SessionEnd
<1> HIDE DEF e, own
<1>7. Kept /\ link' \in Links /\ db' \in Databases
  BY <1>1, <1>2, <1>5, <1>6, PlayedKept
<1> QED BY <1>1, <1>3, <1>6, <1>7, KeepsHolds DEF Others, Facts

-----------------------------------------------------------------------------
(* The worker's computations.                                              *)

LEMMA HandsCountedKeeps ==
  ASSUME IInv, HandsCounted
  PROVE  IInv'
<1> DEFINE c == Head(w.counting)
           counting == Tail(w.counting)
           queue == IF db.hands = {} THEN w.queue ELSE Append(w.queue, c.request)
<1>1. Facts
  BY FactsHold
<1>2. w' = [w EXCEPT !.counting = counting, !.queue = queue] /\ w.counting # <<>>
  BY DEF HandsCounted
<1>3. w.counting \in Seq([request : Requests, behind : Deals]) /\ w.queue \in Seq(Requests)
  BY <1>1 DEF Facts, Workers
<1>4. c \in [request : Requests, behind : Deals] /\ counting \in Seq([request : Requests, behind : Deals])
  BY <1>2, <1>3, HeadTailProperties
<1>5. queue \in Seq(Requests)
  BY <1>3, <1>4, AppendProperties
<1> HIDE DEF counting, queue
<1>6. w' \in Workers /\ SameRecent(w', w) /\ w'.writing = w.writing
  BY <1>1, <1>2, <1>4, <1>5 DEF Facts, Workers, SameRecent
<1>7. Keeps(w', w)
  BY <1>1, <1>6, KeepsWriting DEF Facts
<1>8. Kept
  BY <1>7, WorkerKept DEF HandsCounted
<1> QED BY <1>1, <1>8, KeepsHolds DEF Others, Facts, HandsCounted, GamePlaces

LEMMA OutputKeeps ==
  ASSUME IInv, NEW x, Keeps(x, w), NEW o \in Requests, statsOutput(x, o) \/ Shown(x, apps),
         NEW behind \in BOOLEAN, env' = [env EXCEPT !.behind = env.behind \/ behind],
         UNCHANGED <<game, link, db>>
  PROVE  IInv'
<1>1. Facts
  BY FactsHold
<1>2. env' \in Envs /\ env'.restarted = env.restarted
  BY <1>1 DEF Facts, Envs
<1>3. CASE statsOutput(x, o)
  BY <1>2, <1>3, OutputShown, KeepsHolds, <1>1 DEF Others, Facts, GamePlaces
<1>4. CASE Shown(x, apps)
  <2>1. Kept
    BY <1>1, <1>2, <1>4, ShownKept, NothingTold DEF Facts
  <2> QED BY <1>1, <1>2, <2>1, KeepsHolds DEF Others, Facts, GamePlaces
<1> QED BY <1>3, <1>4

LEMMA ReadEntityStreamKeeps ==
  ASSUME IInv, ReadEntityStream
  PROVE  IInv'
<1> DEFINE o == Head(w.queue)
           queue == Tail(w.queue)
           x == [w EXCEPT !.queue = queue]
<1>1. Facts
  BY FactsHold
<1>2. w.queue # <<>> /\ (statsOutput(x, o) \/ Shown(x, apps))
  BY DEF ReadEntityStream
<1>3. w.queue \in Seq(Requests)
  BY <1>1 DEF Facts, Workers
<1>4. o \in Requests /\ queue \in Seq(Requests)
  BY <1>2, <1>3, HeadTailProperties
<1>5. Overtaken(o) \in BOOLEAN /\ env' = [env EXCEPT !.behind = env.behind \/ Overtaken(o)]
  BY <1>1, <1>4 DEF ReadEntityStream, Overtaken, Requests, RowSets, Facts, Envs
<1> HIDE DEF queue, o
<1>6. x \in Workers /\ SameRecent(x, w) /\ x.writing = w.writing
  BY <1>1, <1>4 DEF Facts, Workers, SameRecent
<1> HIDE DEF x
<1>7. Keeps(x, w)
  BY <1>1, <1>6, KeepsWriting DEF Facts
<1>8. UNCHANGED <<game, link, db>>
  BY DEF ReadEntityStream
<1> QED BY <1>2, <1>4, <1>5, <1>7, <1>8, OutputKeeps

LEMMA recalculateStatsKeeps ==
  ASSUME IInv, NEW o \in w.recalcs, recalculateStats(o)
  PROVE  IInv'
<1> DEFINE x == [w EXCEPT !.recalcs = w.recalcs \ {o}]
<1>1. Facts /\ o \in Requests
  BY FactsHold DEF Facts, Workers
<1>2. statsOutput(x, o) /\ UNCHANGED <<game, link, db>>
  BY DEF recalculateStats
<1>5. Overtaken(o) \in BOOLEAN /\ env' = [env EXCEPT !.behind = env.behind \/ Overtaken(o)]
  BY <1>1 DEF recalculateStats, Overtaken, Requests, RowSets, Facts, Envs
<1>6. x \in Workers /\ SameRecent(x, w) /\ x.writing = w.writing
  BY <1>1 DEF Facts, Workers, SameRecent
<1> HIDE DEF x
<1>7. Keeps(x, w)
  BY <1>1, <1>6, KeepsWriting DEF Facts
<1> QED BY <1>1, <1>2, <1>5, <1>7, OutputKeeps

LEMMA FilterChangesKeeps ==
  ASSUME IInv, FilterChanges
  PROVE  IInv'
<1> DEFINE x == [w EXCEPT !.live = w.latest]
           o == [ByDefault(x, Rows(w.latest)) EXCEPT !.rows.outOfTurn = TRUE]
           again == ByDefault(x, w.known)
           recalcs == w.recalcs \cup {o}
           queue == IF w.known.rows = SeatUserIds(w.latest) THEN Append(w.queue, again) ELSE w.queue
           y == [x EXCEPT !.recalcs = recalcs, !.queue = queue]
<1>1. Facts
  BY FactsHold
<1>2. w.latest \in RealDeals /\ w.queue \in Seq(Requests) /\ w.known \in RowSets
  BY <1>1 DEF FilterChanges, Facts, Workers, Deals
<1>3. x \in Workers /\ SameRecent(x, w) /\ x.writing = w.writing /\ x.queue = w.queue /\ x.recalcs = w.recalcs
  BY <1>1 DEF Facts, Workers, SameRecent
<1>9. w' = y
  BY <1>3 DEF FilterChanges
<1> HIDE DEF x
<1>4. o \in Requests /\ again \in Requests
  BY <1>2, <1>3, Generation, RowsAreTyped, RequestIsTyped DEF ByDefault
<1> HIDE DEF o, again
<1>5. queue \in Seq(Requests)
  BY <1>2, <1>4, AppendProperties
<1>6. recalcs \in SUBSET Requests
  BY <1>1, <1>4 DEF Facts, Workers
<1> HIDE DEF queue, recalcs
<1>7. y \in Workers /\ SameRecent(y, w) /\ y.writing = w.writing
  BY <1>3, <1>5, <1>6 DEF Workers, SameRecent
<1> HIDE DEF y
<1>8. Keeps(w', w)
  BY <1>1, <1>7, <1>9, KeepsWriting DEF Facts
<1>10. env' \in Envs /\ env'.restarted = env.restarted
  BY <1>1, FaultCounted DEF Facts, FilterChanges
<1>11. Kept
  BY <1>8, <1>10, WorkerKept DEF FilterChanges
<1> QED BY <1>1, <1>10, <1>11, KeepsHolds DEF Others, Facts, FilterChanges, GamePlaces

LEMMA BatchStartsKeeps ==
  ASSUME IInv, NEW kind \in {"batch", "import"}, BatchStarts(kind)
  PROVE  IInv'
<1> DEFINE behind == Committing(w)
<1>1. Facts /\ behind \in Deals
  BY FactsHold, Generation DEF Facts
<1>2. w' = [w EXCEPT !.batch = kind, !.batchBehind = behind]
  BY DEF BatchStarts
<1> HIDE DEF behind
<1>3. w' \in Workers /\ SameRecent(w', w) /\ w'.writing = w.writing
  BY <1>1, <1>2 DEF Facts, Workers, SameRecent
<1>4. Keeps(w', w)
  BY <1>1, <1>3, KeepsWriting DEF Facts
<1>5. env' \in Envs /\ env'.restarted = env.restarted
  BY <1>1, FaultCounted DEF Facts, BatchStarts
<1>6. Kept
  BY <1>4, <1>5, WorkerKept DEF BatchStarts
<1> QED BY <1>1, <1>5, <1>6, KeepsHolds DEF Others, Facts, BatchStarts, GamePlaces

LEMMA BatchEndsKeeps ==
  ASSUME IInv, BatchEnds
  PROVE  IInv'
<1> DEFINE writing == [i \in DOMAIN w.writing |-> [w.writing[i] EXCEPT !.late = TRUE]]
           x == [w EXCEPT !.batch = "off", !.batchBehind = NoDeal, !.live = w.latest,
                          !.writing = writing]
           packed == ByDefault(x, WithoutEmptySeats(w.latest))
           connected == [packed EXCEPT !.connected = TRUE, !.gen = 0, !.deal = w.latest]
           last == ByDefault(w, Rows(w.latest))
           written == IF w.batch = "import" THEN <<packed, connected>> ELSE <<last, packed>>
           queue == IF w.latest = NoDeal THEN w.queue ELSE w.queue \o written
<1>1. Facts
  BY FactsHold
<1>2. w.writing \in Seq(Written) /\ w.latest \in Deals /\ w.queue \in Seq(Requests)
  BY <1>1 DEF Facts, Workers
<1>3. /\ writing \in Seq(Written) /\ Len(writing) = Len(w.writing)
      /\ \A i \in 1..Len(w.writing) : /\ writing[i].stored = w.writing[i].stored
                                      /\ writing[i].deal = w.writing[i].deal
  <2>1. \A i \in DOMAIN w.writing : w.writing[i] \in Written
    BY <1>2
  <2>2. \A r \in Written : /\ [r EXCEPT !.late = TRUE] \in Written
                           /\ [r EXCEPT !.late = TRUE].stored = r.stored
                           /\ [r EXCEPT !.late = TRUE].deal = r.deal
    BY DEF Written
  <2>3. DOMAIN w.writing = 1..Len(w.writing) /\ Len(w.writing) \in Nat
    BY <1>2
  <2>4. \A i \in 1..Len(w.writing) : writing[i] \in Written
    BY <2>1, <2>2, <2>3
  <2>5. writing \in [1..Len(w.writing) -> Written]
    BY <2>3, <2>4
  <2>6. writing \in Seq(Written) /\ Len(writing) = Len(w.writing)
    BY <2>3, <2>5
  <2> QED BY <2>1, <2>2, <2>3, <2>6
<1>4. w' = [x EXCEPT !.queue = queue]
  <2>1. x.queue = w.queue
    BY <1>1 DEF Facts, Workers
  <2> QED BY <2>1 DEF BatchEnds
<1> HIDE DEF writing
<1>5. x \in Workers /\ SameRecent(x, w) /\ x.writing = writing
  BY <1>1, <1>2, <1>3, Basics DEF Facts, Workers, SameRecent
<1> HIDE DEF x
<1>6. queue \in Seq(Requests)
  <2>1. CASE w.latest = NoDeal
    BY <1>2, <2>1
  <2>2. CASE w.latest # NoDeal
    <3>1. w.latest \in RealDeals
      BY <1>2, <2>2 DEF Deals
    <3>2. packed \in Requests /\ last \in Requests
      BY <1>1, <1>5, <3>1, Generation, RowsAreTyped, RequestIsTyped DEF ByDefault, Facts
    <3> HIDE DEF packed, last
    <3>3. connected \in Requests
      BY <1>2, <3>2 DEF Requests
    <3> HIDE DEF connected
    <3>4. written \in Seq(Requests)
      BY <3>2, <3>3
    <3> HIDE DEF written
    <3> QED BY <1>2, <3>4, ConcatProperties
  <2> QED BY <2>1, <2>2
<1> HIDE DEF queue
<1>7. w' \in Workers /\ SameRecent(w', w) /\ w'.writing = writing
  BY <1>4, <1>5, <1>6 DEF Workers, SameRecent
<1>8. \A d : WritingIsStored(w, d) => WritingIsStored(w', d)
  BY <1>3, <1>7 DEF WritingIsStored
<1>9. Kept
  BY <1>7, <1>8, WorkerKept DEF BatchEnds, Keeps
<1> QED BY <1>1, <1>9, KeepsHolds DEF Others, Facts, BatchEnds, GamePlaces

\* The hand under way is stored: everything told stays so.
LEMMA HandCommittedKeeps ==
  ASSUME IInv, HandCommitted
  PROVE  IInv'
<1> DEFINE hand == w.writing[1]
           writing == [w.writing EXCEPT ![1].stored = TRUE]
<1>1. Facts
  BY FactsHold
<1>2. w.writing \in Seq(Written) /\ w.writing # <<>>
  BY <1>1 DEF Facts, Workers, HandCommitted
<1>3. hand \in Written /\ 1 \in 1..Len(w.writing)
  BY <1>2
<1>4. hand.deal.id \in Nat
  BY <1>3 DEF Written, RealDeals
<1>5. [hand EXCEPT !.stored = TRUE] \in Written /\ [hand EXCEPT !.stored = TRUE].deal = hand.deal
  BY <1>3 DEF Written
<1>6. /\ writing \in Seq(Written) /\ Len(writing) = Len(w.writing)
      /\ \A i \in 1..Len(w.writing) : i # 1 => writing[i] = w.writing[i]
      /\ writing[1].deal = hand.deal
  BY <1>2, <1>3, <1>5
<1>7. w' = [w EXCEPT !.writing = writing]
  BY <1>1 DEF HandCommitted, Facts, Workers
<1>8. db' = [db EXCEPT !.hands = db.hands \cup {hand.deal.id}] /\ UNCHANGED <<game, link, apps, panel, env>>
  BY DEF HandCommitted
<1> HIDE DEF writing, hand
<1>9. w' \in Workers /\ SameRecent(w', w) /\ w'.writing = writing
  BY <1>1, <1>6, <1>7 DEF Facts, Workers, SameRecent
<1>10. /\ db' \in Databases /\ db.hands \subseteq db'.hands /\ db'.details = db.details
       /\ hand.deal.id \in db'.hands
  BY <1>1, <1>4, <1>8 DEF Facts, Databases
<1>11. WritingIsStored(w', db')
  <2> SUFFICES ASSUME NEW i \in 1..Len(writing), writing[i].stored PROVE writing[i].deal.id \in db'.hands
    BY <1>9 DEF WritingIsStored
  <2>1. CASE i = 1
    BY <1>6, <1>10, <2>1
  <2>2. CASE i # 1
    BY <1>1, <1>6, <1>10, <2>2 DEF Facts, WritingIsStored
  <2> QED BY <2>1, <2>2
<1>12. \A hands, p : /\ Covers(hands, w', apps) <=> Covers(hands, w, apps)
                     /\ Awaited(hands, w', apps, p) <=> Awaited(hands, w, apps, p)
  BY <1>9 DEF Covers, Awaited, SameRecent
<1>13. Recent(w', apps, db', panel.want)
  BY <1>1, <1>9, <1>10, <1>12 DEF Facts, Recent, ToldIsStored, CacheIsCurrent, FetchIsCurrent, SameRecent
<1>14. PanelFollows(w', apps, panel, env.restarted)
  BY <1>1, <1>9, <1>12 DEF Facts, PanelFollows, PanelHolds, SameRecent
<1>15. PanelInv'
  BY <1>8, <1>11, <1>13, <1>14 DEF PanelInv
<1> QED BY <1>1, <1>8, <1>9, <1>10, <1>15, KeepsHolds DEF Others, Kept, Facts, GamePlaces

\* A hand is announced under the next epoch, and nothing that was read before is kept.
LEMMA HandPublishedKeeps ==
  ASSUME IInv, HandPublished
  PROVE  IInv'
<1> DEFINE hand == w.writing[1]
           o == [Request(Rows(hand.deal), hand.gen, hand.deal) EXCEPT !.rows.outOfTurn = hand.late]
           writing == Tail(w.writing)
           queue == Append(w.queue, o)
           completed == w.completed \cup {hand.deal.id}
<1>1. Facts
  BY FactsHold
<1>2. w.writing \in Seq(Written) /\ w.writing # <<>> /\ w.queue \in Seq(Requests) /\ hand.stored
  BY <1>1 DEF Facts, Workers, HandPublished
<1>3. hand \in Written /\ 1 \in 1..Len(w.writing)
  BY <1>2
<1>4. hand.deal.id \in Nat /\ hand.deal \in RealDeals /\ hand.deal \in Deals
      /\ hand.gen \in Nat /\ hand.late \in BOOLEAN
  BY <1>3 DEF Written, RealDeals, Deals
<1>5. hand.deal.id \in db.hands
  BY <1>1, <1>2, <1>3 DEF Facts, WritingIsStored
<1>6. w' = [w EXCEPT !.writing = writing, !.handEpoch = w.handEpoch + 1,
                     !.completed = completed, !.cache = NoCache,
                     !.cacheGen = w.cacheGen + 1, !.queue = queue]
  BY <1>1 DEF HandPublished, Facts, Workers
<1>7. UNCHANGED <<game, link, db, apps, panel, env>>
  BY DEF HandPublished
<1> HIDE DEF hand
<1>8. o \in Requests
  BY <1>4, RowsAreTyped, RequestIsTyped
<1> HIDE DEF o
<1>9. queue \in Seq(Requests)
  BY <1>2, <1>8, AppendProperties
<1>10. /\ writing \in Seq(Written) /\ Len(writing) = Len(w.writing) - 1 /\ Len(w.writing) \in Nat
       /\ \A i \in 1..Len(writing) : writing[i] = w.writing[i + 1]
  BY <1>2, HeadTailProperties
<1>11. completed \in SUBSET Nat
  BY <1>1, <1>4 DEF Facts
<1>12. w.handEpoch + 1 \in Nat /\ w.cacheGen + 1 \in Nat /\ w.cacheGen \in Nat /\ w.handEpoch \in Nat
  BY <1>1 DEF Facts, Workers
<1>13. NoCache \in [hit : BOOLEAN, data : Datas] /\ ~NoCache.hit
  BY DEF NoCache, NoData, Datas
<1> HIDE DEF queue, writing
<1>14. /\ w' \in Workers /\ w'.writing = writing /\ w'.handEpoch = w.handEpoch + 1
       /\ w'.completed = completed /\ ~w'.cache.hit /\ w'.cacheGen = w.cacheGen + 1
       /\ w'.replayEpoch = w.replayEpoch /\ w'.fetches = w.fetches
  <2> HIDE DEF completed
  <2> QED BY <1>1, <1>6, <1>9, <1>10, <1>11, <1>12, <1>13 DEF Facts, Workers
<1>15. WritingIsStored(w', db)
  <2> SUFFICES ASSUME NEW i \in 1..Len(writing), writing[i].stored PROVE writing[i].deal.id \in db.hands
    BY <1>14 DEF WritingIsStored
  <2>1. i + 1 \in 1..Len(w.writing)
    BY <1>10
  <2> QED BY <1>1, <1>10, <2>1 DEF Facts, WritingIsStored
<1>16. Recent(w', apps, db, panel.want)
  <2>1. ToldIsStored(w', apps, db) /\ CacheIsCurrent(w', apps, db)
    BY <1>1, <1>5, <1>14 DEF Facts, Recent, ToldIsStored, CacheIsCurrent
  <2>2. ASSUME NEW f \in w.fetches
        PROVE  f.id <= panel.want /\ (f.pc # "asked" => f.gen <= w'.cacheGen /\ f.gen # w'.cacheGen)
    <3>1. f.id <= panel.want /\ (f.pc # "asked" => f.gen <= w.cacheGen) /\ f.gen \in Nat
      BY <1>1 DEF Facts, Recent, FetchIsCurrent, Workers, Fetches
    <3> QED BY <1>12, <1>14, <3>1
  <2>3. FetchIsCurrent(w', apps, panel.want)
    BY <1>14, <2>2 DEF FetchIsCurrent
  <2> QED BY <2>1, <2>3 DEF Recent
<1>17. PanelFollows(w', apps, panel, env.restarted)
  <2> SUFFICES ASSUME panel.tab # 0, ~env.restarted PROVE PanelHolds(w', apps, panel)
    BY DEF PanelFollows
  <2>1. PanelHolds(w, apps, panel) /\ panel.hand \in Nat
    BY <1>1 DEF Facts, PanelFollows, Panels
  <2>2. panel.hand <= w'.handEpoch /\ panel.hand # w'.handEpoch
    BY <1>12, <1>14, <2>1 DEF PanelHolds
  <2>3. \A hands : Awaited(hands, w, apps, panel) => Awaited(hands, w', apps, panel)
    BY <2>2 DEF Awaited
  <2> QED BY <1>14, <2>1, <2>2, <2>3 DEF PanelHolds
<1>18. PanelInv'
  BY <1>7, <1>15, <1>16, <1>17 DEF PanelInv
<1> QED BY <1>1, <1>7, <1>14, <1>18, KeepsHolds DEF Others, Kept, Facts, GamePlaces

-----------------------------------------------------------------------------
(* Ports, the worker and the pages.                                        *)

LEMMA DisconnectKeeps ==
  ASSUME IInv, NEW t \in Tabs, Disconnect(t)
  PROVE  IInv'
<1>1. Facts
  BY FactsHold
<1>2. Keeps(w', w)
  BY <1>1, PortClaimed DEF Disconnect, Facts
<1>3. env' \in Envs /\ env'.restarted = env.restarted
  BY <1>1, FaultCounted DEF Facts, Disconnect
<1>4. link' \in Links
  BY <1>1 DEF Facts, Links, Disconnect
<1>5. Kept
  BY <1>2, <1>3, WorkerKept DEF Disconnect
<1> QED BY <1>1, <1>3, <1>4, <1>5, KeepsHolds DEF Others, Facts, Disconnect, GamePlaces

\* The events that waited are processed one after the other on the pages that have got
\* the latest rows again.
LEMMA ReconnectKeeps ==
  ASSUME IInv, NEW t \in Tabs, NEW late \in BOOLEAN, Reconnect(t, late)
  PROVE  IInv'
<1> DEFINE back == w.place = "candidate" /\ w.tab = t /\ w.doc = link[t].doc /\ ~late
           y == [w EXCEPT !.place = "port", !.gens[t] = w.gen]
           x == IF back THEN y ELSE w
           pages == IF back THEN registerActivePortForService(x, t) ELSE apps
           s == [w |-> x, apps |-> pages]
           after == processEvents(s, t, link[t].outbox)
           Good == {z \in States : /\ Keeps(z.w, w)
                                   /\ \A u \in Tabs : Told(z.apps[u], apps[u], w.completed, w.handEpoch)}
<1>1. Facts
  BY FactsHold
<1>2. Keeps(x, w) /\ x \in Workers
  <2>1. [w.gens EXCEPT ![t] = w.gen] \in [Tabs -> Nat]
    BY <1>1 DEF Facts, Workers
  <2>2. y \in Workers /\ SameRecent(y, w) /\ y.writing = w.writing
    BY <1>1, <2>1 DEF Facts, Workers, SameRecent
  <2>3. w \in Workers /\ Keeps(w, w)
    BY <1>1, KeepsHolds DEF Facts
  <2> HIDE DEF y
  <2> QED BY <2>2, <2>3, KeepsWriting
<1>7. /\ Shown(after.w, after.apps) /\ Persisted(after.w)
      /\ env' = [env EXCEPT !.behind = env.behind \/ ~back]
      /\ link' = [link EXCEPT ![t].up = TRUE, ![t].outbox = <<>>]
      /\ game' = game
  BY <1>1 DEF Reconnect, Facts, Envs
<1>8. back \in BOOLEAN
  OBVIOUS
<1> HIDE DEF x, back
<1>3. pages \in [Tabs -> Apps] /\ \A u \in Tabs : Told(pages[u], apps[u], w.completed, w.handEpoch)
  <2> DEFINE m == Payload(x, x.known, DealContext(x))
  <2>1. pages = apps \/ pages = Post({t}, m)
    BY DEF registerActivePortForService
  <2>2. SameRecent(x, w) /\ x.known \in RowSets /\ DealContext(x) \in Deals
    BY <1>2, Generation DEF Keeps, Workers
  <2>3. IsMessage(m) /\ m.completed = w.completed /\ m.epoch = w.handEpoch
    BY <1>2, <2>2, PayloadIsMessage
  <2> HIDE DEF m, pages
  <2> QED BY <1>1, <2>1, <2>3, PostIsTold, NothingTold DEF Facts
<1> HIDE DEF pages
<1>4. s \in Good
  BY <1>2, <1>3 DEF States
<1>5. link[t].outbox \in Seq(Events)
  BY <1>1 DEF Facts, Links
<1>6. after \in Good
  <2>1. ASSUME NEW i \in 1..Len(link[t].outbox), NEW z \in Good
        PROVE  processEvent(z, t, link[t].outbox[i]) \in Good
    <3> DEFINE n == processEvent(z, t, link[t].outbox[i])
    <3>1. link[t].outbox[i] \in Events
      BY <1>5
    <3>2. n \in States /\ Keeps(n.w, z.w) /\ \A u \in Tabs : SamePage(n.apps[u], z.apps[u])
      BY <1>1, <3>1, EventProcessed DEF Facts
    <3> HIDE DEF n
    <3>3. Keeps(n.w, w)
      BY <3>2, KeepsIsTransitive
    <3>4. \A u \in Tabs : Told(n.apps[u], apps[u], w.completed, w.handEpoch)
      BY <3>2 DEF Told, SamePage
    <3>5. n \in Good
      BY <3>2, <3>3, <3>4
    <3> QED BY <3>5 DEF n
  <2>2. Len(link[t].outbox) \in Nat
    BY <1>5
  <2> HIDE DEF Good, s
  <2> QED BY <1>4, <2>1, <2>2, ProcessEventsIn
<1> HIDE DEF after
<1>9. after.w \in Workers /\ after.apps \in [Tabs -> Apps]
  BY <1>6 DEF States
<1>10. db' \in Databases /\ db'.hands = db.hands /\ db'.details = db.details
  BY <1>1, <1>7, <1>9, PersistedIsTyped DEF Facts
<1>11. env' \in Envs /\ env'.restarted = env.restarted
  BY <1>1, <1>7, <1>8 DEF Facts, Envs
<1>12. link' \in Links
  <2> DEFINE port == [link[t] EXCEPT !.up = TRUE, !.outbox = <<>>]
  <2>3. link \in Links /\ link[t] \in [up : BOOLEAN, doc : Nat, outbox : Seq(Events)]
    BY <1>1 DEF Facts, Links
  <2>4. <<>> \in Seq(Events)
    OBVIOUS
  <2>1. port \in [up : BOOLEAN, doc : Nat, outbox : Seq(Events)]
    BY <2>3, <2>4
  <2>2. link' = [link EXCEPT ![t] = port]
    BY <1>7, <2>3 DEF Links
  <2> HIDE DEF port
  <2> QED BY <2>1, <2>2, <2>3 DEF Links
<1>13. Kept
  BY <1>6, <1>7, <1>9, <1>10, <1>11, ShownKept
<1> QED BY <1>1, <1>7, <1>10, <1>11, <1>12, <1>13, KeepsHolds DEF Others, Facts, GamePlaces

LEMMA NewWorkerIsTyped ==
  ASSUME NEW latest \in Deals
  PROVE  LET x == [NewWorker EXCEPT !.latest = latest]
         IN /\ x \in Workers /\ x.writing = <<>> /\ x.completed = {} /\ x.fetches = {} /\ ~x.cache.hit
            /\ NewWorker \in Workers
            /\ NewWorker.writing = <<>> /\ NewWorker.completed = {} /\ NewWorker.fetches = {}
            /\ ~NewWorker.cache.hit /\ NewWorker.handEpoch = 0 /\ NewWorker.replayEpoch = 0
<1>1. NoCache \in [hit : BOOLEAN, data : Datas] /\ ~NoCache.hit
  BY DEF NoCache, NoData, Datas
<1>2. NoRows \in RowSets /\ NoHand \in Unfinished /\ NoDeal \in Deals
  BY Basics DEF NoRows, RowSets, Unfinished
<1>3. [t \in Tabs |-> 0] \in [Tabs -> Nat]
  OBVIOUS
<1>4. NewWorker \in Workers
  BY <1>1, <1>2, <1>3 DEF NewWorker, Workers
<1>5. /\ NewWorker.writing = <<>> /\ NewWorker.completed = {} /\ NewWorker.fetches = {}
      /\ ~NewWorker.cache.hit /\ NewWorker.handEpoch = 0 /\ NewWorker.replayEpoch = 0
  BY <1>1 DEF NewWorker
<1> QED BY <1>4, <1>5 DEF Workers

\* What the old worker told the pages stays stored; it is told anew of the hands.
LEMMA StopKeeps ==
  ASSUME IInv, Stop
  PROVE  IInv'
<1>1. Facts
  BY FactsHold
<1>2. w' = [NewWorker EXCEPT !.latest = db.latest] /\ db.latest \in Deals
  BY <1>1 DEF Facts, Databases, Stop
<1>3. w' \in Workers /\ w'.writing = <<>> /\ w'.completed = {} /\ w'.fetches = {} /\ ~w'.cache.hit
  BY <1>2, NewWorkerIsTyped
<1>4. link' \in Links
  BY <1>1 DEF Facts, Links, Stop
<1>5. Counted("stop") \in Envs
  BY <1>1, FaultCounted DEF Facts
<1>6. env' \in Envs /\ env'.restarted
  BY <1>5 DEF Stop, Envs
<1>7. panel' \in Panels /\ panel'.want = panel.want
  BY <1>1 DEF Facts, Panels, Stop
<1>8. UNCHANGED <<game, db, apps>>
  BY DEF Stop
<1>9. WritingIsStored(w', db)
  BY <1>3 DEF WritingIsStored
<1>10. Recent(w', apps, db, panel.want)
  BY <1>1, <1>3 DEF Facts, Recent, ToldIsStored, CacheIsCurrent, FetchIsCurrent
<1>11. PanelInv'
  BY <1>6, <1>7, <1>8, <1>9, <1>10 DEF PanelInv, PanelFollows
<1> QED BY <1>1, <1>3, <1>4, <1>6, <1>7, <1>8, <1>11, KeepsHolds DEF Others, Kept, Facts, GamePlaces

LEMMA ReloadKeeps ==
  ASSUME IInv, NEW t \in Tabs, Reload(t)
  PROVE  IInv'
<1>1. Facts
  BY FactsHold
<1>2. Keeps(w', w) /\ w' \in Workers /\ SameRecent(w', w)
  BY <1>1, PortClaimed DEF Reload, Facts, Keeps
<1>3. Counted("reload") \in Envs /\ Counted("reload").restarted = env.restarted
  BY <1>1, FaultCounted DEF Facts
<1>4. env' \in Envs /\ env'.restarted = env.restarted
  BY <1>3 DEF Reload, Envs
<1>5. link' \in Links
  <2> DEFINE fresh == [up |-> TRUE, doc |-> link[t].doc + 1, outbox |-> <<>>]
  <2>1. fresh \in [up : BOOLEAN, doc : Nat, outbox : Seq(Events)]
    BY <1>1 DEF Facts, Links
  <2>2. link' = [link EXCEPT ![t] = fresh]
    BY DEF Reload
  <2> HIDE DEF fresh
  <2> QED BY <1>1, <2>1, <2>2 DEF Facts, Links
<1>6. game' \in Games /\ GamePlaces'
  <2>1. game' \in Games /\ game'.tab = game.tab /\ game'.session = game.session
        /\ game'.playing = game.playing /\ (game'.hand => game.hand)
    BY <1>1 DEF Facts, Games, Reload
  <2> QED BY <1>1, <2>1, Zenon DEF Facts, GamePlaces
<1>7. /\ apps' \in [Tabs -> Apps] /\ apps'[t] = NewApp
      /\ \A u \in Tabs : u # t => apps'[u] = apps[u]
  BY <1>1, Basics DEF Facts, Reload
<1>8. NewApp.completed = {} /\ NewApp.details = 0
  BY DEF NewApp
<1>9. UNCHANGED db
  BY DEF Reload
<1>10. db.details \in Nat
  BY <1>1 DEF Facts, Databases
<1>11. \A u \in Tabs : /\ apps'[u].completed \subseteq apps[u].completed
                       /\ apps'[u].details = 0 \/ apps'[u].details = apps[u].details
  BY <1>7, <1>8
<1>12. \A hands : Covers(hands, w, apps) => Covers(hands, w', apps')
  BY <1>2, <1>11 DEF Covers, SameRecent
<1>13. ToldIsStored(w', apps', db)
  <2>1. ToldIsStored(w, apps, db)
    BY <1>1 DEF Facts, Recent
  <2>2. \A u \in Tabs : apps'[u].details <= db.details
    BY <1>10, <1>11, <2>1 DEF ToldIsStored
  <2> QED BY <1>2, <1>11, <2>1, <2>2 DEF ToldIsStored, SameRecent
<1>14. Recent(w', apps', db, panel.want)
  BY <1>1, <1>2, <1>12, <1>13 DEF Facts, Recent, CacheIsCurrent, FetchIsCurrent, SameRecent
<1>15. NoPanel \in Panels /\ NoPanel.tab = 0
  BY DEF NoPanel, Panels, NoData, Datas
<1>16. panel' \in Panels /\ panel'.want = panel.want /\ (panel'.tab # 0 => panel' = panel /\ panel.tab # t)
  BY <1>1, <1>15 DEF Reload, Facts, Panels
<1>17. PanelFollows(w', apps', panel', env'.restarted)
  <2> SUFFICES ASSUME panel'.tab # 0, ~env.restarted PROVE PanelHolds(w', apps', panel')
    BY <1>4 DEF PanelFollows
  <2>1. panel' = panel /\ panel.tab \in Tabs /\ apps'[panel.tab] = apps[panel.tab]
        /\ PanelHolds(w, apps, panel)
    BY <1>1, <1>7, <1>16 DEF Facts, Panels, PanelFollows
  <2> QED BY <1>2, <2>1 DEF PanelHolds, Awaited, SameRecent
<1>18. PanelInv'
  <2>1. WritingIsStored(w', db)
    BY <1>1, <1>2 DEF Facts, Keeps
  <2> QED BY <1>9, <1>14, <1>16, <1>17, <2>1 DEF PanelInv
<1> QED BY <1>1, <1>2, <1>4, <1>5, <1>6, <1>7, <1>9, <1>16, <1>18, KeepsHolds DEF Others, Kept, Facts

\* Steps of one page that tell it nothing of the hands.
LEMMA PageKept ==
  ASSUME IInv, NEW t \in Tabs, NEW a \in Apps, SamePage(a, apps[t])
  PROVE  LET as == [apps EXCEPT ![t] = a]
         IN /\ as \in [Tabs -> Apps] /\ \A u \in Tabs : SamePage(as[u], apps[u])
            /\ \A u \in Tabs : Told(as[u], apps[u], w.completed, w.handEpoch)
BY FactsHold DEF Facts, SamePage, Told

LEMMA MountKeeps ==
  ASSUME IInv, NEW t \in Tabs, Mount(t)
  PROVE  IInv'
<1> DEFINE a == mountApp(apps[t], HeroId)
<1>1. Facts
  BY FactsHold
<1>2. a \in Apps /\ SamePage(a, apps[t])
  BY <1>1, PreGameHandled DEF Facts
<1>3. apps' = [apps EXCEPT ![t] = a] /\ UNCHANGED <<game, link, w, db, panel>>
  BY DEF Mount
<1> HIDE DEF a
<1>4. env' \in Envs /\ env'.restarted = env.restarted
  BY <1>1 DEF Facts, Envs, Mount
<1>5. Keeps(w', w)
  BY <1>1, <1>3, KeepsHolds DEF Facts
<1>6. apps' \in [Tabs -> Apps] /\ \A u \in Tabs : SamePage(apps'[u], apps[u])
  BY <1>2, <1>3, PageKept
<1>7. Kept
  BY <1>3, <1>4, <1>5, <1>6, PagesKept
<1> QED BY <1>1, <1>3, <1>4, <1>7, KeepsHolds DEF Others, Facts, GamePlaces

LEMMA PageShown ==
  ASSUME IInv, NEW t \in Tabs, NEW a \in Apps, SamePage(a, apps[t]),
         Shown(w, [apps EXCEPT ![t] = a]), UNCHANGED <<game, link, db, env>>
  PROVE  IInv'
<1> DEFINE as == [apps EXCEPT ![t] = a]
<1>1. Facts
  BY FactsHold
<1>2. as \in [Tabs -> Apps] /\ \A u \in Tabs : Told(as[u], apps[u], w.completed, w.handEpoch)
  BY PageKept
<1>3. Shown(w, as) /\ Keeps(w, w)
  BY <1>1, KeepsHolds DEF Facts
<1> HIDE DEF as
<1>4. Kept
  BY <1>2, <1>3, ShownKept
<1> QED BY <1>1, <1>4, KeepsHolds DEF Others, Facts, GamePlaces

LEMMA PreGameAnsweredKeeps ==
  ASSUME IInv, NEW t \in Tabs, PreGameAnswered(t)
  PROVE  IInv'
<1> DEFINE known == apps[t].pre = "asked" /\ w.batch = "off" /\ w.latest # NoDeal
           a == IF known THEN latestStats(apps[t], HeroId) ELSE [apps[t] EXCEPT !.pre = "done"]
<1>1. apps \in [Tabs -> Apps]
  BY FactsHold DEF Facts
<1>2. a \in Apps /\ SamePage(a, apps[t])
  BY <1>1, PreGameHandled, PageHeard, Basics
<1>3. Shown(w, [apps EXCEPT ![t] = a]) /\ UNCHANGED <<game, link, db, env>>
  BY <1>1 DEF PreGameAnswered
<1> HIDE DEF a
<1> QED BY <1>2, <1>3, PageShown

LEMMA SnapshotLoadedKeeps ==
  ASSUME IInv, NEW t \in Tabs, SnapshotLoaded(t)
  PROVE  IInv'
<1> DEFINE a == loadLastTableSnapshot(apps[t], db.snapshot)
<1>1. apps \in [Tabs -> Apps] /\ db.snapshot \in Seats
  BY FactsHold DEF Facts, Databases
<1>2. a \in Apps /\ SamePage(a, apps[t])
  BY <1>1, PageHeard
<1>3. Shown(w, [apps EXCEPT ![t] = a]) /\ UNCHANGED <<game, link, db, env>>
  BY <1>1 DEF SnapshotLoaded
<1> HIDE DEF a
<1> QED BY <1>2, <1>3, PageShown

LEMMA SnapshotSavedKeeps ==
  ASSUME IInv, NEW t \in Tabs, SnapshotSaved(t)
  PROVE  IInv'
<1> DEFINE a == [apps[t] EXCEPT !.saving = EMPTY_SEATS]
<1>1. Facts /\ apps[t].saving \in Seats
  BY FactsHold DEF Facts, Apps
<1>2. a \in Apps /\ SamePage(a, apps[t])
  BY <1>1, PageHeard, Basics DEF Facts
<1>3. apps' = [apps EXCEPT ![t] = a] /\ UNCHANGED <<game, link, w, panel, env>>
  BY <1>1 DEF SnapshotSaved, Facts
<1> HIDE DEF a
<1>4. db' \in Databases /\ db'.hands = db.hands /\ db'.details = db.details
  BY <1>1 DEF SnapshotSaved, Facts, Databases
<1>5. Keeps(w', w)
  BY <1>1, <1>3, KeepsHolds DEF Facts
<1>6. apps' \in [Tabs -> Apps] /\ \A u \in Tabs : SamePage(apps'[u], apps[u])
  BY <1>2, <1>3, PageKept
<1>7. Kept
  BY <1>3, <1>4, <1>5, <1>6, PagesKept
<1> QED BY <1>1, <1>3, <1>4, <1>7, KeepsHolds DEF Others, Facts, GamePlaces

-----------------------------------------------------------------------------
(* The panel.                                                              *)

\* A panel is opened on the epochs of its page, and asks for the hands.
LEMMA OpenPanelKeeps ==
  ASSUME IInv, NEW t \in Tabs, OpenPanel(t)
  PROVE  IInv'
<1> DEFINE new == NewFetch(panel.want + 1)
           p == [tab |-> t, status |-> "loading", want |-> panel.want + 1,
                 hand |-> apps[t].handEpoch, replay |-> apps[t].replayEpoch, data |-> NoData]
           restarted == apps[t].handEpoch > w.handEpoch \/ apps[t].replayEpoch > w.replayEpoch
<1>1. Facts
  BY FactsHold
<1>2. /\ panel' = p /\ w' = [w EXCEPT !.fetches = w.fetches \cup {new}]
      /\ env' = [Counted("panel") EXCEPT !.restarted = restarted] /\ UNCHANGED <<game, link, db, apps>>
  BY <1>1 DEF OpenPanel, Facts, Workers
<1>3. /\ panel.want \in Nat /\ panel.want + 1 \in Nat /\ panel.want <= panel.want + 1
      /\ panel.want + 1 <= panel.want + 1
      /\ apps[t].handEpoch \in Nat /\ apps[t].replayEpoch \in Nat /\ w.handEpoch \in Nat /\ w.replayEpoch \in Nat
  <2>1. panel.want \in Nat /\ w.handEpoch \in Nat /\ w.replayEpoch \in Nat
    BY <1>1 DEF Facts, Panels, Workers
  <2>2. apps[t] \in Apps
    BY <1>1 DEF Facts
  <2>3. apps[t].handEpoch \in Nat /\ apps[t].replayEpoch \in Nat
    BY <2>2 DEF Apps
  <2> QED BY <2>1, <2>3
<1>4. NoData \in Datas
  BY DEF NoData, Datas
<1>5. p \in Panels
  BY <1>3, <1>4 DEF Panels
<1>6. new \in Fetches /\ new.id = panel.want + 1 /\ new.pc = "asked"
  BY <1>3, <1>4 DEF NewFetch, Fetches
<1>7. env' \in Envs /\ env'.restarted = restarted
  <2>1. Counted("panel") \in Envs /\ restarted \in BOOLEAN
    BY <1>1, FaultCounted DEF Facts
  <2> HIDE DEF restarted
  <2> QED BY <1>2, <2>1 DEF Envs
<1> HIDE DEF new
<1>8. /\ w' \in Workers /\ w'.fetches = w.fetches \cup {new} /\ w'.completed = w.completed
      /\ w'.writing = w.writing /\ w'.cache = w.cache /\ w'.cacheGen = w.cacheGen
      /\ w'.handEpoch = w.handEpoch /\ w'.replayEpoch = w.replayEpoch
  BY <1>1, <1>2, <1>6 DEF Facts, Workers
<1>9. \A hands : Covers(hands, w', apps) <=> Covers(hands, w, apps)
  BY <1>8 DEF Covers
<1>10. \A f \in w.fetches : f.id \in Nat /\ f.id <= panel.want
  BY <1>1 DEF Facts, Workers, Fetches, Recent, FetchIsCurrent
<1>11. Recent(w', apps, db, panel.want + 1)
  <2>1. ToldIsStored(w', apps, db) /\ CacheIsCurrent(w', apps, db)
    BY <1>1, <1>8, <1>9 DEF Facts, Recent, ToldIsStored, CacheIsCurrent
  <2>2. ASSUME NEW f \in w.fetches
        PROVE  /\ f.id <= panel.want + 1
               /\ f.pc # "asked" => f.gen <= w'.cacheGen
               /\ f.pc = "details" /\ f.gen = w'.cacheGen => Covers(f.data.hands, w', apps)
    <3>1. f.id <= panel.want + 1
      BY <1>3, <1>10
    <3> QED BY <1>1, <1>8, <1>9, <3>1 DEF Facts, Recent, FetchIsCurrent
  <2>3. new.id <= panel.want + 1 /\ new.pc # "details"
    BY <1>3, <1>6
  <2>4. FetchIsCurrent(w', apps, panel.want + 1)
    BY <1>6, <1>8, <2>2, <2>3 DEF FetchIsCurrent
  <2> QED BY <2>1, <2>4 DEF Recent
<1>12. PanelFollows(w', apps, p, restarted)
  <2> SUFFICES ASSUME ~restarted PROVE PanelHolds(w', apps, p)
    BY DEF PanelFollows
  <2>1. apps[t].handEpoch <= w'.handEpoch /\ apps[t].replayEpoch <= w'.replayEpoch
    BY <1>3, <1>8
  <2>2. \A f \in w'.fetches : f.id = panel.want + 1 => f.pc # "details"
    BY <1>3, <1>6, <1>8, <1>10
  <2> QED BY <2>1, <2>2 DEF PanelHolds
<1>13. WritingIsStored(w', db)
  BY <1>1, <1>8 DEF Facts, WritingIsStored
<1> HIDE DEF restarted
<1>14. PanelInv'
  BY <1>2, <1>7, <1>11, <1>12, <1>13 DEF PanelInv
<1> QED BY <1>1, <1>2, <1>5, <1>7, <1>8, <1>14, KeepsHolds DEF Others, Kept, Facts, GamePlaces

\* What a step of a fetch has to keep, the pages and the rest of the worker being as
\* they were.
LEMMA FetchKept ==
  ASSUME IInv, NEW fetches \in SUBSET Fetches, NEW cache \in [hit : BOOLEAN, data : Datas],
         w' = [w EXCEPT !.fetches = fetches, !.cache = cache],
         UNCHANGED <<game, link, db, apps, env>>, panel' \in Panels, panel'.want = panel.want,
         cache.hit => Covers(cache.data.hands, w, apps) /\ cache.data.details = db.details,
         \A g \in fetches : /\ g.id <= panel.want
                            /\ g.pc # "asked" => g.gen <= w.cacheGen
                            /\ g.pc = "details" /\ g.gen = w.cacheGen => Covers(g.data.hands, w, apps),
         panel'.tab # 0 => panel'.tab = panel.tab /\ panel'.hand = panel.hand
                           /\ panel'.replay = panel.replay,
         PanelHolds(w, apps, panel) /\ panel.tab # 0 /\ panel.tab \in Tabs =>
           /\ panel'.status = "ready" => /\ Awaited(panel'.data.hands, w, apps, panel)
                                         /\ apps[panel.tab].details <= panel'.data.details
           /\ \A g \in fetches : g.id = panel.want /\ g.pc = "details" =>
                                   Awaited(g.data.hands, w, apps, panel)
  PROVE  IInv'
<1>1. Facts
  BY FactsHold
<1>2. /\ w' \in Workers /\ w'.fetches = fetches /\ w'.cache = cache /\ w'.cacheGen = w.cacheGen
      /\ w'.completed = w.completed /\ w'.handEpoch = w.handEpoch
      /\ w'.replayEpoch = w.replayEpoch /\ w'.writing = w.writing
  BY <1>1 DEF Facts, Workers
<1>3. \A hands : Covers(hands, w', apps) <=> Covers(hands, w, apps)
  BY <1>2 DEF Covers
<1>4. Recent(w', apps, db, panel'.want)
  <2>1. ToldIsStored(w', apps, db) /\ CacheIsCurrent(w', apps, db)
    BY <1>1, <1>2, <1>3 DEF Facts, Recent, ToldIsStored, CacheIsCurrent
  <2>2. FetchIsCurrent(w', apps, panel'.want)
    BY <1>2, <1>3 DEF FetchIsCurrent
  <2> QED BY <2>1, <2>2 DEF Recent
<1>5. PanelFollows(w', apps, panel', env.restarted)
  <2> SUFFICES ASSUME panel'.tab # 0, ~env.restarted PROVE PanelHolds(w', apps, panel')
    BY DEF PanelFollows
  <2>1. /\ panel'.tab = panel.tab /\ panel'.hand = panel.hand /\ panel'.replay = panel.replay
        /\ PanelHolds(w, apps, panel) /\ panel.tab \in Tabs /\ panel.tab # 0
    BY <1>1 DEF Facts, PanelFollows, Panels
  <2>2. \A hands : Awaited(hands, w', apps, panel') <=> Awaited(hands, w, apps, panel)
    BY <1>2, <2>1 DEF Awaited
  <2> QED BY <1>2, <2>1, <2>2 DEF PanelHolds
<1>6. PanelInv'
  BY <1>1, <1>2, <1>4, <1>5 DEF PanelInv, Facts, WritingIsStored
<1> QED BY <1>1, <1>2, <1>6, KeepsHolds DEF Others, Kept, Facts, GamePlaces

LEMMA AnswerIsTyped ==
  ASSUME panel \in Panels, NEW f, NEW data \in Datas, Answered(f, data)
  PROVE  /\ panel' \in Panels /\ panel'.want = panel.want /\ panel'.tab = panel.tab
         /\ panel'.hand = panel.hand /\ panel'.replay = panel.replay
         /\ panel' = panel \/ (f.id = panel.want /\ panel.tab # 0 /\ panel'.data = data)
BY DEF Answered, Panels

\* The fetches under way, as the invariant has them.
LEMMA FetchesUnderWay ==
  ASSUME IInv
  PROVE  /\ w.fetches \in SUBSET Fetches /\ w.cache \in [hit : BOOLEAN, data : Datas]
         /\ w.cacheGen \in Nat /\ w.cacheGen <= w.cacheGen
         /\ w.cache.hit => Covers(w.cache.data.hands, w, apps) /\ w.cache.data.details = db.details
         /\ \A g \in w.fetches : /\ g.id <= panel.want
                                 /\ g.pc # "asked" => g.gen <= w.cacheGen
                                 /\ g.pc = "details" /\ g.gen = w.cacheGen =>
                                      Covers(g.data.hands, w, apps)
         /\ Covers(db.hands, w, apps) /\ \A t \in Tabs : apps[t].details <= db.details
<1>1. Facts
  BY FactsHold
<1>2. w.fetches \in SUBSET Fetches /\ w.cache \in [hit : BOOLEAN, data : Datas] /\ w.cacheGen \in Nat
  BY <1>1 DEF Facts, Workers
<1> QED BY <1>1, <1>2 DEF Facts, Recent, ToldIsStored, CacheIsCurrent, FetchIsCurrent, Covers

LEMMA CoveredIsAwaited ==
  ASSUME NEW hands, Covers(hands, w, apps), panel.tab \in Tabs
  PROVE  Awaited(hands, w, apps, panel)
BY DEF Covers, Awaited

LEMMA FetchStartsKeeps ==
  ASSUME IInv, NEW f \in w.fetches, FetchStarts(f)
  PROVE  IInv'
<1>1. Facts
  BY FactsHold
<1>2. f \in Fetches /\ f.pc = "asked" /\ UNCHANGED <<game, link, db, apps, env>>
  BY <1>1 DEF Facts, Workers, FetchStarts
<1>3. CASE /\ w.cache.hit /\ w' = [w EXCEPT !.fetches = w.fetches \ {f}]
           /\ Answered(f, w.cache.data)
  <2> DEFINE rest == w.fetches \ {f}
  <2>1. w' = [w EXCEPT !.fetches = rest, !.cache = w.cache]
    BY <1>1, <1>3 DEF Facts, Workers
  <2>2. rest \in SUBSET Fetches /\ \A g \in rest : g \in w.fetches
    BY FetchesUnderWay
  <2>3. w.cache.data \in Datas /\ panel \in Panels
    BY <1>1, FetchesUnderWay DEF Facts
  <2>4. /\ panel' \in Panels /\ panel'.want = panel.want /\ panel'.tab = panel.tab
        /\ panel'.hand = panel.hand /\ panel'.replay = panel.replay
        /\ panel' = panel \/ panel'.data = w.cache.data
    BY <1>3, <2>3, AnswerIsTyped
  <2>5. ASSUME PanelHolds(w, apps, panel), panel.tab # 0, panel.tab \in Tabs
        PROVE  /\ panel'.status = "ready" => /\ Awaited(panel'.data.hands, w, apps, panel)
                                             /\ apps[panel.tab].details <= panel'.data.details
               /\ \A g \in rest : g.id = panel.want /\ g.pc = "details" =>
                                    Awaited(g.data.hands, w, apps, panel)
    <3>1. Awaited(w.cache.data.hands, w, apps, panel) /\ apps[panel.tab].details <= w.cache.data.details
      BY <1>3, <2>5, FetchesUnderWay, CoveredIsAwaited
    <3> QED BY <2>2, <2>4, <2>5, <3>1 DEF PanelHolds
  <2> HIDE DEF rest
  <2> QED BY <1>2, <2>1, <2>2, <2>4, <2>5, FetchesUnderWay, FetchKept
<1>4. CASE /\ w' = [w EXCEPT !.fetches = (w.fetches \ {f}) \cup
                                           {[f EXCEPT !.pc = "hands", !.gen = w.cacheGen]}]
           /\ UNCHANGED panel
  <2> DEFINE g0 == [f EXCEPT !.pc = "hands", !.gen = w.cacheGen]
             rest == (w.fetches \ {f}) \cup {g0}
  <2>1. w' = [w EXCEPT !.fetches = rest, !.cache = w.cache]
    BY <1>1, <1>4 DEF Facts, Workers
  <2>2. g0 \in Fetches /\ g0.id = f.id /\ g0.pc = "hands" /\ g0.gen = w.cacheGen
    BY <1>2, FetchesUnderWay DEF Fetches
  <2> HIDE DEF g0
  <2>3. rest \in SUBSET Fetches /\ \A g \in rest : g \in w.fetches \/ g = g0
    BY <2>2, FetchesUnderWay
  <2> HIDE DEF rest
  <2>4. \A g \in rest : /\ g.id <= panel.want
                        /\ g.pc # "asked" => g.gen <= w.cacheGen
                        /\ g.pc = "details" /\ g.gen = w.cacheGen => Covers(g.data.hands, w, apps)
    BY <2>2, <2>3, FetchesUnderWay
  <2>5. ASSUME PanelHolds(w, apps, panel), panel.tab # 0, panel.tab \in Tabs
        PROVE  /\ panel'.status = "ready" => /\ Awaited(panel'.data.hands, w, apps, panel)
                                             /\ apps[panel.tab].details <= panel'.data.details
               /\ \A g \in rest : g.id = panel.want /\ g.pc = "details" =>
                                    Awaited(g.data.hands, w, apps, panel)
    BY <1>4, <2>2, <2>3, <2>5 DEF PanelHolds
  <2>6. panel' \in Panels /\ panel' = panel
    BY <1>1, <1>4 DEF Facts
  <2> QED BY <1>2, <2>1, <2>3, <2>4, <2>5, <2>6, FetchesUnderWay, FetchKept
<1> QED BY <1>3, <1>4 DEF FetchStarts

LEMMA FetchReadsHandsKeeps ==
  ASSUME IInv, NEW f \in w.fetches, FetchReadsHands(f)
  PROVE  IInv'
<1> DEFINE g0 == [f EXCEPT !.pc = "details", !.data.hands = db.hands]
           rest == (w.fetches \ {f}) \cup {g0}
<1>1. Facts
  BY FactsHold
<1>2. f \in Fetches /\ f.pc = "hands" /\ UNCHANGED <<game, link, db, apps, panel, env>>
  BY <1>1 DEF Facts, Workers, FetchReadsHands
<1>3. w' = [w EXCEPT !.fetches = rest, !.cache = w.cache]
  BY <1>1 DEF Facts, Workers, FetchReadsHands
<1>4. [f.data EXCEPT !.hands = db.hands] \in Datas /\ [f.data EXCEPT !.hands = db.hands].hands = db.hands
  BY <1>1, <1>2 DEF Facts, Databases, Fetches, Datas
<1>5. /\ g0 \in Fetches /\ g0.id = f.id /\ g0.pc = "details" /\ g0.gen = f.gen
      /\ g0.data.hands = db.hands
  BY <1>2, <1>4 DEF Fetches
<1> HIDE DEF g0
<1>6. rest \in SUBSET Fetches /\ \A g \in rest : g \in w.fetches \/ g = g0
  BY <1>5, FetchesUnderWay
<1> HIDE DEF rest
<1>7. \A g \in rest : /\ g.id <= panel.want
                      /\ g.pc # "asked" => g.gen <= w.cacheGen
                      /\ g.pc = "details" /\ g.gen = w.cacheGen => Covers(g.data.hands, w, apps)
  BY <1>2, <1>5, <1>6, FetchesUnderWay
<1>8. ASSUME PanelHolds(w, apps, panel), panel.tab # 0, panel.tab \in Tabs
      PROVE  /\ panel'.status = "ready" => /\ Awaited(panel'.data.hands, w, apps, panel)
                                           /\ apps[panel.tab].details <= panel'.data.details
             /\ \A g \in rest : g.id = panel.want /\ g.pc = "details" =>
                                  Awaited(g.data.hands, w, apps, panel)
  <2>1. Awaited(db.hands, w, apps, panel)
    BY <1>8, FetchesUnderWay, CoveredIsAwaited
  <2> QED BY <1>2, <1>5, <1>6, <1>8, <2>1 DEF PanelHolds
<1>9. panel' \in Panels /\ panel' = panel
  BY <1>1, <1>2 DEF Facts
<1> QED BY <1>2, <1>3, <1>6, <1>7, <1>8, <1>9, FetchesUnderWay, FetchKept

LEMMA FetchEndsKeeps ==
  ASSUME IInv, NEW f \in w.fetches, FetchEnds(f)
  PROVE  IInv'
<1> DEFINE data == [f.data EXCEPT !.details = db.details]
           rest == w.fetches \ {f}
           cache == IF w.cacheGen = f.gen THEN [hit |-> TRUE, data |-> data] ELSE w.cache
<1>1. Facts
  BY FactsHold
<1>2. f \in Fetches /\ f.pc = "details" /\ UNCHANGED <<game, link, db, apps, env>>
  BY <1>1 DEF Facts, Workers, FetchEnds
<1>3. data \in Datas /\ data.hands = f.data.hands /\ data.details = db.details
  BY <1>1, <1>2 DEF Facts, Databases, Fetches, Datas
<1>4. Answered(f, data) /\ w' = [w EXCEPT !.fetches = rest, !.cache = cache]
  <2>1. Answered(f, data) /\ w' = cached([w EXCEPT !.fetches = rest], f, data)
    BY DEF FetchEnds
  <2> HIDE DEF data, rest
  <2>2. cached([w EXCEPT !.fetches = rest], f, data) = [w EXCEPT !.fetches = rest, !.cache = cache]
    BY <1>1 DEF Facts, Workers, cached
  <2> QED BY <2>1, <2>2
<1> HIDE DEF data
<1>5. /\ cache \in [hit : BOOLEAN, data : Datas]
      /\ cache.hit => Covers(cache.data.hands, w, apps) /\ cache.data.details = db.details
  BY <1>2, <1>3, FetchesUnderWay
<1> HIDE DEF cache
<1>6. rest \in SUBSET Fetches /\ \A g \in rest : g \in w.fetches
  BY FetchesUnderWay
<1> HIDE DEF rest
<1>7. /\ panel' \in Panels /\ panel'.want = panel.want /\ panel'.tab = panel.tab
      /\ panel'.hand = panel.hand /\ panel'.replay = panel.replay
      /\ panel' = panel \/ (f.id = panel.want /\ panel'.data = data)
  BY <1>1, <1>3, <1>4, AnswerIsTyped DEF Facts
<1>8. ASSUME PanelHolds(w, apps, panel), panel.tab # 0, panel.tab \in Tabs
      PROVE  /\ panel'.status = "ready" => /\ Awaited(panel'.data.hands, w, apps, panel)
                                           /\ apps[panel.tab].details <= panel'.data.details
             /\ \A g \in rest : g.id = panel.want /\ g.pc = "details" =>
                                  Awaited(g.data.hands, w, apps, panel)
  <2>1. f.id = panel.want => Awaited(data.hands, w, apps, panel)
    BY <1>2, <1>3, <1>8 DEF PanelHolds
  <2>2. apps[panel.tab].details <= data.details
    BY <1>3, <1>8, FetchesUnderWay
  <2> QED BY <1>6, <1>7, <1>8, <2>1, <2>2 DEF PanelHolds
<1> QED BY <1>2, <1>4, <1>5, <1>6, <1>7, <1>8, FetchesUnderWay, FetchKept

\* The pages of the active port are told of the details under the next replay epoch; the
\* panel's own page then asks again.
LEMMA DetailsTold ==
  ASSUME IInv, NEW x \in Workers, NEW details \in Nat, NEW d,
         x.completed = w.completed, x.handEpoch = w.handEpoch, x.replayEpoch = w.replayEpoch,
         x.fetches = w.fetches, x.writing = w.writing,
         ToldIsStored(w, apps, d), details <= d.details,
         CacheIsCurrent(x, apps, d), FetchIsCurrent(x, apps, panel.want), WritingIsStored(w, d),
         notifyReplayDetailsStored(x, details), db' = d, env' = env
  PROVE  Kept
<1> DEFINE y == [x EXCEPT !.pending = 0, !.replayEpoch = x.replayEpoch + 1]
           told(t) == t \in getActivePort(x) /\ apps[t].mounted
           page(t) == IF told(t) THEN [apps[t] EXCEPT !.replayEpoch = y.replayEpoch, !.details = details]
                      ELSE apps[t]
           as == [t \in Tabs |-> page(t)]
<1>1. Facts
  BY FactsHold
<1>2. x.replayEpoch \in Nat /\ x.replayEpoch + 1 \in Nat /\ w.handEpoch \in Nat
  <2>1. x.replayEpoch \in Nat
    BY DEF Workers
  <2> QED BY <1>1, <2>1 DEF Facts
<1>3. /\ y \in Workers /\ y.replayEpoch = x.replayEpoch + 1 /\ y.completed = w.completed
      /\ y.handEpoch = w.handEpoch /\ y.fetches = w.fetches /\ y.writing = w.writing
      /\ y.cache = x.cache /\ y.cacheGen = x.cacheGen
  BY <1>2 DEF Workers
<1>4. Shown(y, as)
  BY DEF notifyReplayDetailsStored, Workers
<1> HIDE DEF y, told
<1>5. \A t \in Tabs :
        /\ page(t) \in Apps /\ page(t).completed = apps[t].completed
        /\ page(t).handEpoch = apps[t].handEpoch
        /\ page(t) = apps[t] \/ (page(t).replayEpoch = y.replayEpoch /\ page(t).details = details)
  <2> TAKE t \in Tabs
  <2>1. apps[t] \in Apps /\ y.replayEpoch \in Nat
    BY <1>1, <1>2, <1>3 DEF Facts
  <2> QED BY <2>1 DEF Apps
<1> HIDE DEF page
<1>6. /\ as \in [Tabs -> Apps]
      /\ \A t \in Tabs :
           /\ as[t].completed = apps[t].completed /\ as[t].handEpoch = apps[t].handEpoch
           /\ as[t] = apps[t] \/ (as[t].replayEpoch = y.replayEpoch /\ as[t].details = details)
  BY <1>5
<1> HIDE DEF as
<1>7. \A hands : Covers(hands, y, as) <=> Covers(hands, x, apps)
  BY <1>3, <1>6 DEF Covers
<1>8. ToldIsStored(y, as, d)
  <2>1. \A t \in Tabs : as[t].details <= d.details
    BY <1>6 DEF ToldIsStored
  <2> QED BY <1>3, <1>6, <2>1 DEF ToldIsStored
<1>9. CacheIsCurrent(y, as, d) /\ FetchIsCurrent(y, as, panel.want)
  BY <1>3, <1>7 DEF CacheIsCurrent, FetchIsCurrent
<1>10. ASSUME panel.tab # 0, ~env.restarted PROVE Heeds(y, as, panel)
  <2> DEFINE t == panel.tab
  <2>1. t \in Tabs /\ PanelHolds(w, apps, panel) /\ panel.replay \in Nat /\ panel.hand \in Nat
    BY <1>1, <1>10 DEF Facts, Panels, PanelFollows
  <2>2. panel.replay <= y.replayEpoch /\ panel.replay # y.replayEpoch /\ y.replayEpoch <= y.replayEpoch
    <3>1. panel.replay <= x.replayEpoch
      BY <2>1 DEF PanelHolds
    <3> QED BY <1>2, <1>3, <2>1, <3>1
  <2>3. as[t].handEpoch = panel.hand /\ panel.hand <= y.handEpoch
    BY <1>3, <1>6, <2>1 DEF PanelHolds
  <2>4. as[t].replayEpoch <= y.replayEpoch
    <3>1. as[t].replayEpoch = panel.replay \/ as[t].replayEpoch = y.replayEpoch
      BY <1>6, <2>1 DEF PanelHolds
    <3> QED BY <2>2, <3>1
  <2>5. ASSUME as[t].replayEpoch = panel.replay PROVE PanelHolds(y, as, panel)
    <3>1. as[t] = apps[t]
      BY <1>6, <2>1, <2>2, <2>5
    <3>2. \A hands : Awaited(hands, y, as, panel) <=> Awaited(hands, w, apps, panel)
      BY <1>3, <3>1 DEF Awaited
    <3> QED BY <1>3, <2>1, <2>2, <3>1, <3>2 DEF PanelHolds
  <2> QED BY <2>3, <2>4, <2>5 DEF Heeds
<1>11. WritingIsStored(y, d)
  BY <1>3 DEF WritingIsStored
<1>12. Recent(y, as, db', panel.want)
  BY <1>8, <1>9 DEF Recent
<1>13. env'.restarted = env.restarted
  OBVIOUS
<1> QED BY <1>3, <1>4, <1>6, <1>10, <1>11, <1>12, <1>13, ShownFits DEF Kept

LEMMA DetailStoredKeeps ==
  ASSUME IInv, DetailStored
  PROVE  IInv'
<1> DEFINE x == [w EXCEPT !.cache = NoCache, !.cacheGen = w.cacheGen + 1, !.pending = w.pending + 1]
<1>1. Facts
  BY FactsHold
<1>2. /\ Shown(x, apps) \/ notifyReplayDetailsStored(x, db.details + 1)
      /\ db' = [db EXCEPT !.details = db.details + 1] /\ UNCHANGED <<game, link, env>>
  BY <1>1 DEF DetailStored, Facts, Workers, Databases
<1>3. db.details \in Nat /\ db.details + 1 \in Nat /\ w.cacheGen \in Nat /\ w.pending \in Nat
  BY <1>1 DEF Facts, Databases, Workers
<1>4. /\ db' \in Databases /\ db'.hands = db.hands /\ db'.details = db.details + 1
  BY <1>1, <1>2, <1>3 DEF Facts, Databases
<1>5. NoCache \in [hit : BOOLEAN, data : Datas] /\ ~NoCache.hit
  BY DEF NoCache, NoData, Datas
<1>6. /\ x \in Workers /\ x.completed = w.completed /\ x.handEpoch = w.handEpoch
      /\ x.replayEpoch = w.replayEpoch /\ x.fetches = w.fetches /\ x.writing = w.writing
      /\ ~x.cache.hit /\ x.cacheGen = w.cacheGen + 1
  <2>1. w \in Workers /\ w.cacheGen + 1 \in Nat /\ w.pending + 1 \in Nat
    BY <1>1, <1>3 DEF Facts
  <2> QED BY <1>5, <2>1 DEF Workers
<1> HIDE DEF x
<1>7. ToldIsStored(w, apps, db')
  <2>1. \A t \in Tabs : apps[t].details \in Nat /\ apps[t].details <= db.details
    BY <1>1 DEF Facts, Apps, Recent, ToldIsStored
  <2>2. \A t \in Tabs : apps[t].details <= db'.details
    BY <1>3, <1>4, <2>1
  <2> QED BY <1>1, <1>4, <2>2 DEF Facts, Recent, ToldIsStored
<1>8. CacheIsCurrent(x, apps, db')
  BY <1>6 DEF CacheIsCurrent
<1>9. FetchIsCurrent(x, apps, panel.want)
  <2>1. ASSUME NEW f \in w.fetches
        PROVE  f.id <= panel.want /\ (f.pc # "asked" => f.gen <= x.cacheGen /\ f.gen # x.cacheGen)
    <3>1. f.id <= panel.want /\ (f.pc # "asked" => f.gen <= w.cacheGen) /\ f.gen \in Nat
      BY <1>1 DEF Facts, Recent, FetchIsCurrent, Workers, Fetches
    <3> QED BY <1>3, <1>6, <3>1
  <2> QED BY <1>6, <2>1 DEF FetchIsCurrent
<1>10. WritingIsStored(w, db') /\ WritingIsStored(x, db')
  BY <1>1, <1>4, <1>6 DEF Facts, WritingIsStored
<1>11. Kept
  <2>1. CASE notifyReplayDetailsStored(x, db.details + 1)
    <3>1. db.details + 1 <= db'.details
      BY <1>3, <1>4
    <3> DEFINE d == db'
               n == db.details + 1
    <3>2. /\ ToldIsStored(w, apps, d) /\ CacheIsCurrent(x, apps, d) /\ WritingIsStored(w, d)
          /\ db' = d /\ n <= d.details /\ n \in Nat /\ notifyReplayDetailsStored(x, n) /\ env' = env
      BY <1>2, <1>3, <1>7, <1>8, <1>10, <2>1, <3>1
    <3> HIDE DEF d, n
    <3> QED BY <1>6, <1>9, <3>2, DetailsTold
  <2>2. CASE Shown(x, apps)
    <3>1. Recent(x, apps, db', panel.want)
      <4>1. ToldIsStored(x, apps, db')
        BY <1>6, <1>7 DEF ToldIsStored
      <4> QED BY <1>8, <1>9, <4>1 DEF Recent
    <3>2. ASSUME panel.tab # 0, ~env.restarted PROVE Heeds(x, apps, panel)
      <4>1. PanelHolds(w, apps, panel)
        BY <1>1, <3>2 DEF Facts, PanelFollows
      <4>2. \A hands : Awaited(hands, x, apps, panel) <=> Awaited(hands, w, apps, panel)
        BY <1>6 DEF Awaited
      <4>3. PanelHolds(x, apps, panel)
        BY <1>6, <4>1, <4>2 DEF PanelHolds
      <4> QED BY <4>3 DEF Heeds, PanelHolds
    <3> QED BY <1>1, <1>2, <1>6, <1>10, <2>2, <3>1, <3>2, ShownFits DEF Kept, Facts
  <2> QED BY <1>2, <2>1, <2>2
<1> QED BY <1>1, <1>2, <1>4, <1>11, KeepsHolds DEF Others, Facts, GamePlaces

LEMMA FlushDetailsKeeps ==
  ASSUME IInv, FlushDetails
  PROVE  IInv'
<1>1. Facts
  BY FactsHold
<1>2. notifyReplayDetailsStored(w, db.details) /\ UNCHANGED <<game, link, db, env>>
  BY DEF FlushDetails
<1>3. db.details \in Nat /\ db.details <= db.details
  BY <1>1 DEF Facts, Databases
<1>4. Kept
  BY <1>1, <1>2, <1>3, DetailsTold DEF Facts, Recent
<1> QED BY <1>1, <1>2, <1>4, KeepsHolds DEF Others, Facts, GamePlaces

-----------------------------------------------------------------------------
(* The theorems.                                                           *)

LEMMA InitInvariant == Init => IInv
<1> SUFFICES ASSUME Init PROVE IInv
  OBVIOUS
<1>1. NoData \in Datas
  BY DEF NoData, Datas
<1>2. /\ NewWorker \in Workers
      /\ NewWorker.writing = <<>> /\ NewWorker.completed = {} /\ NewWorker.fetches = {}
      /\ ~NewWorker.cache.hit /\ NewWorker.handEpoch = 0 /\ NewWorker.replayEpoch = 0
  BY NewWorkerIsTyped, Basics
<1>3. LoadedPage \in Apps /\ LoadedPage.completed = {} /\ LoadedPage.details = 0
  BY Basics DEF LoadedPage, NewApp
<1>4. game \in Games /\ GamePlaces
  BY HudAssumption, Basics DEF Init, Games, GamePlaces
<1>5. link \in Links
  BY DEF Init, Links
<1>6. db \in Databases /\ db.details = 0
  BY Basics DEF Init, Databases
<1>7. panel \in Panels /\ panel.tab = 0
  BY <1>1 DEF Init, NoPanel, Panels
<1>8. env \in Envs
  BY DEF Init, Envs
<1>9. w \in Workers /\ w = NewWorker /\ apps \in [Tabs -> Apps] /\ \A t \in Tabs : apps[t] = LoadedPage
  BY <1>2, <1>3 DEF Init
<1>10. WritingIsStored(w, db)
  BY <1>2, <1>9 DEF WritingIsStored
<1>11. Recent(w, apps, db, panel.want)
  BY <1>2, <1>3, <1>6, <1>9 DEF Recent, ToldIsStored, CacheIsCurrent, FetchIsCurrent
<1> QED BY <1>4, <1>5, <1>6, <1>7, <1>8, <1>9, <1>10, <1>11 DEF IInv, TypeOK, PanelInv, PanelFollows

LEMMA NextInvariant == IInv /\ [Next]_vars => IInv'
<1> SUFFICES ASSUME IInv, [Next]_vars PROVE IInv'
  OBVIOUS
<1>1. CASE UNCHANGED vars
  <2>1. Facts
    BY FactsHold
  <2>2. Kept
    BY <1>1, <2>1, KeepsHolds, WorkerKept DEF Facts, vars
  <2> QED BY <1>1, <2>1, <2>2, KeepsHolds DEF Others, Facts, GamePlaces, vars
<1>2. CASE Next
  BY <1>2, SessionStartKeeps, DealKeeps, HandResultKeeps, SessionEndKeeps, HandsCountedKeeps,
     ReadEntityStreamKeeps, recalculateStatsKeeps, FilterChangesKeeps, HandCommittedKeeps,
     HandPublishedKeeps, BatchStartsKeeps, BatchEndsKeeps, DisconnectKeeps, ReconnectKeeps,
     StopKeeps, ReloadKeeps, MountKeeps, PreGameAnsweredKeeps, SnapshotSavedKeeps,
     SnapshotLoadedKeeps, OpenPanelKeeps, FetchStartsKeeps, FetchReadsHandsKeeps,
     FetchEndsKeeps, DetailStoredKeeps, FlushDetailsKeeps DEF Next
<1> QED BY <1>1, <1>2

\* The invariant: types, what has been told is stored, and what the cache, the fetches and
\* the panel hold (recent-hands-service.ts, RecentHandsPanel.tsx).
THEOREM Inductive == Spec => []IInv
BY InitInvariant, NextInvariant, PTL DEF Spec

\* The game, the ports, the worker, App and the panel stay of their types.
THEOREM TypeCorrect == Spec => []TypeOK
<1>1. IInv => TypeOK
  BY DEF IInv
<1> QED BY <1>1, Inductive, PTL

\* A panel that is ready holds every hand and every replay detail its page has been told
\* of, whatever ports drop, however the fetches, the commits and the notices interleave
\* and however often the cache is refilled.
THEOREM PanelIsCurrent == Spec => []PanelHoldsWhatWasAnnounced
<1>1. IInv => PanelHoldsWhatWasAnnounced
  BY DEF IInv, PanelInv, PanelFollows, PanelHolds, Awaited, PanelHoldsWhatWasAnnounced
<1> QED BY <1>1, Inductive, PTL
=============================================================================
