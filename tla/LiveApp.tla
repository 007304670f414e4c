------------------------------ MODULE LiveApp ------------------------------
(***************************************************************************)
(* The HUD of one game tab as a value: what App.tsx holds and how a message *)
(* changes it.  Seats are counted from the hero's, as they are displayed;   *)
(* Nobody is playerId -1.  A message carries rows in the order they were    *)
(* computed, and the deal that tells the hero's seat.                       *)
(***************************************************************************)
EXTENDS Naturals, Sequences, FiniteSets

CONSTANTS
  N,       \* seats of a table
  Table    \* session -> [hero |-> the hero's seat index, players |-> who sits in each seat]

Nobody == 0
Hero == 1
Places == 1..N
EMPTY_SEATS == [k \in Places |-> Nobody]
NoDeal == [id |-> 0, session |-> 0, out |-> {}, seated |-> FALSE]

\* EVT_DEAL: SeatUserIds, with the seats that are empty in this hand.
SeatUserIds(deal) ==
  [i \in Places |-> IF i \in deal.out THEN Nobody ELSE Table[deal.session].players[i]]
isExist(p) == p # Nobody
rotateArrayFromIndex(rows, index) ==
  IF index >= Len(rows) THEN rows
  ELSE SubSeq(rows, index + 1, Len(rows)) \o SubSeq(rows, 1, index)

\* A fresh mount; pre is the pre-game request of this page, saving what waits for the
\* debounce; source .. torn are history (the rows shown, what went wrong with them), and
\* so are the hands and replay details this page has been told of.
NewApp ==
  [mounted |-> FALSE, pre |-> "asked", loading |-> TRUE, awaiting |-> FALSE, boundary |-> 0,
   seats |-> EMPTY_SEATS, dim |-> EMPTY_SEATS, restored |-> EMPTY_SEATS, applied |-> FALSE,
   saving |-> EMPTY_SEATS, handEpoch |-> 0, replayEpoch |-> 0,
   source |-> NoDeal, newest |-> 0, heard |-> 0, torn |-> FALSE, live |-> FALSE,
   remembered |-> EMPTY_SEATS, completed |-> {}, details |-> 0]

withRestoredSeats(a, base) ==
  [k \in Places |->
     IF k # Hero /\ ~isExist(base[k]) /\ isExist(a.restored[k]) THEN a.restored[k] ELSE base[k]]
discardRestoredLineup(a) == [a EXCEPT !.restored = EMPTY_SEATS]
discardRetainedLineup(a) ==
  [discardRestoredLineup(a) EXCEPT !.dim = EMPTY_SEATS, !.seats = EMPTY_SEATS, !.torn = FALSE]

\* Opponents only, and nothing is saved without one.
buildLastTableSnapshot(seats) == [seats EXCEPT ![Hero] = Nobody]
scheduleLastTableSnapshotSave(a) ==
  LET snapshot == buildLastTableSnapshot(a.seats)
  IN IF snapshot = EMPTY_SEATS THEN a ELSE [a EXCEPT !.saving = snapshot]

\* A bust opponent stays on display until the seat is taken or the table has changed.
isTableChange(dim, mapped) ==
  LET both == {k \in Places \ {Hero} : isExist(dim[k]) /\ isExist(mapped[k])}
  IN /\ Cardinality({k \in both : dim[k] # mapped[k]}) >= 2
     /\ \A k \in both : dim[k] # mapped[k]
dimmed(a, mapped) ==
  LET cache == IF isTableChange(a.dim, mapped) THEN EMPTY_SEATS ELSE a.dim
      shown == [k \in Places |-> IF isExist(mapped[k]) THEN mapped[k] ELSE cache[k]]
  IN [a EXCEPT !.dim = shown, !.seats = shown]

isTrustedSeatedDeal(m) == m.deal.seated
isSpectatorDeal(m) == m.deal # NoDeal /\ ~m.deal.seated
\* Late statistics of the session that has ended may not touch the lineup once the new
\* session is known.
isBehindBoundaryNever(a, m) == FALSE  \* mutant
isBehindBoundary(a, m) ==
  /\ a.awaiting /\ a.boundary # 0
  /\ ~isTrustedSeatedDeal(m) \/ m.deal.session < a.boundary

\* Rows of another session than the deal they are sent with, rows without their empty
\* seats, a recalculation that overtakes the queue across a boundary, and rows of a session
\* whose start this page did not hear of.
Torn(a, m) ==
  \/ m.packed \/ m.of.session # m.deal.session
  \/ m.outOfTurn /\ (a.awaiting \/ m.deal.session < a.newest)
  \/ a.newest # 0 /\ m.deal.session > a.newest /\ m.deal.session # a.heard

Columns(rows) == [k \in Places |-> IF k <= Len(rows) THEN rows[k] ELSE Nobody]
handleStatsMessage(a, m) ==
  IF isBehindBoundary(a, m) THEN a
  ELSE LET first == isTrustedSeatedDeal(m) /\ a.awaiting
           b == IF first
                THEN [discardRetainedLineup(a) EXCEPT !.awaiting = FALSE, !.boundary = 0]
                ELSE a
           rows == IF isTrustedSeatedDeal(m)
                   THEN rotateArrayFromIndex(m.rows, Table[m.deal.session].hero) ELSE m.rows
           c == [discardRestoredLineup(b) EXCEPT
                   !.applied = TRUE, !.handEpoch = m.epoch,
                   !.source = m.of, !.torn = @ \/ Torn(a, m),
                   !.newest = IF m.deal.session > @ THEN m.deal.session ELSE @]
       IN IF isSpectatorDeal(m) THEN b
          ELSE scheduleLastTableSnapshotSave(dimmed(c, Columns(rows)))

\* latestStats reaches App twice: as an event of the content script, whose listener is
\* older, and as the runtime message.
PreGame(hero) ==
  [rows |-> [EMPTY_SEATS EXCEPT ![Hero] = hero], of |-> NoDeal, deal |-> NoDeal, packed |-> FALSE,
   outOfTurn |-> FALSE, epoch |-> 0]
handleChromeMessage(a, rows) ==
  LET seats == withRestoredSeats(a, rows)
  IN [a EXCEPT !.seats = seats, !.dim[Hero] = rows[Hero]]
withoutEpoch(a, b) == [b EXCEPT !.handEpoch = a.handEpoch]
latestStats(a, hero) ==
  IF ~a.mounted THEN [a EXCEPT !.pre = "pending"]
  ELSE LET b == withoutEpoch(a, handleStatsMessage(a, PreGame(hero)))
       IN [handleChromeMessage(b, PreGame(hero).rows) EXCEPT !.pre = "done"]
mountApp(a, hero) ==
  LET b == [a EXCEPT !.mounted = TRUE]
  IN IF a.pre # "pending" THEN b
     ELSE [withoutEpoch(b, handleStatsMessage(b, PreGame(hero))) EXCEPT !.pre = "done"]

handleSessionEnd(a) ==
  IF a.mounted THEN [a EXCEPT !.awaiting = TRUE, !.boundary = 0] ELSE a
handleSessionStart(a, session) ==
  IF a.mounted THEN [a EXCEPT !.awaiting = TRUE, !.boundary = session, !.heard = session] ELSE a

loadLastTableSnapshot(a, snapshot) ==
  LET b == [a EXCEPT !.loading = FALSE, !.remembered = IF a.live THEN EMPTY_SEATS ELSE snapshot]
      r == [b EXCEPT !.restored = snapshot]
  IN IF snapshot = EMPTY_SEATS \/ a.applied THEN b
     ELSE [r EXCEPT !.seats = withRestoredSeats(r, a.seats)]
=============================================================================
