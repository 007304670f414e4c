---------------------------- MODULE HoldemTable ----------------------------
(***************************************************************************)
(* The game server and its wire, as the extension observes them: one hand  *)
(* of no-limit hold'em and the events it sends.  The server is not part of *)
(* the repository; its rules and the shape of its events are taken from    *)
(* the schemas of src/types/api.ts and from what the event handlers rely   *)
(* on.  A play of the hand is cut to what the program can tell apart:      *)
(* bets are the big blind, raises the minimum raise, and every player may  *)
(* go all-in.  The irregularities the handlers guard against are chosen    *)
(* once per hand, as its "quirk":                                          *)
(*   none     a regular hand                                               *)
(*   timeout  players may time out, for which no FOLD is sent              *)
(*   open     a folded player shows the cards when the hand is over        *)
(*   hidden   the last event omits the hero's own final stack              *)
(*   rebuy    chips are added to one stack in mid-hand                     *)
(*   moved    the hero is moved to another table in mid-hand               *)
(*   clock    the client's clock is set back in mid-hand (see HandRecord)  *)
(***************************************************************************)
EXTENDS GameTypes, Sequences, FiniteSets, SequencesExt, FiniteSetsExt

CONSTANTS
  Deals,          \* the deals a hand may start from, records of DealShape
  Quirks,         \* the irregularities a hand may have
  MaxAggressive,  \* bound: bets, raises and all-in raises of one hand
  Showdowns,      \* the strengths of the seats at a showdown, higher wins
  BlindShoves     \* whether a player who faces no bet may go all-in where
                  \* the server does not offer BET (see NextActionTypes)

VARIABLES
  table,   \* the hand as the server plays it
  wire     \* the events sent so far

NoSeat == 0
StreetOver == -1

Least(a, b) == IF a < b THEN a ELSE b
Most(a, b) == IF a < b THEN b ELSE a
Total(f) == FoldFunction(+, 0, f)

Seated(d) == {s \in DOMAIN d.seats : d.seats[s] # NoUser}
AntePaid(d, s) == Least(d.start[s], d.ante)
BlindDue(d, s) == CASE s = d.bbSeat -> d.bb
                    [] s = d.sbSeat -> d.sb
                    [] OTHER -> 0
BlindPaid(d, s) == Least(d.start[s] - AntePaid(d, s), BlindDue(d, s))

In(t) == {s \in DOMAIN t.status : t.status[s] \in {"able", "allin"}}
Able(t) == {s \in DOMAIN t.status : t.status[s] = "able"}

\* The first seat of S at or after seat s, clockwise.
FirstFrom(t, s, S) ==
  LET n == Len(t.deal.seats)
      turn(x) == (x + n - s) % n
  IN CHOOSE x \in S : \A y \in S : turn(x) <= turn(y)

\* A hand is dealt to two players or more, and somebody has a decision to make: to
\* answer the big blind, or to bet against another player who can.
DealShape(d) ==
  LET left(s) == d.start[s] - AntePaid(d, s) - BlindPaid(d, s)
      able == {s \in Seated(d) : left(s) > 0}
  IN /\ d.seats \in Seq(Int) /\ Cardinality(Seated(d)) >= 2
     /\ \A s \in Seated(d) : d.start[s] \in Nat
     /\ {d.ante, d.sb, d.bb, d.btn, d.bbSeat} \subseteq Nat /\ d.sb <= d.bb /\ d.bb > 0
     /\ \E s \in able : BlindPaid(d, s) < d.bb \/ able \ {s} # {}
ASSUME DealsAssumption == \A d \in Deals : DealShape(d)

\* The seats that still have a decision to make: those facing a bet, and the
\* others while two players can bet.
Undecided(t) ==
  {s \in t.pending : t.bet[s] < t.high \/ Able(t) \ {s} # {}}

\* What the server offers the seat to act (wire shapes: [0,5,1], [0,5],
\* [0,4,5], [2,3,4,5], [2,3,5], [2,3] and [2,5]).
NextActionTypes(t, s) ==
  LET due == t.high - t.bet[s]
      covered == t.chip[s] > due
  IN IF due = 0
     THEN {"CHECK", "ALL_IN"}
            \cup (IF t.phase = PREFLOP THEN {"RAISE"}
                  ELSE IF t.chip[s] > t.deal.bb THEN {"BET"} ELSE {})
     ELSE {"FOLD"}
            \cup (IF covered THEN {"CALL"} ELSE {"ALL_IN"})
            \cup (IF covered /\ Able(t) \ {s} # {}
                  THEN {"ALL_IN"} \cup (IF t.chip[s] > due + t.minRaise
                                        THEN {"RAISE"} ELSE {})
                  ELSE {})

\* The main pot and the side pots: one per stack that is all-in.  What a player
\* who folded put in above the others belongs to the last of them.
PotCaps(t) ==
  {t.paid[s] : s \in {x \in In(t) : t.status[x] = "allin"}} \cup {Max({t.paid[s] : s \in In(t)})}
PotLevels(t) ==
  [k \in 1 .. Cardinality(PotCaps(t)) |->
     CHOOSE x \in PotCaps(t) : Cardinality({y \in PotCaps(t) : y <= x}) = k]
Pots(t) ==
  LET levels == PotLevels(t)
      upto(k) == IF k = 0 THEN 0 ELSE IF k = Len(levels) THEN Total(t.paid)
                 ELSE Total([s \in DOMAIN t.paid |-> Least(t.paid[s], levels[k])])
  IN [k \in DOMAIN levels |-> upto(k) - upto(k - 1)]

Snapshot(t) ==
  [s \in DOMAIN t.status |->
     [Chip |-> t.chip[s], BetChip |-> t.bet[s],
      BetStatus |-> CASE t.status[s] = "able" -> "BET_ABLE"
                      [] t.status[s] = "allin" -> "ALL_IN"
                      [] OTHER -> "FOLDED"]]

Progress(t, phase, next) ==
  [Phase |-> phase, NextActionSeat |-> next,
   NextActionTypes |-> IF next > 0 THEN NextActionTypes(t, next) ELSE {},
   Pot |-> Pots(t)[1], SidePot |-> Tail(Pots(t))]

-----------------------------------------------------------------------------
(* The deal *)

Dealt(d) ==
  LET seats == Seated(d)
      chip == [s \in seats |-> d.start[s] - AntePaid(d, s) - BlindPaid(d, s)]
      t0 == [deal |-> d, phase |-> PREFLOP, chip |-> chip,
             bet |-> [s \in seats |-> BlindPaid(d, s)],
             paid |-> [s \in seats |-> AntePaid(d, s) + BlindPaid(d, s)],
             status |-> [s \in seats |-> IF chip[s] = 0 THEN "allin" ELSE "able"],
             high |-> d.bb, minRaise |-> d.bb, aggressive |-> 0,
             pending |-> {s \in seats : chip[s] > 0}, actor |-> NoSeat,
             added |-> [s \in seats |-> 0], silent |-> FALSE,
             truth |-> <<>>, done |-> FALSE, quirk |-> "none"]
  IN [t0 EXCEPT !.actor = FirstFrom(t0, (d.bbSeat % Len(d.seats)) + 1, Undecided(t0))]

DealEvent(t) ==
  [type |-> "EVT_DEAL", SeatUserIds |-> t.deal.seats,
   Game |-> [Ante |-> t.deal.ante, SmallBlind |-> t.deal.sb, BigBlind |-> t.deal.bb,
             ButtonSeat |-> t.deal.btn, SmallBlindSeat |-> t.deal.sbSeat,
             BigBlindSeat |-> t.deal.bbSeat],
   Hero |-> t.deal.hero, Snapshots |-> Snapshot(t),
   Progress |-> Progress(t, PREFLOP, t.actor)]

EntryQueued(battleType, id) ==
  [type |-> "EVT_ENTRY_QUEUED", BattleType |-> battleType, Id |-> id]

-----------------------------------------------------------------------------
(* The actions of the players *)

Only(t) == Cardinality(In(t)) = 1
StreetDone(t) == Undecided(t) = {}
\* No betting is left: the board runs out.
RunOut(t) == StreetDone(t) /\ (t.phase = RIVER \/ Cardinality(Able(t)) <= 1)
Ended(t) == Only(t) \/ RunOut(t)

Pay(t, s, amount) ==
  [t EXCEPT !.chip[s] = @ - amount, !.bet[s] = @ + amount, !.paid[s] = @ + amount,
            !.status[s] = IF t.chip[s] = amount THEN "allin" ELSE @]

\* The chips seat s puts in for an action of the given type.
Cost(t, s, type) ==
  CASE type \in {"CHECK", "FOLD"} -> 0
    [] type = "CALL" -> t.high - t.bet[s]
    [] type = "BET" -> t.deal.bb
    [] type = "RAISE" -> t.high + t.minRaise - t.bet[s]
    [] type = "ALL_IN" -> t.chip[s]

\* What an all-in amounts to: whoever faces no bet bets, whoever puts in more
\* than the bet raises, and the others call.
Meaning(t, s, type) ==
  IF type # "ALL_IN" THEN type
  ELSE IF t.high = 0 THEN "BET"
  ELSE IF t.bet[s] + t.chip[s] > t.high THEN "RAISE" ELSE "CALL"

Played(t, s, type) ==
  LET paid == Pay(t, s, Cost(t, s, type))
      meaning == Meaning(t, s, type)
      raised == meaning \in {"BET", "RAISE"}
      moved == IF type = "FOLD" THEN [paid EXCEPT !.status[s] = "folded"] ELSE paid
  IN [moved EXCEPT
        !.high = Most(@, paid.bet[s]),
        !.minRaise = IF raised THEN Most(@, paid.bet[s] - t.high) ELSE @,
        !.aggressive = IF raised THEN @ + 1 ELSE @,
        !.pending = IF raised THEN Able(moved) \ {s} ELSE @ \ {s},
        !.truth = Append(@, [playerId |-> t.deal.seats[s], phase |-> t.phase,
                             actionType |-> meaning, before |-> Total(t.paid)])]

\* The seat to act next, if the street goes on.
Passed(t, s) ==
  [t EXCEPT !.actor = IF StreetDone(t) \/ Only(t) THEN NoSeat
                      ELSE FirstFrom(t, (s % Len(t.deal.seats)) + 1, Undecided(t)),
            !.pending = Undecided(t)]

ActionEvent(t, s, type) ==
  [type |-> "EVT_ACTION", SeatIndex |-> s, ActionType |-> type,
   Chip |-> t.chip[s], BetChip |-> t.bet[s],
   Progress |-> IF Ended(t) THEN Progress(t, RIVER, HandEnding)
                ELSE Progress(t, t.phase, IF t.actor = NoSeat THEN StreetOver ELSE t.actor)]

Allowed(t, s, type) ==
  /\ type \in NextActionTypes(t, s)
  /\ type \in {"BET", "RAISE"} => t.chip[s] > Cost(t, s, type)
  /\ Meaning(t, s, type) \in {"BET", "RAISE"} => t.aggressive < MaxAggressive
  /\ type = "ALL_IN" /\ t.high = t.bet[s] /\ ~BlindShoves
       => "BET" \in NextActionTypes(t, s)

Act(type) ==
  LET s == table.actor
      after == Passed(Played(table, s, type), s)
  IN /\ ~table.done /\ s # NoSeat
     /\ Allowed(table, s, type)
     /\ table' = after
     /\ wire' = Append(wire, ActionEvent(after, s, type))

\* The player to act does not answer in time: the hand goes on without an event.
TimeOut ==
  LET s == table.actor
      gone == [table EXCEPT !.status[s] = "folded", !.pending = @ \ {s}, !.silent = TRUE]
  IN /\ ~table.done /\ s # NoSeat
     /\ table.quirk = "timeout" /\ ~table.silent
     /\ table' = Passed(gone, s)
     /\ UNCHANGED wire

-----------------------------------------------------------------------------
(* The next street *)

CardsOf(phase) == CASE phase = FLOP -> <<1, 2, 3>> [] phase = TURN -> <<4>>
                    [] phase = RIVER -> <<5>> [] OTHER -> <<>>
Board(phase) == IF phase = PREFLOP THEN <<>> ELSE [c \in 1 .. 2 + phase |-> c]

DealRoundEvent(t) ==
  [type |-> "EVT_DEAL_ROUND", CommunityCards |-> CardsOf(t.phase),
   Hero |-> t.deal.hero, Snapshots |-> Snapshot(t),
   Progress |-> Progress(t, t.phase, t.actor)]

NextStreet(t) ==
  LET u == [t EXCEPT !.phase = @ + 1, !.bet = [s \in DOMAIN @ |-> 0], !.high = 0,
                     !.minRaise = t.deal.bb, !.pending = Able(t)]
  IN [u EXCEPT !.actor = FirstFrom(u, (t.deal.btn % Len(t.deal.seats)) + 1, Able(t))]

DealRound ==
  LET next == NextStreet(table)
  IN /\ ~table.done /\ table.actor = NoSeat /\ ~Ended(table)
     /\ table' = next
     /\ wire' = Append(wire, DealRoundEvent(next))

\* A ring player tops up in mid-hand; later snapshots of the seat show it.
TopUp ==
  /\ table.quirk = "rebuy" /\ ~table.done
  /\ Total(table.added) = 0
  /\ table.deal.battleType = "RING_GAME"
  /\ \E s \in DOMAIN table.chip :
       /\ table.status[s] # "allin"
       /\ table' = [table EXCEPT !.chip[s] = @ + 1, !.added[s] = 1]
  /\ UNCHANGED wire

-----------------------------------------------------------------------------
(* The result *)

Rake(t) == IF t.deal.battleType = "RING_GAME" /\ t.phase >= FLOP THEN 1 ELSE 0
FinalPots(t) == [Pots(t) EXCEPT ![1] = @ - Rake(t)]

\* The winners of each pot, given the strength of every seat.
PotWinners(t, strength) ==
  LET levels == PotLevels(t)
      eligible(k) == {s \in In(t) : t.paid[s] >= levels[k]}
  IN [k \in DOMAIN levels |->
        {s \in eligible(k) : \A o \in eligible(k) : strength[o] <= strength[s]}]

\* An indivisible chip goes to the first winner.
Share(pot, winners, s) ==
  IF s \notin winners THEN 0
  ELSE pot \div Cardinality(winners)
         + (IF s = Min(winners) THEN pot % Cardinality(winners) ELSE 0)

Reward(t, winners, s) ==
  Total([k \in DOMAIN winners |-> Share(FinalPots(t)[k], winners[k], s)])

\* Results[]: the players who did not fold, pot by pot, and the folded player
\* who shows the cards.  Who wins no pot has no rank.
ResultRows(t, winners, opener) ==
  LET first(s) == CHOOSE k \in DOMAIN winners :
                    s \in winners[k] /\ \A j \in 1 .. k - 1 : s \notin winners[j]
      wins == UNION Range(winners)
      order(s) == IF s \in wins THEN first(s) ELSE Len(winners) + 1
      row(s) == [UserId |-> t.deal.seats[s],
                 HandRanking |-> IF s \in wins THEN first(s) ELSE -1,
                 RankType |-> IF Only(t) THEN "NO_CALL"
                              ELSE IF s \in wins THEN "HAND" ELSE "SHOWDOWN_MUCK",
                 HoleCards |-> ~Only(t) /\ s \in wins, RewardChip |-> Reward(t, winners, s)]
      rows == SetToSortSeq(In(t), LAMBDA a, b : order(a) < order(b) \/ (order(a) = order(b) /\ a < b))
  IN [i \in DOMAIN rows |-> row(rows[i])]
       \o [i \in 1 .. Cardinality(opener) |->
             [UserId |-> t.deal.seats[Min(opener)], HandRanking |-> -1,
              RankType |-> "FOLD_OPEN", HoleCards |-> TRUE, RewardChip |-> 0]]

Settled(t, winners) ==
  [t EXCEPT !.chip = [s \in DOMAIN @ |-> t.chip[s] + Reward(t, winners, s)],
            !.bet = [s \in DOMAIN @ |-> 0], !.done = TRUE, !.actor = NoSeat]

\* t: the hand once it is settled.
ResultsEvent(t, winners, opener, hidden) ==
  LET seen == IF hidden THEN DOMAIN t.chip \ {t.deal.hero} ELSE DOMAIN t.chip
  IN [type |-> "EVT_HAND_RESULTS", HandId |-> 1,
      CommunityCards |-> IF Only(t) THEN <<>> ELSE SubSeq(Board(RIVER), Len(Board(t.phase)) + 1, 5),
      Hero |-> IF hidden THEN NoSeat ELSE t.deal.hero,
      Snapshots |-> [s \in seen |-> [Chip |-> t.chip[s], BetChip |-> 0]],
      Pot |-> FinalPots(t)[1], SidePot |-> Tail(FinalPots(t)),
      Results |-> ResultRows(t, winners, opener)]

Finish ==
  /\ ~table.done /\ Ended(table)
  /\ \E strength \in (IF Only(table) THEN {CHOOSE f \in Showdowns : TRUE} ELSE Showdowns) :
     \E opener \in {{}} \cup (IF table.quirk = "open"
                              THEN {{s} : s \in {x \in DOMAIN table.status : table.status[x] = "folded"}}
                              ELSE {}) :
     \E winners \in {PotWinners(table, strength)} :
       /\ table' = Settled(table, winners)
       /\ wire' = Append(wire, ResultsEvent(table', winners, opener, table.quirk = "hidden"))

-----------------------------------------------------------------------------
(* A move to another table in mid-hand: the events of the hand that is      *)
(* being played there follow, up to its result.                             *)

ForeignAction(s) ==
  [type |-> "EVT_ACTION", SeatIndex |-> s, ActionType |-> "CALL", Chip |-> 5, BetChip |-> 2,
   Progress |-> [Phase |-> FLOP, NextActionSeat |-> StreetOver, NextActionTypes |-> {},
                 Pot |-> 9, SidePot |-> <<>>]]
ForeignRound(t) ==
  [type |-> "EVT_DEAL_ROUND", CommunityCards |-> <<7>>, Hero |-> NoSeat,
   Snapshots |-> [s \in DOMAIN t.chip |-> [Chip |-> 5, BetChip |-> 0, BetStatus |-> "BET_ABLE"]],
   Progress |-> [Phase |-> TURN, NextActionSeat |-> Min(DOMAIN t.chip),
                 NextActionTypes |-> {"CHECK", "ALL_IN", "BET"}, Pot |-> 9, SidePot |-> <<>>]]
\* The players of that table are others, or (the tables were merged) the same.
ForeignResults(t, winner) ==
  [type |-> "EVT_HAND_RESULTS", HandId |-> 2, CommunityCards |-> <<>>, Hero |-> NoSeat,
   Snapshots |-> [s \in DOMAIN t.chip |-> [Chip |-> 5, BetChip |-> 0]],
   Pot |-> 9, SidePot |-> <<>>,
   Results |-> <<[UserId |-> winner, HandRanking |-> 1, RankType |-> "NO_CALL", HoleCards |-> FALSE,
                 RewardChip |-> 9]>>]

OtherUser == 99

Move ==
  /\ table.quirk = "moved" /\ ~table.done /\ ~Ended(table)
  /\ table' = [table EXCEPT !.done = TRUE, !.actor = NoSeat]
  /\ \E s \in DOMAIN table.deal.seats \cup {Len(table.deal.seats) + 1} :
     \E tail \in {<<ForeignAction(s)>>,
                  <<ForeignAction(s), ForeignRound(table)>>,
                  <<ForeignRound(table), ForeignAction(s), ForeignRound(table)>>} :
     \E winner \in {OtherUser} \cup (IF Len(tail) = 3
                                     THEN {table.deal.seats[x] : x \in Seated(table.deal)} ELSE {}) :
       wire' = wire \o <<EntryQueued(table.deal.battleType, "other")>>
                    \o tail \o <<ForeignResults(table, winner)>>

-----------------------------------------------------------------------------

TableInit ==
  \E d \in Deals, q \in Quirks :
    LET t == [Dealt(d) EXCEPT !.quirk = q]
    IN /\ q = "rebuy" => d.battleType = "RING_GAME"
       /\ q = "hidden" => d.hero # NoSeat
       /\ table = t
       /\ wire = <<EntryQueued(d.battleType, "own"), DealEvent(t)>>

Play ==
  \/ \E type \in {"CHECK", "BET", "FOLD", "CALL", "RAISE", "ALL_IN"} : Act(type)
  \/ TimeOut
  \/ DealRound
  \/ TopUp
  \/ Finish
  \/ Move

TableSpec == TableInit /\ [][Play]_<<table, wire>>

-----------------------------------------------------------------------------
(* What the table knows of a player once the hand is over *)

Players == {table.deal.seats[s] : s \in Seated(table.deal)}
SeatOf(u) == CHOOSE s \in Seated(table.deal) : table.deal.seats[s] = u
Won(s) == table.chip[s] + table.paid[s] - table.deal.start[s] - table.added[s]
Unmatched(s) == Most(0, table.paid[s] - Max({table.paid[o] : o \in DOMAIN table.paid \ {s}}))
=============================================================================
