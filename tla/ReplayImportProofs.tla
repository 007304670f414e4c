------------------------- MODULE ReplayImportProofs -------------------------
(***************************************************************************)
(* Theorems about ReplayImport for any number of sessions, hands and        *)
(* faults, every queue limit and every combination of faults.               *)
(***************************************************************************)
EXTENDS ReplayImport, FiniteSetTheorems, SequenceTheorems, TLAPS

-----------------------------------------------------------------------------
(* Sequences.                                                              *)

LEMMA ConcatSet ==
  ASSUME NEW S, NEW s \in Seq(S), NEW t \in Seq(S)
  PROVE  s \o t \in Seq(S) /\ ToSet(s \o t) = ToSet(s) \cup ToSet(t)
<1>1. /\ s \o t \in Seq(S) /\ Len(s \o t) = Len(s) + Len(t)
      /\ \A i \in 1..(Len(s) + Len(t)) : (s \o t)[i] = IF i <= Len(s) THEN s[i] ELSE t[i - Len(s)]
      /\ Len(s) \in Nat /\ Len(t) \in Nat
  BY ConcatProperties
<1>2. DOMAIN (s \o t) = 1..(Len(s) + Len(t)) /\ DOMAIN s = 1..Len(s) /\ DOMAIN t = 1..Len(t)
  BY <1>1
<1>3. ASSUME NEW i \in DOMAIN s PROVE i \in DOMAIN (s \o t) /\ (s \o t)[i] = s[i]
  BY <1>1, <1>2
<1>4. ASSUME NEW i \in DOMAIN t
      PROVE  i + Len(s) \in DOMAIN (s \o t) /\ (s \o t)[i + Len(s)] = t[i]
  BY <1>1, <1>2
<1>5. ASSUME NEW i \in DOMAIN (s \o t)
      PROVE  \/ i \in DOMAIN s /\ (s \o t)[i] = s[i]
             \/ i - Len(s) \in DOMAIN t /\ (s \o t)[i] = t[i - Len(s)]
  BY <1>1, <1>2
<1>6. ToSet(s) \cup ToSet(t) \subseteq ToSet(s \o t)
  BY <1>3, <1>4 DEF ToSet
<1>7. ToSet(s \o t) \subseteq ToSet(s) \cup ToSet(t)
  BY <1>5 DEF ToSet
<1> QED BY <1>1, <1>6, <1>7

LEMMA AppendSet ==
  ASSUME NEW S, NEW s \in Seq(S), NEW e \in S
  PROVE  Append(s, e) \in Seq(S) /\ ToSet(Append(s, e)) = ToSet(s) \cup {e}
<1>1. Append(s, e) = s \o <<e>> /\ <<e>> \in Seq(S)
  BY AppendIsConcat
<1>2. ToSet(<<e>>) = {e}
  BY DEF ToSet
<1>3. ToSet(s \o <<e>>) = ToSet(s) \cup ToSet(<<e>>)
  BY <1>1, ConcatSet
<1>4. Append(s, e) \in Seq(S)
  OBVIOUS
<1> QED BY <1>1, <1>2, <1>3, <1>4

LEMMA TailSet ==
  ASSUME NEW S, NEW s \in Seq(S), s # <<>>
  PROVE  /\ Head(s) \in S /\ Tail(s) \in Seq(S) /\ Head(s) \in ToSet(s)
         /\ ToSet(s) = {Head(s)} \cup ToSet(Tail(s))
         /\ Len(s) \in Nat \ {0} /\ Head(s) = s[1] /\ DOMAIN s = 1..Len(s)
         /\ DOMAIN Tail(s) = 1..(Len(s) - 1) /\ \A i \in DOMAIN Tail(s) : Tail(s)[i] = s[i + 1]
<1>1. /\ Head(s) \in S /\ Tail(s) \in Seq(S) /\ Len(s) \in Nat \ {0} /\ Head(s) = s[1]
      /\ DOMAIN s = 1..Len(s) /\ DOMAIN Tail(s) = 1..(Len(s) - 1)
      /\ \A i \in DOMAIN Tail(s) : Tail(s)[i] = s[i + 1]
  OBVIOUS
<1>2. \A i \in DOMAIN s : i = 1 \/ (i - 1 \in DOMAIN Tail(s) /\ s[i] = Tail(s)[i - 1])
  BY <1>1
<1>3. \A i \in DOMAIN Tail(s) : i + 1 \in DOMAIN s
  BY <1>1
<1>4. 1 \in DOMAIN s
  BY <1>1
<1> DEFINE t == Tail(s)
<1>5. ToSet(t) \subseteq ToSet(s) /\ Head(s) \in ToSet(s)
  BY <1>1, <1>3, <1>4 DEF ToSet
<1> HIDE DEF t
<1>6. ASSUME NEW i \in DOMAIN s PROVE s[i] = Head(s) \/ s[i] \in ToSet(t)
  BY <1>1, <1>2 DEF ToSet, t
<1>7. ToSet(s) \subseteq {Head(s)} \cup ToSet(t)
  BY <1>6 DEF ToSet
<1> QED BY <1>1, <1>5, <1>7 DEF t

LEMMA SetOfSeq ==
  ASSUME NEW S, NEW s \in Seq(S)
  PROVE  ToSet(s) \subseteq S /\ IsFiniteSet(ToSet(s)) /\ (ToSet(s) = {} <=> s = <<>>)
<1>1. DOMAIN s = 1..Len(s) /\ Len(s) \in Nat /\ \A i \in DOMAIN s : s[i] \in S
  OBVIOUS
<1>2. s \in Surjection(1..Len(s), ToSet(s))
  BY <1>1 DEF ToSet, Surjection
<1>3. IsFiniteSet(ToSet(s))
  BY <1>1, <1>2, FS_Interval, FS_Surjection
<1>4. ToSet(s) = {} <=> s = <<>>
  <2>1. ASSUME s # <<>> PROVE ToSet(s) # {}
    <3>1. 1 \in DOMAIN s
      BY <1>1, <2>1, EmptySeq
    <3> QED BY <3>1 DEF ToSet
  <2>2. ASSUME s = <<>> PROVE ToSet(s) = {}
    BY <2>2 DEF ToSet
  <2> QED BY <2>1, <2>2
<1> QED BY <1>1, <1>3, <1>4 DEF ToSet

-----------------------------------------------------------------------------
(* A queue without some hands.  The recursive function of Without is the    *)
(* one function that fits its equation, and what it returns is shown for    *)
(* the least index that could be wrong.                                     *)

Fits(kept, n, queue, hands) ==
  kept = [i \in 0..n |->
           IF i = 0 THEN <<>>
           ELSE IF queue[i] \in hands THEN kept[i - 1] ELSE Append(kept[i - 1], queue[i])]
Kept(queue, hands) == CHOOSE kept : Fits(kept, Len(queue), queue, hands)

LEMMA WithoutIsKept ==
  ASSUME NEW queue, NEW hands
  PROVE  Without(queue, hands) = Kept(queue, hands)[Len(queue)]
BY DEF Without, Kept, Fits

LEMMA FitsAt ==
  ASSUME NEW kept, NEW n, NEW queue, NEW hands, Fits(kept, n, queue, hands), NEW i \in 0..n
  PROVE  kept[i] = IF i = 0 THEN <<>>
                   ELSE IF queue[i] \in hands THEN kept[i - 1] ELSE Append(kept[i - 1], queue[i])
<1> DEFINE next(j) == IF j = 0 THEN <<>>
                      ELSE IF queue[j] \in hands THEN kept[j - 1] ELSE Append(kept[j - 1], queue[j])
<1>1. kept = [j \in 0..n |-> next(j)]
  BY Zenon DEF Fits
<1> HIDE DEF next
<1>2. kept[i] = next(i)
  BY <1>1
<1> QED BY <1>2 DEF next

LEMMA LeastOf ==
  ASSUME NEW T \in SUBSET Nat, T # {}
  PROVE  \E t \in T : \A u \in T : t <= u
<1>1. PICK t \in T : \A u \in T : ~(<<u, t>> \in OpToRel(<, Nat))
  BY NatLessThanWellFounded, WFMin
<1>2. \A u \in T : ~(u < t)
  BY <1>1, Zenon DEF OpToRel
<1> QED BY <1>2

LEMMA KeptExists ==
  ASSUME NEW queue, NEW hands, NEW n \in Nat
  PROVE  \E kept : Fits(kept, n, queue, hands)
<1> DEFINE Bad == {m \in Nat : ~ \E kept : Fits(kept, m, queue, hands)}
<1> SUFFICES ASSUME Bad # {} PROVE FALSE
  OBVIOUS
<1>1. PICK m \in Bad : \A k \in Bad : m <= k
  BY LeastOf, Bad \in SUBSET Nat
<1>2. CASE m = 0
  <2> DEFINE kept == [i \in 0..0 |-> <<>>]
  <2>1. Fits(kept, 0, queue, hands)
    BY DEF Fits
  <2> QED BY <1>1, <1>2, <2>1
<1>3. CASE m # 0
  <2>1. m \in Nat /\ m - 1 \in Nat /\ m - 1 \notin Bad
    BY <1>1, <1>3
  <2>2. PICK prev : Fits(prev, m - 1, queue, hands)
    BY <2>1
  <2> DEFINE kept == [i \in 0..m |->
                       IF i = 0 THEN <<>>
                       ELSE IF queue[i] \in hands THEN prev[i - 1] ELSE Append(prev[i - 1], queue[i])]
  <2>3. ASSUME NEW i \in 0..(m - 1) PROVE kept[i] = prev[i]
    BY <2>1, <2>2, FitsAt, i \in 0..m
  <2>4. Fits(kept, m, queue, hands)
    <3>1. ASSUME NEW i \in 0..m, i # 0 PROVE prev[i - 1] = kept[i - 1]
      <4>1. i - 1 \in 0..(m - 1)
        BY <2>1, <3>1
      <4> QED BY <2>3, <4>1
    <3> QED BY <3>1 DEF Fits
  <2> QED BY <1>1, <2>4
<1> QED BY <1>2, <1>3

LEMMA WithoutProperties ==
  ASSUME NEW S, NEW queue \in Seq(S), NEW hands
  PROVE  /\ Without(queue, hands) \in Seq(S)
         /\ ToSet(Without(queue, hands)) = ToSet(queue) \ hands
<1> DEFINE kept == Kept(queue, hands)
           Upto(i) == {queue[j] : j \in 1..i} \ hands
           Bad == {j \in 0..Len(queue) : ~(kept[j] \in Seq(S) /\ ToSet(kept[j]) = Upto(j))}
<1>1. Len(queue) \in Nat /\ \A i \in 1..Len(queue) : queue[i] \in S
  OBVIOUS
<1>2. Fits(kept, Len(queue), queue, hands)
  BY <1>1, KeptExists DEF Kept
<1> HIDE DEF kept
<1>3. Bad = {}
  <2> SUFFICES ASSUME Bad # {} PROVE FALSE
    OBVIOUS
  <2>1. PICK i \in Bad : \A k \in Bad : i <= k
    BY <1>1, LeastOf, Bad \in SUBSET Nat
  <2>2. CASE i = 0
    <3>1. kept[0] = <<>>
      BY <1>1, <1>2 DEF Fits
    <3>2. ToSet(<<>>) = {} /\ Upto(0) = {} /\ <<>> \in Seq(S)
      BY DEF ToSet
    <3> QED BY <2>1, <2>2, <3>1, <3>2
  <2>3. CASE i # 0
    <3>1. i \in 1..Len(queue) /\ i - 1 \in 0..Len(queue) /\ i - 1 \notin Bad
      <4>1. i \in 0..Len(queue) /\ i \in Nat
        BY <1>1, <2>1
      <4>2. i - 1 < i /\ i - 1 \in Nat
        BY <2>3, <4>1
      <4>3. ~(i <= i - 1)
        BY <4>2, <4>1
      <4>4. i - 1 \notin Bad
        BY <2>1, <4>3
      <4>5. i \in 1..Len(queue) /\ i - 1 \in 0..Len(queue)
        BY <1>1, <2>3, <4>1
      <4> QED BY <4>4, <4>5
    <3>2. kept[i - 1] \in Seq(S) /\ ToSet(kept[i - 1]) = Upto(i - 1)
      BY <3>1
    <3>3. kept[i] = IF queue[i] \in hands THEN kept[i - 1] ELSE Append(kept[i - 1], queue[i])
      BY <1>2, <2>3, <3>1, FitsAt, i \in 0..Len(queue)
    <3>4. Upto(i) = Upto(i - 1) \cup ({queue[i]} \ hands)
      <4>1. \A j \in 1..i : j = i \/ j \in 1..(i - 1)
        BY <3>1
      <4>2. 1..(i - 1) \subseteq 1..i /\ i \in 1..i
        BY <3>1
      <4> QED BY <4>1, <4>2
    <3>5. queue[i] \in S
      BY <1>1, <3>1
    <3>6. queue[i] \notin hands => /\ Append(kept[i - 1], queue[i]) \in Seq(S)
                                   /\ ToSet(Append(kept[i - 1], queue[i])) = Upto(i - 1) \cup {queue[i]}
      BY <3>2, <3>5, AppendSet
    <3>7. kept[i] \in Seq(S) /\ ToSet(kept[i]) = Upto(i)
      BY <3>2, <3>3, <3>4, <3>6
    <3> QED BY <2>1, <3>7
  <2> QED BY <2>2, <2>3
<1>4. kept[Len(queue)] \in Seq(S) /\ ToSet(kept[Len(queue)]) = Upto(Len(queue))
  BY <1>1, <1>3, Len(queue) \in 0..Len(queue)
<1>5. ToSet(queue) = {queue[j] : j \in 1..Len(queue)}
  BY DEF ToSet
<1> QED BY <1>4, <1>5, WithoutIsKept DEF kept

-----------------------------------------------------------------------------
(* Types.                                                                  *)

Activities == {"unknown", "active", "inactive"}
Outcomes == {"ok", "gone", "retry", "expired", "empty", "in-session", "error", "no-auth"}
Requests == [kind : {"verify", "detail"}, id : Nat, epoch : Nat, hand : Nat, stale : BOOLEAN]
Sent == [live : {TRUE}, req : Requests, aborted : BOOLEAN, oldAuth : BOOLEAN]
Pages ==
  [activity : Activities, enabled : BOOLEAN, auth : BOOLEAN, held : Seq(Requests),
   queue : Seq(Requests), epoch : Nat, http : {NoHttp} \cup Sent]
Events == [type : {"start", "hand", "end"}, hand : Nat]
Results == [type : {"result"}, id : Nat, epoch : Nat, hand : Nat, outcome : Outcomes]
Posts == Events \cup Results
Tokens == [place : {"none", "port", "candidate"}, conns : SUBSET Nat, conn : Nat,
           activity : Activities, known : BOOLEAN]
Tasks == [type : {"enqueue"}, hand : Nat]
         \cup [type : {"settle"}, settled : SUBSET Nat, queued : SUBSET Nat]
Pcs == {"idle", "barrier", "access", "verify", "verifying", "verdict", "allowed", "enabled",
        "tail", "pick", "paused", "send", "fetching", "answered", "storing", "settle", "settling"}
Drains ==
  [pc : Pcs, rerun : BOOLEAN, queued : SUBSET Nat, left : Seq(Nat), settled : SUBSET Nat,
   aborted : BOOLEAN, issued : BOOLEAN, wait : Nat, answer : Outcomes \cup {"none"}, target : Nat]
Pending == {NoRequest} \cup [kind : {"verify", "detail"}, id : Nat, conn : Nat]
Items == [conn : Nat, post : Posts]
Workers ==
  [epoch : Nat, token : Tokens, auth : BOOLEAN, ingest : Seq(Items),
   tasks : Seq(Tasks), req : Pending, drain : Drains]
Phases == {"disabled", "pending-session", "pending-auth", "checking", "verified", "expired",
           "gone", "retry", "empty", "error", "none"}

Links == [up : BOOLEAN, conn : Nat, outbox : Seq(Posts)]
PageMessages == Seq(Requests \cup {[kind |-> "cancel"]})
Databases == [flag : {"off", "public", "developer"}, phase : Phases, queue : Seq(Nat),
              details : SUBSET Nat]
Operations == {"idle", "operation", "delete"}
Envs == [sessions : Nat, hands : Nat, faults : Nat, lapsed : BOOLEAN, old : SUBSET Nat,
         accepted : SUBSET Nat, released : SUBSET Nat, deaf : BOOLEAN, failed : BOOLEAN]

TypeOK ==
  /\ page \in Pages /\ toPage \in PageMessages /\ link \in Links /\ w \in Workers
  /\ db \in Databases /\ op \in Operations /\ env \in Envs

\* While the page is not outside a session, what it has sent is aborted.
PageQuiet(p) == ~isPageOutsideSession(p) => ~p.http.live \/ p.http.aborted
\* A request is waited for exactly where the drain waits for it.
DrainFits(x) ==
  /\ x.drain.pc \in {"paused", "send", "fetching", "answered", "storing"} => x.drain.left # <<>>
  /\ x.req.kind # "none" => x.drain.pc \in {"verifying", "fetching"}

-----------------------------------------------------------------------------
(* What the worker has yet to process of the game: the events in its        *)
(* ingestion queue, then those the content script keeps for the next port.  *)

PostsOf(ingest) == [i \in DOMAIN ingest |-> ingest[i].post]
Coming == PostsOf(w.ingest)
Opens(s) ==
  \E i \in DOMAIN s : s[i].type = "start" /\ \A j \in DOMAIN s : j > i => s[j].type # "end"
Ends(s) == \E i \in DOMAIN s : s[i].type = "end"

TokenFits(token) == token.place = "none" => token.activity # "inactive" /\ token.conns = {}
\* While the page plays, the worker has the start of the session before it, or takes
\* the page for outside a session no more and has no end before it.
StartIsAhead ==
  Playing /\ ~env.deaf =>
    \/ Opens(link.outbox)
    \/ Opens(Coming) /\ ~Ends(link.outbox)
    \/ ~Ends(Coming) /\ ~Ends(link.outbox) /\ w.token.activity # "inactive"
SessionInv ==
  /\ TokenFits(w.token) /\ (link.up => link.outbox = <<>>) /\ StartIsAhead

-----------------------------------------------------------------------------
(* Hands come in the order they were played, so none that was already       *)
(* settled comes again.                                                     *)

HandsOf(s, type) == {s[i].hand : i \in {j \in DOMAIN s : s[j].type = type}}
Rising(s, type) ==
  \A i, j \in DOMAIN s : i < j /\ s[i].type = type /\ s[j].type = type => s[i].hand < s[j].hand
Below(A, B) == \A a \in A, b \in B : a < b

SettledSets == {w.drain.settled} \cup {t.settled : t \in {u \in ToSet(w.tasks) : u.type = "settle"}}
Seen == InQueue \cup ToSet(w.drain.left) \cup UNION SettledSets
TaskHands == HandsOf(w.tasks, "enqueue")
IngestHands == HandsOf(Coming, "hand")
OutboxHands == HandsOf(link.outbox, "hand")

HandsInOrder ==
  /\ Rising(w.tasks, "enqueue") /\ Rising(Coming, "hand") /\ Rising(link.outbox, "hand")
  /\ Below(Seen, TaskHands \cup IngestHands \cup OutboxHands)
  /\ Below(TaskHands, IngestHands \cup OutboxHands) /\ Below(IngestHands, OutboxHands)
  /\ Below(Seen \cup TaskHands \cup IngestHands \cup OutboxHands, {env.hands + 1})
SettledIsKept ==
  \A settled \in SettledSets : settled \cap env.accepted \subseteq db.details \cup env.released
QueueInv == HandsInOrder /\ SettledIsKept /\ QueueLosesNothing

IInv == TypeOK /\ DrainFits(w) /\ PageQuiet(page) /\ SessionInv /\ QueueInv

-----------------------------------------------------------------------------
(* The worker's own functions keep its type, and change of the session and  *)
(* of the hands only what is said here.                                     *)

Alike(y, x) ==
  /\ y.ingest = x.ingest /\ y.token = x.token /\ y.tasks = x.tasks /\ y.epoch = x.epoch
  /\ y.drain.settled = x.drain.settled /\ y.drain.left = x.drain.left

LEMMA IdleDrain == NoDrain \in Drains /\ [NoDrain EXCEPT !.pc = "barrier"] \in Drains
<1>1. /\ "idle" \in Pcs /\ "barrier" \in Pcs /\ "none" \in Outcomes \cup {"none"}
      /\ {} \in SUBSET Nat /\ <<>> \in Seq(Nat) /\ 0 \in Nat
  BY DEF Pcs
<1>2. NoDrain \in Drains
  BY <1>1 DEF NoDrain, Drains
<1> QED BY <1>1, <1>2 DEF Drains

LEMMA FreshWorker ==
  ASSUME NEW epoch \in Nat
  PROVE  /\ NewWorker(epoch) \in Workers /\ DrainFits(NewWorker(epoch))
         /\ NewWorker(epoch).ingest = <<>> /\ NewWorker(epoch).tasks = <<>>
         /\ NewWorker(epoch).token = NoToken
         /\ NewWorker(epoch).drain.settled = {} /\ NewWorker(epoch).drain.left = <<>>
<1>1. NoToken \in Tokens
  BY DEF NoToken, Tokens, Activities
<1>2. NewWorker(epoch) \in Workers
  BY <1>1, IdleDrain DEF NewWorker, Workers, Pending
<1> QED BY <1>2 DEF NewWorker, NoDrain, NoRequest, DrainFits

LEMMA Triggered ==
  ASSUME NEW x \in Workers, DrainFits(x)
  PROVE  /\ drainReplayImportQueue(x) \in Workers /\ DrainFits(drainReplayImportQueue(x))
         /\ Alike(drainReplayImportQueue(x), x) /\ drainReplayImportQueue(x).req = x.req
<1> DEFINE y == drainReplayImportQueue(x)
<1>1. /\ x.drain.pc = "idle" => y = [x EXCEPT !.drain.pc = "barrier"]
      /\ x.drain.pc # "idle" => y = [x EXCEPT !.drain.rerun = TRUE]
  BY DEF drainReplayImportQueue
<1> HIDE DEF y
<1>2. x.drain \in Drains
  BY DEF Workers
<1>3. CASE x.drain.pc = "idle"
  <2>1. y.drain = [x.drain EXCEPT !.pc = "barrier"] /\ "barrier" \in Pcs
    BY <1>1, <1>3 DEF Workers, Pcs
  <2>3. y.drain \in Drains /\ y.drain.left = x.drain.left /\ y.drain.settled = x.drain.settled
    BY <1>2, <2>1 DEF Drains
  <2>2. y \in Workers /\ Alike(y, x) /\ y.req = x.req
    BY <1>1, <1>3, <2>3 DEF Workers, Alike
  <2>4. y.drain.pc = "barrier" /\ x.req.kind = "none"
    BY <1>2, <1>3, <2>1 DEF Drains, DrainFits
  <2>5. DrainFits(y)
    BY <2>2, <2>4 DEF DrainFits
  <2> QED BY <2>2, <2>5 DEF y
<1>4. CASE x.drain.pc # "idle"
  <2>1. y.drain = [x.drain EXCEPT !.rerun = TRUE]
    BY <1>1, <1>4 DEF Workers
  <2>3. /\ y.drain \in Drains /\ y.drain.left = x.drain.left /\ y.drain.settled = x.drain.settled
        /\ y.drain.pc = x.drain.pc
    BY <1>2, <2>1 DEF Drains
  <2>2. y \in Workers /\ Alike(y, x) /\ y.req = x.req
    BY <1>1, <1>4, <2>3 DEF Workers, Alike
  <2>4. DrainFits(y)
    BY <2>2, <2>3 DEF DrainFits
  <2> QED BY <2>2, <2>4 DEF y
<1> QED BY <1>3, <1>4

LEMMA Ended ==
  ASSUME NEW x \in Workers, x.req.kind = "none"
  PROVE  /\ Return(x) \in Workers /\ DrainFits(Return(x))
         /\ Return(x).ingest = x.ingest /\ Return(x).token = x.token /\ Return(x).tasks = x.tasks
         /\ Return(x).drain.settled = {} /\ Return(x).drain.left = <<>>
<1> DEFINE y == Return(x)
           d == IF x.drain.rerun THEN [NoDrain EXCEPT !.pc = "barrier"] ELSE NoDrain
<1>1. y = [x EXCEPT !.drain = d]
  BY DEF Return
<1>2. /\ d \in Drains /\ d.pc \in {"idle", "barrier"} /\ d.settled = {} /\ d.left = <<>>
  BY IdleDrain DEF NoDrain
<1> HIDE DEF y, d
<1>3. y \in Workers
  BY <1>1, <1>2 DEF Workers
<1>4. y.drain = d /\ y.req = x.req /\ y.ingest = x.ingest /\ y.token = x.token /\ y.tasks = x.tasks
  BY <1>1 DEF Workers
<1> QED BY <1>2, <1>3, <1>4 DEF DrainFits, y

LEMMA AnswerKept ==
  ASSUME NEW x \in Workers, DrainFits(x), x.req.kind # "none", NEW answer \in Outcomes \cup {"none"}
  PROVE  settle(x, answer) \in Workers /\ DrainFits(settle(x, answer)) /\ Alike(settle(x, answer), x)
<1> DEFINE y == settle(x, answer)
           pc == IF x.drain.pc = "verifying" THEN "verdict" ELSE "answered"
           d == [x.drain EXCEPT !.answer = answer, !.pc = pc]
<1>1. x.drain \in Drains
  BY DEF Workers
<1>2. y = [x EXCEPT !.req = NoRequest, !.drain = d]
  BY <1>1 DEF settle, Workers, Drains
<1>3. d \in Drains /\ d.settled = x.drain.settled /\ d.left = x.drain.left /\ d.pc = pc
  BY <1>1 DEF Drains, Pcs
<1>4. x.drain.pc # "verifying" => x.drain.left # <<>>
  BY DEF DrainFits
<1>5. pc \in {"verdict", "answered"} /\ (pc = "answered" => x.drain.left # <<>>)
  BY <1>4
<1> HIDE DEF y, d, pc
<1>6. y \in Workers
  BY <1>2, <1>3 DEF Workers, Pending
<1>7. y.drain = d /\ y.req = NoRequest /\ Alike(y, x)
  BY <1>2, <1>3 DEF Workers, Alike
<1>8. DrainFits(y)
  BY <1>3, <1>5, <1>7 DEF DrainFits, NoRequest
<1> QED BY <1>6, <1>7, <1>8 DEF y

LEMMA RequestsReleased ==
  ASSUME NEW x \in Workers, DrainFits(x), NEW answer \in Outcomes
  PROVE  /\ releaseReplayRequests(x, answer) \in Workers /\ DrainFits(releaseReplayRequests(x, answer))
         /\ Alike(releaseReplayRequests(x, answer), x)
BY AnswerKept DEF releaseReplayRequests, Alike

-----------------------------------------------------------------------------
(* Events in sequence.                                                     *)

Joined(u, s, t) ==
  /\ \A i \in DOMAIN s : i \in DOMAIN u /\ u[i] = s[i]
  /\ \A i \in DOMAIN t : i + Len(s) \in DOMAIN u /\ u[i + Len(s)] = t[i]
  /\ \A i \in DOMAIN u : (\/ i \in DOMAIN s /\ u[i] = s[i]
                          \/ i - Len(s) \in DOMAIN t /\ u[i] = t[i - Len(s)])
  /\ DOMAIN s = 1..Len(s) /\ DOMAIN t = 1..Len(t) /\ Len(s) \in Nat /\ Len(t) \in Nat
  /\ DOMAIN u = 1..(Len(s) + Len(t))

LEMMA ConcatAt ==
  ASSUME NEW S, NEW s \in Seq(S), NEW t \in Seq(S)
  PROVE  Joined(s \o t, s, t)
<1>1. /\ s \o t \in Seq(S) /\ Len(s \o t) = Len(s) + Len(t)
      /\ \A i \in 1..(Len(s) + Len(t)) : (s \o t)[i] = IF i <= Len(s) THEN s[i] ELSE t[i - Len(s)]
      /\ Len(s) \in Nat /\ Len(t) \in Nat
  BY ConcatProperties
<1>2. DOMAIN (s \o t) = 1..(Len(s) + Len(t)) /\ DOMAIN s = 1..Len(s) /\ DOMAIN t = 1..Len(t)
  BY <1>1
<1> QED BY <1>1, <1>2 DEF Joined

LEMMA HandsOfConcat ==
  ASSUME NEW S, NEW s \in Seq(S), NEW t \in Seq(S), NEW type
  PROVE  /\ HandsOf(s \o t, type) = HandsOf(s, type) \cup HandsOf(t, type)
         /\ (Rising(s, type) /\ Rising(t, type) /\ Below(HandsOf(s, type), HandsOf(t, type)))
              => Rising(s \o t, type)
<1> DEFINE u == s \o t
           n == Len(s)
<1>0. Joined(u, s, t)
  BY ConcatAt
<1> HIDE DEF u
<1>1. /\ \A i \in DOMAIN s : i \in DOMAIN u /\ u[i] = s[i]
      /\ \A i \in DOMAIN t : i + n \in DOMAIN u /\ u[i + n] = t[i]
      /\ \A i \in DOMAIN u : (\/ i \in DOMAIN s /\ u[i] = s[i]
                              \/ i - n \in DOMAIN t /\ u[i] = t[i - n])
      /\ DOMAIN s = 1..n /\ DOMAIN t = 1..Len(t) /\ n \in Nat /\ Len(t) \in Nat
      /\ DOMAIN u = 1..(n + Len(t))
  BY <1>0 DEF Joined
<1> HIDE DEF n
<1>2. HandsOf(u, type) \subseteq HandsOf(s, type) \cup HandsOf(t, type)
  <2>1. ASSUME NEW i \in DOMAIN u, u[i].type = type
        PROVE  u[i].hand \in HandsOf(s, type) \cup HandsOf(t, type)
    BY <1>1, <2>1 DEF HandsOf
  <2> QED BY <2>1, Zenon DEF HandsOf
<1>3. HandsOf(s, type) \subseteq HandsOf(u, type)
  BY <1>1, Zenon DEF HandsOf
<1>4. HandsOf(t, type) \subseteq HandsOf(u, type)
  <2>1. ASSUME NEW i \in DOMAIN t, t[i].type = type PROVE t[i].hand \in HandsOf(u, type)
    BY <1>1, <2>1 DEF HandsOf
  <2> QED BY <2>1, Zenon DEF HandsOf
<1>5. ASSUME Rising(s, type), Rising(t, type), Below(HandsOf(s, type), HandsOf(t, type)),
             NEW i \in DOMAIN u, NEW j \in DOMAIN u, i < j, u[i].type = type, u[j].type = type
      PROVE  u[i].hand < u[j].hand
  <2>1. CASE i \in DOMAIN s /\ u[i] = s[i] /\ j \in DOMAIN s /\ u[j] = s[j]
    BY <1>5, <2>1 DEF Rising
  <2>2. CASE i \in DOMAIN s /\ u[i] = s[i] /\ j - n \in DOMAIN t /\ u[j] = t[j - n]
    <3>1. u[i].hand \in HandsOf(s, type) /\ u[j].hand \in HandsOf(t, type)
      BY <1>5, <2>2, Zenon DEF HandsOf
    <3> QED BY <1>5, <3>1, Zenon DEF Below
  <2>3. CASE i - n \in DOMAIN t /\ u[i] = t[i - n] /\ j - n \in DOMAIN t /\ u[j] = t[j - n]
    <3>1. i - n < j - n
      BY <1>1, <1>5
    <3> QED BY <1>5, <2>3, <3>1 DEF Rising
  <2>4. CASE i - n \in DOMAIN t /\ j \in DOMAIN s
    BY <1>1, <1>5, <2>4
  <2> QED BY <1>1, <2>1, <2>2, <2>3, <2>4
<1>6. (Rising(s, type) /\ Rising(t, type) /\ Below(HandsOf(s, type), HandsOf(t, type)))
        => Rising(u, type)
  BY <1>5 DEF Rising
<1> QED BY <1>2, <1>3, <1>4, <1>6 DEF u

LEMMA HandsOfTail ==
  ASSUME NEW S, NEW s \in Seq(S), s # <<>>, NEW type
  PROVE  /\ HandsOf(Tail(s), type) \subseteq HandsOf(s, type)
         /\ Rising(s, type) => Rising(Tail(s), type)
         /\ Head(s).type = type =>
              /\ Head(s).hand \in HandsOf(s, type)
              /\ Rising(s, type) => Below({Head(s).hand}, HandsOf(Tail(s), type))
<1> DEFINE t == Tail(s)
<1>1. /\ Len(s) \in Nat \ {0} /\ Head(s) = s[1] /\ DOMAIN s = 1..Len(s)
      /\ DOMAIN t = 1..(Len(s) - 1) /\ \A i \in DOMAIN t : t[i] = s[i + 1]
  BY TailSet
<1> HIDE DEF t
<1>2. \A i \in DOMAIN t : i + 1 \in DOMAIN s /\ t[i] = s[i + 1] /\ 1 < i + 1 /\ 1 \in DOMAIN s
  BY <1>1
<1>3. HandsOf(t, type) \subseteq HandsOf(s, type)
  BY <1>2, Zenon DEF HandsOf
<1>4. ASSUME Rising(s, type), NEW i \in DOMAIN t, NEW j \in DOMAIN t, i < j,
             t[i].type = type, t[j].type = type
      PROVE  t[i].hand < t[j].hand
  <2>1. i + 1 < j + 1
    BY <1>1, <1>4
  <2> QED BY <1>2, <1>4, <2>1 DEF Rising
<1>5. 1 \in DOMAIN s
  BY <1>1
<1>6. Head(s).type = type => Head(s).hand \in HandsOf(s, type)
  BY <1>1, <1>5, Zenon DEF HandsOf
<1>7. ASSUME Head(s).type = type, Rising(s, type), NEW h \in HandsOf(t, type)
      PROVE  Head(s).hand < h
  <2>1. PICK i \in DOMAIN t : t[i].type = type /\ h = t[i].hand
    BY <1>7, Zenon DEF HandsOf
  <2> QED BY <1>1, <1>2, <1>7, <2>1 DEF Rising
<1>8. Rising(s, type) => Rising(t, type)
  BY <1>4 DEF Rising
<1>9. (Head(s).type = type /\ Rising(s, type)) => Below({Head(s).hand}, HandsOf(t, type))
  BY <1>7 DEF Below
<1> QED BY <1>3, <1>6, <1>8, <1>9 DEF t

LEMMA OpensConcat ==
  ASSUME NEW S, NEW s \in Seq(S), NEW t \in Seq(S)
  PROVE  /\ Opens(t) => Opens(s \o t)
         /\ (Opens(s) /\ ~Ends(t)) => Opens(s \o t)
         /\ Ends(s \o t) => Ends(s) \/ Ends(t)
<1> DEFINE u == s \o t
           n == Len(s)
<1>0. Joined(u, s, t)
  BY ConcatAt
<1> HIDE DEF u
<1>1. /\ \A i \in DOMAIN s : i \in DOMAIN u /\ u[i] = s[i]
      /\ \A i \in DOMAIN t : i + n \in DOMAIN u /\ u[i + n] = t[i]
      /\ \A i \in DOMAIN u : (\/ i \in DOMAIN s /\ u[i] = s[i]
                              \/ i - n \in DOMAIN t /\ u[i] = t[i - n])
      /\ DOMAIN s = 1..n /\ DOMAIN t = 1..Len(t) /\ n \in Nat /\ Len(t) \in Nat
      /\ DOMAIN u = 1..(n + Len(t))
  BY <1>0 DEF Joined
<1> HIDE DEF n
<1>2. ASSUME Opens(t) PROVE Opens(u)
  <2>1. PICK i \in DOMAIN t : t[i].type = "start" /\ \A j \in DOMAIN t : j > i => t[j].type # "end"
    BY <1>2 DEF Opens
  <2>2. ASSUME NEW j \in DOMAIN u, j > i + n PROVE u[j].type # "end"
    <3>1. j \notin DOMAIN s
      BY <1>1, <2>1, <2>2
    <3>2. j - n \in DOMAIN t /\ u[j] = t[j - n]
      BY <1>1, <3>1
    <3>3. j - n > i
      BY <1>1, <2>1, <2>2
    <3> QED BY <2>1, <3>2, <3>3
  <2>3. i + n \in DOMAIN u /\ u[i + n].type = "start"
    BY <1>1, <2>1
  <2> QED BY <2>2, <2>3 DEF Opens
<1>3. ASSUME Opens(s), ~Ends(t) PROVE Opens(u)
  <2>1. PICK i \in DOMAIN s : s[i].type = "start" /\ \A j \in DOMAIN s : j > i => s[j].type # "end"
    BY <1>3 DEF Opens
  <2>2. ASSUME NEW j \in DOMAIN u, j > i PROVE u[j].type # "end"
    BY <1>1, <1>3, <2>1, <2>2 DEF Ends
  <2> QED BY <1>1, <2>1, <2>2 DEF Opens
<1>4. ASSUME Ends(u) PROVE Ends(s) \/ Ends(t)
  BY <1>1, <1>4 DEF Ends
<1> QED BY <1>2, <1>3, <1>4 DEF u

LEMMA OpensTail ==
  ASSUME NEW S, NEW s \in Seq(S), s # <<>>
  PROVE  /\ Opens(s) => Opens(Tail(s)) \/ (Head(s).type = "start" /\ ~Ends(Tail(s)))
         /\ Ends(Tail(s)) => Ends(s)
         /\ Head(s).type = "end" => Ends(s)
<1> DEFINE t == Tail(s)
<1>1. /\ Len(s) \in Nat \ {0} /\ Head(s) = s[1] /\ DOMAIN s = 1..Len(s)
      /\ DOMAIN t = 1..(Len(s) - 1) /\ \A i \in DOMAIN t : t[i] = s[i + 1]
  BY TailSet
<1> HIDE DEF t
<1>2. /\ \A i \in DOMAIN t : i + 1 \in DOMAIN s /\ t[i] = s[i + 1] /\ 1 < i + 1
      /\ 1 \in DOMAIN s /\ \A i \in DOMAIN s : i = 1 \/ (i - 1 \in DOMAIN t /\ s[i] = t[i - 1])
  BY <1>1
<1>3. ASSUME Opens(s) PROVE Opens(t) \/ (Head(s).type = "start" /\ ~Ends(t))
  <2>1. PICK i \in DOMAIN s : s[i].type = "start" /\ \A j \in DOMAIN s : j > i => s[j].type # "end"
    BY <1>3 DEF Opens
  <2>2. ASSUME NEW j \in DOMAIN t, j + 1 > i PROVE t[j].type # "end"
    BY <1>2, <2>1, <2>2
  <2>3. CASE i = 1
    <3>1. \A j \in DOMAIN t : j + 1 > i
      BY <1>1, <2>3
    <3> QED BY <1>1, <2>1, <2>2, <2>3, <3>1 DEF Ends
  <2>4. CASE i # 1
    <3>1. i - 1 \in DOMAIN t /\ t[i - 1].type = "start"
      BY <1>2, <2>1, <2>4
    <3>2. ASSUME NEW j \in DOMAIN t, j > i - 1 PROVE t[j].type # "end"
      <4>1. j + 1 > i
        BY <1>1, <2>1, <3>2
      <4> QED BY <2>2, <4>1
    <3> QED BY <3>1, <3>2 DEF Opens
  <2> QED BY <2>3, <2>4
<1>4. Ends(t) => Ends(s)
  BY <1>2 DEF Ends
<1>5. Head(s).type = "end" => Ends(s)
  BY <1>1, <1>2 DEF Ends
<1> QED BY <1>3, <1>4, <1>5 DEF t

-----------------------------------------------------------------------------
(* What the page posts.                                                    *)

LEMMA PostsAreTyped ==
  ASSUME NEW s \in Seq(Items)
  PROVE  PostsOf(s) \in Seq(Posts) /\ (s # <<>> => PostsOf(s) # <<>>)
<1>0. DOMAIN s = 1..Len(s) /\ Len(s) \in Nat /\ \A i \in 1..Len(s) : s[i] \in Items
  OBVIOUS
<1>1. DOMAIN s = 1..Len(s) /\ Len(s) \in Nat /\ \A i \in 1..Len(s) : s[i].post \in Posts
  BY <1>0 DEF Items
<1>2. PostsOf(s) = [i \in 1..Len(s) |-> s[i].post]
  BY <1>1 DEF PostsOf
<1>3. PostsOf(s) \in Seq(Posts)
  BY <1>1, <1>2
<1>4. ASSUME s # <<>> PROVE PostsOf(s) # <<>>
  <2>1. 1 \in DOMAIN s
    BY <1>1, <1>4, EmptySeq
  <2>2. 1 \in DOMAIN PostsOf(s)
    BY <2>1, <1>1, <1>2
  <2> QED BY <2>2
<1> QED BY <1>3, <1>4

LEMMA PostsOfTail ==
  ASSUME NEW s \in Seq(Items), s # <<>>
  PROVE  /\ PostsOf(Tail(s)) = Tail(PostsOf(s)) /\ Head(PostsOf(s)) = Head(s).post
         /\ PostsOf(s) \in Seq(Posts) /\ PostsOf(s) # <<>>
<1>1. /\ Len(s) \in Nat \ {0} /\ Head(s) = s[1] /\ DOMAIN s = 1..Len(s) /\ Tail(s) \in Seq(Items)
      /\ DOMAIN Tail(s) = 1..(Len(s) - 1) /\ \A i \in DOMAIN Tail(s) : Tail(s)[i] = s[i + 1]
  BY TailSet
<1> DEFINE p == PostsOf(s)
<1>2. p \in Seq(Posts) /\ p # <<>> /\ DOMAIN p = DOMAIN s /\ \A i \in DOMAIN s : p[i] = s[i].post
  BY PostsAreTyped DEF PostsOf
<1> HIDE DEF p
<1>3. /\ Head(p) = p[1] /\ DOMAIN p = 1..Len(p) /\ Len(p) \in Nat
      /\ DOMAIN Tail(p) = 1..(Len(p) - 1) /\ \A i \in DOMAIN Tail(p) : Tail(p)[i] = p[i + 1]
      /\ Tail(p) \in Seq(Posts)
  BY <1>2, TailSet
<1>4. Len(p) = Len(s)
  BY <1>1, <1>2, <1>3
<1>5. \A i \in 1..(Len(s) - 1) : i + 1 \in DOMAIN s
  BY <1>1
<1>6. \A i \in 1..(Len(s) - 1) : Tail(p)[i] = Tail(s)[i].post
  BY <1>1, <1>2, <1>3, <1>4, <1>5
<1>7. /\ PostsOf(Tail(s)) \in Seq(Posts) /\ DOMAIN PostsOf(Tail(s)) = 1..(Len(s) - 1)
      /\ \A i \in 1..(Len(s) - 1) : PostsOf(Tail(s))[i] = Tail(s)[i].post
  BY <1>1, PostsAreTyped DEF PostsOf
<1>8. Len(Tail(p)) = Len(s) - 1 /\ Len(PostsOf(Tail(s))) = Len(s) - 1
  <2>1. Len(s) - 1 \in Nat
    BY <1>1
  <2>2. Len(Tail(p)) = Len(s) - 1
    BY <2>1, <1>3, <1>4
  <2> DEFINE z == PostsOf(Tail(s))
  <2>3. z \in Seq(Posts) /\ DOMAIN z = 1..(Len(s) - 1)
    BY <1>7
  <2> HIDE DEF z
  <2>4. Len(z) = Len(s) - 1
    BY <2>1, <2>3
  <2> QED BY <2>2, <2>4 DEF z
<1>9. PostsOf(Tail(s)) = Tail(p)
  BY <1>3, <1>6, <1>7, <1>8, SeqEqual
<1>10. Head(p) = Head(s).post
  BY <1>1, <1>2, <1>3
<1> QED BY <1>2, <1>9, <1>10 DEF p

LEMMA PostsOfConcat ==
  ASSUME NEW s \in Seq(Items), NEW t \in Seq(Items)
  PROVE  PostsOf(s \o t) = PostsOf(s) \o PostsOf(t)
<1> DEFINE u == s \o t
           p == PostsOf(s)
           q == PostsOf(t)
<1>1. Joined(u, s, t) /\ u \in Seq(Items)
  BY ConcatAt, ConcatSet
<1>2. /\ p \in Seq(Posts) /\ DOMAIN p = DOMAIN s /\ \A i \in DOMAIN s : p[i] = s[i].post
      /\ q \in Seq(Posts) /\ DOMAIN q = DOMAIN t /\ \A i \in DOMAIN t : q[i] = t[i].post
  BY PostsAreTyped DEF PostsOf
<1>3. Joined(p \o q, p, q) /\ p \o q \in Seq(Posts)
  BY <1>2, ConcatAt, ConcatSet
<1> DEFINE r == p \o q
<1> HIDE DEF u, p, q, r
<1>4. Len(p) = Len(s) /\ Len(q) = Len(t)
  BY <1>1, <1>2, <1>3 DEF Joined
<1>5. DOMAIN r = DOMAIN u
  BY <1>1, <1>3, <1>4 DEF Joined, r
<1>6. ASSUME NEW i \in DOMAIN u PROVE r[i] = u[i].post
  <2>1. CASE i \in DOMAIN s /\ u[i] = s[i]
    BY <1>2, <1>3, <2>1 DEF Joined, r
  <2>2. CASE i - Len(s) \in DOMAIN t /\ u[i] = t[i - Len(s)]
    <3>1. r[(i - Len(s)) + Len(s)] = q[i - Len(s)]
      BY <1>2, <1>3, <1>4, <2>2 DEF Joined, r
    <3>2. (i - Len(s)) + Len(s) = i
      BY <1>1 DEF Joined
    <3> QED BY <1>2, <2>2, <3>1, <3>2
  <2> QED BY <1>1, <2>1, <2>2 DEF Joined
<1>7. /\ PostsOf(u) \in Seq(Posts) /\ DOMAIN PostsOf(u) = DOMAIN u
      /\ \A i \in DOMAIN u : PostsOf(u)[i] = u[i].post
  BY <1>1, PostsAreTyped DEF PostsOf
<1>8. /\ r \in Seq(Posts) /\ DOMAIN r = 1..Len(r) /\ Len(r) \in Nat
      /\ DOMAIN PostsOf(u) = 1..Len(PostsOf(u)) /\ Len(PostsOf(u)) \in Nat
  BY <1>3, <1>7 DEF r
<1>9. PostsOf(u) = r
  BY <1>5, <1>6, <1>7, <1>8, SeqEqual
<1> QED BY <1>9 DEF u, p, q, r

LEMMA ReceivedPosts ==
  ASSUME NEW x \in Workers, NEW conn \in Nat, NEW posts \in Seq(Posts)
  PROVE  /\ Received(x, conn, posts) \in Workers
         /\ PostsOf(Received(x, conn, posts).ingest) = PostsOf(x.ingest) \o posts
         /\ Received(x, conn, posts) = [x EXCEPT !.ingest = Received(x, conn, posts).ingest]
<1> DEFINE items == [i \in DOMAIN posts |-> [conn |-> conn, post |-> posts[i]]]
<1>1. DOMAIN posts = 1..Len(posts) /\ Len(posts) \in Nat /\ \A i \in 1..Len(posts) : posts[i] \in Posts
  OBVIOUS
<1>2. items \in Seq(Items) /\ DOMAIN items = DOMAIN posts /\ \A i \in DOMAIN posts : items[i].post = posts[i]
  <2>1. \A i \in 1..Len(posts) : [conn |-> conn, post |-> posts[i]] \in Items
    BY <1>1 DEF Items
  <2>2. items = [i \in 1..Len(posts) |-> [conn |-> conn, post |-> posts[i]]]
    BY <1>1
  <2> QED BY <1>1, <2>1, <2>2
<1>3. Received(x, conn, posts) = [x EXCEPT !.ingest = x.ingest \o items]
  BY DEF Received
<1> HIDE DEF items
<1>4. x.ingest \in Seq(Items)
  BY DEF Workers
<1>5. x.ingest \o items \in Seq(Items) /\ PostsOf(x.ingest \o items) = PostsOf(x.ingest) \o PostsOf(items)
  BY <1>2, <1>4, ConcatSet, PostsOfConcat
<1>6. PostsOf(items) = posts
  <2>1. PostsOf(items) = [i \in DOMAIN posts |-> posts[i]]
    BY <1>2 DEF PostsOf
  <2> QED BY <2>1
<1>7. Received(x, conn, posts) \in Workers
  BY <1>3, <1>5 DEF Workers
<1>8. Received(x, conn, posts).ingest = x.ingest \o items
  BY <1>3 DEF Workers
<1> QED BY <1>3, <1>5, <1>6, <1>7, <1>8

-----------------------------------------------------------------------------
(* The page's handlers keep its type, leave no request open but between     *)
(* sessions, and answer with results only.                                  *)

PageFits(p) == p \in Pages /\ PageQuiet(p)
Handled(p, result) ==
  PageFits(result.page) /\ result.page.activity = p.activity /\ result.posts \in Seq(Results)

LEMMA Answers ==
  ASSUME NEW p, PageFits(p)
  PROVE  /\ Handled(p, Quiet(p))
         /\ \A req \in Requests, outcome \in Outcomes :
              Handled(p, postVerificationResult(p, req, outcome))
         /\ \A req \in Requests : Handled(p, postEmptyReplayResult(p, req))
<1>1. Handled(p, Quiet(p))
  BY DEF Handled, Quiet
<1>2. ASSUME NEW req \in Requests, NEW outcome \in Outcomes
      PROVE  Handled(p, postVerificationResult(p, req, outcome))
  <2>1. Result(req, outcome) \in Results
    BY DEF Result, Requests, Results
  <2> QED BY <2>1 DEF Handled, postVerificationResult
<1>3. "empty" \in Outcomes
  BY DEF Outcomes
<1> QED BY <1>1, <1>2, <1>3 DEF postEmptyReplayResult

LEMMA CancelAll ==
  ASSUME NEW p \in Pages
  PROVE  /\ PageFits(cancelAllReplayRequests(p))
         /\ cancelAllReplayRequests(p).activity = p.activity
         /\ ~cancelAllReplayRequests(p).http.live \/ cancelAllReplayRequests(p).http.aborted
<1>1. CASE p.http.live
  <2>1. p.http \in Sent
    BY <1>1 DEF Pages, NoHttp
  <2> DEFINE h == [p.http EXCEPT !.aborted = TRUE]
  <2>2. h \in Sent /\ h.aborted = TRUE
    BY <2>1 DEF Sent
  <2>3. cancelAllReplayRequests(p) = [p EXCEPT !.http = h]
    BY <1>1 DEF cancelAllReplayRequests, Pages
  <2> HIDE DEF h
  <2>4. [p EXCEPT !.http = h] \in Pages /\ [p EXCEPT !.http = h].http = h
        /\ [p EXCEPT !.http = h].activity = p.activity
    BY <2>2 DEF Pages
  <2> QED BY <2>2, <2>3, <2>4 DEF PageFits, PageQuiet
<1>2. CASE ~p.http.live
  BY <1>2 DEF cancelAllReplayRequests, PageFits, PageQuiet
<1> QED BY <1>1, <1>2

LEMMA Generation ==
  ASSUME NEW p \in Pages
  PROVE  PageFits(CancelGeneration(p)) /\ CancelGeneration(p).activity = p.activity
<1> DEFINE stale == [i \in DOMAIN p.queue |-> [p.queue[i] EXCEPT !.stale = TRUE]]
           q == [p EXCEPT !.queue = stale]
           r == IF q.http.live THEN [q EXCEPT !.http.req.stale = TRUE] ELSE q
<1>1. stale \in Seq(Requests)
  <2>1. p.queue \in Seq(Requests)
    BY DEF Pages
  <2>2. DOMAIN p.queue = 1..Len(p.queue) /\ Len(p.queue) \in Nat /\ \A i \in 1..Len(p.queue) : p.queue[i] \in Requests
    BY <2>1
  <2>3. \A i \in 1..Len(p.queue) : [p.queue[i] EXCEPT !.stale = TRUE] \in Requests
    BY <2>2 DEF Requests
  <2> QED BY <2>2, <2>3
<1>2. CancelGeneration(p) = cancelAllReplayRequests(r)
  BY DEF CancelGeneration
<1> HIDE DEF stale
<1>3. q \in Pages /\ q.activity = p.activity /\ q.http = p.http
  BY <1>1 DEF Pages
<1> HIDE DEF q
<1>4. r \in Pages /\ r.activity = p.activity
  <2>1. CASE q.http.live
    <3>0. q.http \in {NoHttp} \cup Sent
      BY <1>3 DEF Pages
    <3>5. q.http \in Sent
      BY <2>1, <3>0 DEF NoHttp
    <3>1. q.http \in Sent /\ q.http.req \in Requests
      BY <3>5 DEF Sent
    <3> DEFINE req == [q.http.req EXCEPT !.stale = TRUE]
               h == [q.http EXCEPT !.req = req]
    <3>2. req \in Requests
      BY <3>1 DEF Requests
    <3>3. r = [q EXCEPT !.http = h]
      BY <1>3, <2>1, <3>1 DEF Pages, Sent
    <3> HIDE DEF req
    <3>4. h \in Sent
      BY <3>1, <3>2 DEF Sent
    <3> HIDE DEF h
    <3> QED BY <1>3, <3>3, <3>4 DEF Pages
  <2>2. CASE ~q.http.live
    BY <1>3, <2>2
  <2> QED BY <2>1, <2>2
<1> HIDE DEF r
<1> QED BY <1>2, <1>4, CancelAll

LEMMA ActivitySet ==
  ASSUME NEW p \in Pages, NEW activity \in Activities
  PROVE  /\ PageFits(setReplayPageSessionActivity(p, activity))
         /\ setReplayPageSessionActivity(p, activity).activity = activity
<1> DEFINE q == [p EXCEPT !.activity = activity]
<1>1. q \in Pages /\ q.activity = activity
  BY DEF Pages
<1>2. setReplayPageSessionActivity(p, activity) = IF isPageOutsideSession(q) THEN q ELSE CancelGeneration(q)
  BY DEF setReplayPageSessionActivity
<1> HIDE DEF q
<1> QED BY <1>1, <1>2, Generation DEF PageFits, PageQuiet

LEMMA CancelPosted ==
  ASSUME NEW p \in Pages
  PROVE  PageFits(postReplayCancel(p)) /\ postReplayCancel(p).activity = p.activity
<1> DEFINE q == [p EXCEPT !.held = <<>>]
<1>0. <<>> \in Seq(Requests)
  OBVIOUS
<1>1. q \in Pages /\ q.activity = p.activity
  BY <1>0 DEF Pages
<1>2. postReplayCancel(p) = CancelGeneration(q)
  BY DEF postReplayCancel
<1> HIDE DEF q
<1> QED BY <1>1, <1>2, Generation

\* A state of the page with other fields than activity and the open request.
LEMMA SameHttp ==
  ASSUME NEW p, NEW q \in Pages, PageFits(p), q.activity = p.activity, q.http = p.http
  PROVE  PageFits(q)
BY DEF PageFits, PageQuiet, isPageOutsideSession

LEMMA RequestEnqueued ==
  ASSUME NEW p, PageFits(p), NEW req \in Requests
  PROVE  Handled(p, Enqueue(p, req))
<1> DEFINE q == adoptServiceWorkerEpoch(p, req.epoch)
           c == cancelAllReplayRequests(p)
           r == [q EXCEPT !.queue = Append(@, req)]
<1>1. PageFits(q) /\ q.activity = p.activity
  <2>1. CASE p.epoch = req.epoch
    BY <2>1 DEF adoptServiceWorkerEpoch
  <2>2. CASE p.epoch # req.epoch
    <3>1. c \in Pages /\ PageFits(c) /\ c.activity = p.activity
      BY CancelAll DEF PageFits
    <3>2. q = [c EXCEPT !.epoch = req.epoch]
      BY <2>2 DEF adoptServiceWorkerEpoch
    <3> HIDE DEF c, q
    <3>3. q \in Pages /\ q.activity = c.activity /\ q.http = c.http
      BY <3>1, <3>2 DEF Pages, Requests
    <3> QED BY <3>1, <3>3, SameHttp
  <2> QED BY <2>1, <2>2
<1>2. Enqueue(p, req) = Quiet(r)
  BY DEF Enqueue
<1> HIDE DEF q
<1>5. q \in Pages /\ q.queue \in Seq(Requests)
  BY <1>1 DEF PageFits, Pages
<1>6. Append(q.queue, req) \in Seq(Requests)
  BY <1>5
<1>3. r \in Pages /\ r.activity = q.activity /\ r.http = q.http
  BY <1>5, <1>6 DEF Pages
<1>4. PageFits(r)
  BY <1>1, <1>3, SameHttp
<1> HIDE DEF r
<1> QED BY <1>1, <1>2, <1>3, <1>4 DEF Handled, Quiet

LEMMA FetchReceived ==
  ASSUME NEW p, PageFits(p), NEW req \in Requests
  PROVE  Handled(p, BridgeFetch(p, req)) /\ Handled(p, BridgeVerify(p, req))
<1> DEFINE c == cancelAllReplayRequests(p)
<1>1. PageFits(c) /\ c.activity = p.activity
  BY CancelAll DEF PageFits
<1> HIDE DEF c
<1>2. "in-session" \in Outcomes
  BY DEF Outcomes
<1>3. Handled(c, postEmptyReplayResult(c, req)) /\ Handled(c, postVerificationResult(c, req, "in-session"))
  BY <1>1, <1>2, Answers
<1>4. Handled(p, postEmptyReplayResult(c, req)) /\ Handled(p, postVerificationResult(c, req, "in-session"))
  BY <1>1, <1>3 DEF Handled
<1> QED BY <1>4, RequestEnqueued DEF BridgeFetch, BridgeVerify, c

LEMMA MessageReceived ==
  ASSUME NEW p, PageFits(p), NEW msg \in Requests \cup {[kind |-> "cancel"]}
  PROVE  Handled(p, onMessage(p, msg))
<1>1. CASE msg.kind = "cancel"
  <2>1. Handled(p, Quiet(postReplayCancel(p)))
    BY CancelPosted DEF Handled, Quiet, PageFits
  <2> QED BY <1>1, <2>1 DEF onMessage
<1>2. CASE msg.kind # "cancel"
  <2>1. msg \in Requests
    BY <1>2
  <2> DEFINE q == [p EXCEPT !.held = Append(@, msg)]
  <2>2. p \in Pages /\ p.held \in Seq(Requests) /\ Append(p.held, msg) \in Seq(Requests)
    <3>1. p.held \in Seq(Requests)
      BY DEF PageFits, Pages
    <3> QED BY <2>1, <3>1 DEF PageFits
  <2>3. q \in Pages /\ q.activity = p.activity /\ q.http = p.http
    BY <2>2 DEF Pages
  <2>4. PageFits(q)
    BY <2>3, SameHttp
  <2> HIDE DEF q
  <2>5. Handled(p, Quiet(q))
    BY <2>3, <2>4 DEF Handled, Quiet
  <2>6. "error" \in Outcomes
    BY DEF Outcomes
  <2>7. Handled(p, postVerificationResult(p, msg, "error"))
    BY <2>1, <2>6, Answers
  <2> QED BY <1>2, <2>1, <2>5, <2>7, FetchReceived DEF onMessage, q
<1> QED BY <1>1, <1>2

LEMMA FetchAllReceived ==
  ASSUME NEW p, PageFits(p), NEW reqs \in Seq(Requests), reqs # <<>>
  PROVE  Handled(p, BridgeFetchAll(p, reqs))
<1>1. p \in Pages /\ p.queue \in Seq(Requests)
  BY DEF PageFits, Pages
<1>2. /\ DOMAIN reqs = 1..Len(reqs) /\ Len(reqs) \in 1..Len(reqs)
      /\ \A i \in 1..Len(reqs) : reqs[i] \in Requests
  BY EmptySeq
<1> DEFINE c == cancelAllReplayRequests(p)
           q == IF \A req \in ToSet(reqs) : req.epoch = p.epoch THEN p ELSE c
           r == [q EXCEPT !.epoch = Last(reqs).epoch, !.queue = @ \o reqs]
           posts == [i \in DOMAIN reqs |-> Result(reqs[i], "empty")]
<1>3. c \in Pages /\ PageFits(c) /\ c.activity = p.activity
  BY <1>1, CancelAll DEF PageFits
<1>4. /\ isPageOutsideSession(p) => BridgeFetchAll(p, reqs) = Quiet(r)
      /\ ~isPageOutsideSession(p) => BridgeFetchAll(p, reqs) = [page |-> c, posts |-> posts]
  BY DEF BridgeFetchAll
<1>5. q \in Pages /\ PageFits(q) /\ q.activity = p.activity /\ q.queue \in Seq(Requests)
  <2>1. q \in Pages /\ PageFits(q) /\ q.activity = p.activity
    BY <1>1, <1>3
  <2> HIDE DEF q
  <2> QED BY <2>1 DEF Pages
<1>6. posts \in Seq(Results)
  <2>1. \A i \in 1..Len(reqs) : Result(reqs[i], "empty") \in Results
    BY <1>2 DEF Result, Results, Requests, Outcomes
  <2>2. posts = [i \in 1..Len(reqs) |-> Result(reqs[i], "empty")]
    BY <1>2
  <2> QED BY <2>1, <2>2
<1> HIDE DEF c, q, posts
<1>7. Last(reqs) \in Requests
  BY <1>2 DEF Last
<1>8. q.queue \o reqs \in Seq(Requests) /\ Last(reqs).epoch \in Nat
  BY <1>5, <1>7, ConcatSet DEF Requests
<1>9. r \in Pages /\ r.activity = q.activity /\ r.http = q.http
  BY <1>5, <1>8 DEF Pages
<1>10. PageFits(r)
  BY <1>5, <1>9, SameHttp
<1>11. r.activity = p.activity
  BY <1>5, <1>9
<1> HIDE DEF r
<1>12. Handled(p, Quiet(r)) /\ Handled(p, [page |-> c, posts |-> posts])
  <2>1. <<>> \in Seq(Results)
    OBVIOUS
  <2> QED BY <1>3, <1>6, <1>10, <1>11, <2>1 DEF Handled, Quiet
<1> QED BY <1>4, <1>12

LEMMA ConfigRefreshed ==
  ASSUME NEW p, PageFits(p), NEW on \in BOOLEAN
  PROVE  Handled(p, RefreshConfig(p, on))
<1> DEFINE q == [p EXCEPT !.enabled = on, !.auth = on /\ @, !.held = <<>>]
           r == [q EXCEPT !.http.oldAuth = TRUE]
<1>1. p \in Pages /\ p.held \in Seq(Requests) /\ <<>> \in Seq(Requests) /\ (on /\ p.auth) \in BOOLEAN
  BY DEF PageFits, Pages
<1>2. q \in Pages /\ q.activity = p.activity /\ q.http = p.http
  BY <1>1 DEF Pages
<1>3. PageFits(q)
  BY <1>2, SameHttp
<1>4. RefreshConfig(p, on) = IF on /\ p.held # <<>> THEN BridgeFetchAll(q, p.held)
                             ELSE IF ~on /\ p.http.live THEN Quiet(r) ELSE Quiet(q)
  BY DEF RefreshConfig
<1> HIDE DEF q
<1>5. CASE on /\ p.held # <<>>
  <2>1. Handled(q, BridgeFetchAll(q, p.held))
    BY <1>1, <1>3, <1>5, FetchAllReceived
  <2> QED BY <1>2, <1>4, <1>5, <2>1 DEF Handled
<1>6. CASE ~(on /\ p.held # <<>>) /\ ~on /\ p.http.live
  <2> DEFINE h == [q.http EXCEPT !.oldAuth = TRUE]
  <2>1. q.http \in {NoHttp} \cup Sent
    BY <1>2 DEF Pages
  <2>2. q.http \in Sent
    BY <1>2, <1>6, <2>1 DEF NoHttp
  <2>3. h \in Sent /\ h.live = q.http.live /\ h.aborted = q.http.aborted
    BY <2>2 DEF Sent
  <2>4. r = [q EXCEPT !.http = h]
    BY <1>2 DEF Pages
  <2> HIDE DEF h
  <2>5. r \in Pages /\ r.activity = p.activity /\ r.http = h
    BY <1>2, <2>3, <2>4 DEF Pages
  <2> HIDE DEF r
  <2>6. PageFits(r)
    BY <1>2, <1>3, <2>3, <2>5 DEF PageFits, PageQuiet, isPageOutsideSession
  <2> QED BY <1>4, <1>6, <2>5, <2>6 DEF Handled, Quiet
<1>7. CASE ~(on /\ p.held # <<>>) /\ ~(~on /\ p.http.live)
  BY <1>2, <1>3, <1>4, <1>7 DEF Handled, Quiet
<1> QED BY <1>5, <1>6, <1>7

LEMMA AuthAnnounced ==
  ASSUME NEW p, PageFits(p)
  PROVE  PageFits(announceAuthCaptured(p).page) /\ announceAuthCaptured(p).page.activity = p.activity
<1> DEFINE q == [p EXCEPT !.auth = TRUE]
<1>1. q \in Pages /\ q.activity = p.activity /\ q.http = p.http
  BY DEF PageFits, Pages
<1>2. PageFits(q)
  BY <1>1, SameHttp
<1> QED BY <1>1, <1>2 DEF announceAuthCaptured

LEMMA RequestSent ==
  ASSUME NEW p, PageFits(p), isPageOutsideSession(p), NEW req \in Requests
  PROVE  Handled(p, Send(p, req))
<1> DEFINE h == [live |-> TRUE, req |-> req, aborted |-> FALSE, oldAuth |-> FALSE]
           q == [p EXCEPT !.http = h]
<1>1. h \in Sent
  BY DEF Sent
<1>2. Send(p, req) = Quiet(q)
  BY DEF Send
<1> HIDE DEF h
<1>3. q \in Pages /\ q.activity = p.activity
  BY <1>1 DEF PageFits, Pages
<1> HIDE DEF q
<1>4. PageFits(q)
  BY <1>3 DEF PageFits, PageQuiet, isPageOutsideSession
<1> QED BY <1>2, <1>3, <1>4 DEF Handled, Quiet

LEMMA RequestTaken ==
  ASSUME NEW p, PageFits(p), p.queue # <<>>
  PROVE  Handled(p, replayFetchQueue(p))
<1> DEFINE q == [p EXCEPT !.queue = Tail(@)]
           req == Head(p.queue)
<1>1. p.queue \in Seq(Requests)
  BY DEF PageFits, Pages
<1>2. req \in Requests /\ Tail(p.queue) \in Seq(Requests)
  BY <1>1
<1>3. q \in Pages /\ q.activity = p.activity /\ q.http = p.http
  BY <1>2 DEF PageFits, Pages
<1>4. PageFits(q)
  BY <1>3, SameHttp
<1>5. replayFetchQueue(p) = IF req.kind = "verify" THEN verifyReplayAccess(q, req) ELSE handleReplayFetch(q, req)
  BY DEF replayFetchQueue
<1>6. {"in-session", "no-auth", "retry"} \subseteq Outcomes
  BY DEF Outcomes
<1> HIDE DEF q, req
<1>7. Handled(q, verifyReplayAccess(q, req))
  BY <1>2, <1>4, <1>6, Answers, RequestSent DEF verifyReplayAccess
<1>8. Handled(q, handleReplayFetch(q, req))
  BY <1>2, <1>4, <1>6, Answers, RequestSent DEF handleReplayFetch
<1> QED BY <1>3, <1>5, <1>7, <1>8 DEF Handled

LEMMA RequestEnds ==
  ASSUME NEW p, PageFits(p), p.http.live, NEW answer \in Outcomes
  PROVE  Handled(p, Answered(p, answer))
<1> DEFINE q == [p EXCEPT !.http = NoHttp]
           req == p.http.req
<1>1. p.http \in {NoHttp} \cup Sent
  BY DEF PageFits, Pages
<1>2. p.http \in Sent
  BY <1>1 DEF NoHttp
<1>3. req \in Requests
  BY <1>2 DEF Sent
<1>4. q \in Pages /\ q.activity = p.activity /\ q.http = NoHttp
  BY DEF PageFits, Pages
<1>5. PageFits(q)
  BY <1>4 DEF PageFits, PageQuiet, NoHttp
<1>6. {"in-session", "error", "retry"} \subseteq Outcomes
  BY DEF Outcomes
<1> DEFINE void == p.epoch # req.epoch \/ req.stale \/ ~p.enabled
           aborted == IF isPageOutsideSession(q) THEN "error" ELSE "in-session"
<1>7. VerifyAnswered(p, answer) =
        CASE p.http.aborted /\ void -> Quiet(q)
          [] p.http.aborted -> postVerificationResult(q, req, aborted)
          [] answer = "retry" \/ p.http.oldAuth -> postVerificationResult(q, req, "error")
          [] void -> Quiet(q)
          [] ~isPageOutsideSession(q) -> postVerificationResult(q, req, "in-session")
          [] OTHER -> postVerificationResult(q, req, answer)
  BY DEF VerifyAnswered
<1>8. fetchReplayDetail(p, answer) =
        CASE p.epoch # req.epoch -> Quiet(q)
          [] req.stale \/ ~isPageOutsideSession(q) -> postEmptyReplayResult(q, req)
          [] p.http.aborted -> postVerificationResult(q, req, "retry")
          [] OTHER -> postVerificationResult(q, req, answer)
  BY DEF fetchReplayDetail
<1>9. aborted \in Outcomes
  BY <1>6
<1>10. Answered(p, answer) = IF req.kind = "verify" THEN VerifyAnswered(p, answer) ELSE fetchReplayDetail(p, answer)
  BY DEF Answered
<1> HIDE DEF q, req, void, aborted
<1>11. Handled(q, VerifyAnswered(p, answer))
  BY <1>3, <1>5, <1>6, <1>7, <1>9, Answers
<1>12. Handled(q, fetchReplayDetail(p, answer))
  BY <1>3, <1>5, <1>6, <1>8, Answers
<1> QED BY <1>4, <1>10, <1>11, <1>12 DEF Handled

-----------------------------------------------------------------------------
(* A request has an id of its own.                                         *)

LEMMA IdsAreFinite ==
  ASSUME NEW A, IsFiniteSet(A)
  PROVE  IsFiniteSet({m.id : m \in A}) /\ IsFiniteSet({m.post : m \in A})
<1>1. [m \in A |-> m.id] \in Surjection(A, {m.id : m \in A})
  BY DEF Surjection
<1>2. [m \in A |-> m.post] \in Surjection(A, {m.post : m \in A})
  BY DEF Surjection
<1> QED BY <1>1, <1>2, FS_Surjection

LEMMA FreshId == ASSUME TypeOK PROVE NewId \in Nat
<1> DEFINE sent == {n \in ToSet(toPage) : n.kind # "cancel"}
           waiting == ToSet(page.queue \o page.held)
           posts == {m.post : m \in ToSet(w.ingest)}
           results == {n \in UnderWay : n.type = "result"}
           open == IF page.http.live THEN {page.http.req.id} ELSE {}
           n == Cardinality(RequestIds)
<1>1. IsFiniteSet(sent) /\ IsFiniteSet(waiting)
  <2>1. IsFiniteSet(ToSet(toPage))
    BY SetOfSeq DEF TypeOK, PageMessages
  <2>2. page.queue \in Seq(Requests) /\ page.held \in Seq(Requests)
    BY DEF TypeOK, Pages
  <2>3. page.queue \o page.held \in Seq(Requests)
    BY <2>2
  <2> QED BY <2>1, <2>3, SetOfSeq, FS_Subset
<1>2. IsFiniteSet(results)
  <2>0. w \in Workers /\ link \in Links
    BY DEF TypeOK
  <2>1. w.ingest \in Seq(Items) /\ link.outbox \in Seq(Posts)
    BY <2>0 DEF Workers, Links
  <2>2. IsFiniteSet(posts) /\ IsFiniteSet(ToSet(link.outbox))
    BY <2>1, SetOfSeq, IdsAreFinite
  <2>3. IsFiniteSet(UnderWay)
    BY <2>2, FS_Union DEF UnderWay
  <2> QED BY <2>3, FS_Subset
<1>3. IsFiniteSet(open)
  BY FS_EmptySet, FS_Singleton
<1>4. RequestIds = (({m.id : m \in sent} \cup {r.id : r \in waiting}) \cup open) \cup {m.id : m \in results}
  BY Zenon DEF RequestIds
<1> HIDE DEF sent, waiting, posts, results, open
<1>5. IsFiniteSet({m.id : m \in sent}) /\ IsFiniteSet({r.id : r \in waiting}) /\ IsFiniteSet({m.id : m \in results})
  BY <1>1, <1>2, IdsAreFinite
<1>6. IsFiniteSet(RequestIds)
  BY <1>3, <1>4, <1>5, FS_Union
<1>7. n \in Nat
  BY <1>6, FS_CardinalityType
<1>8. \E i \in 0..n : i \notin RequestIds
  <2> SUFFICES ASSUME 0..n \subseteq RequestIds PROVE FALSE
    OBVIOUS
  <2>1. Cardinality(0..n) <= n
    BY <1>6, FS_Subset
  <2>2. Cardinality(0..n) = n + 1
    BY <1>7, FS_Interval
  <2> QED BY <1>7, <2>1, <2>2
<1> HIDE DEF n
<1>9. NewId \in 0..n
  BY <1>8 DEF NewId, n
<1> QED BY <1>7, <1>9

-----------------------------------------------------------------------------
(* What a step may do without touching the session's or the hands' part of  *)
(* the invariant.                                                          *)

LEMMA SessionStep ==
  ASSUME SessionInv, TokenFits(w'.token), link'.up => link'.outbox = <<>>,
         page'.activity = page.activity, env'.deaf \/ ~env.deaf,
         Opens(link.outbox) => Opens(link'.outbox), Ends(link'.outbox) => Ends(link.outbox),
         Opens(PostsOf(w.ingest)) => Opens(PostsOf(w'.ingest)),
         Ends(PostsOf(w'.ingest)) => Ends(PostsOf(w.ingest)),
         w'.token.activity = "inactive" => w.token.activity = "inactive"
  PROVE  SessionInv'
BY DEF SessionInv, StartIsAhead, Coming, Playing

LEMMA QueueStep ==
  ASSUME QueueInv, env'.hands = env.hands,
         Rising(w'.tasks, "enqueue"), Rising(PostsOf(w'.ingest), "hand"), Rising(link'.outbox, "hand"),
         TaskHands' \subseteq TaskHands, OutboxHands' \subseteq OutboxHands,
         IngestHands' \subseteq IngestHands \cup OutboxHands,
         IngestHands' \subseteq IngestHands \/ OutboxHands' = {},
         Seen' \subseteq Seen, env'.accepted \subseteq env.accepted,
         env'.accepted \cap (db.details \cup env.released) \subseteq db'.details \cup env'.released,
         UNION (SettledSets') \subseteq (UNION SettledSets) \cup db'.details \cup env'.released,
         env'.accepted \cap InQueue \subseteq InQueue' \cup db'.details \cup env'.released
  PROVE  QueueInv'
<1>1. HandsInOrder'
  <2>1. HandsInOrder
    BY DEF QueueInv
  <2>2. /\ Below(Seen, TaskHands \cup IngestHands \cup OutboxHands)'
        /\ Below(TaskHands, IngestHands \cup OutboxHands)' /\ Below(IngestHands, OutboxHands)'
    BY <2>1 DEF HandsInOrder, Below
  <2>3. Below(Seen \cup TaskHands \cup IngestHands \cup OutboxHands, {env.hands + 1})'
    BY <2>1 DEF HandsInOrder, Below
  <2> QED BY <2>2, <2>3 DEF HandsInOrder, Coming
<1>2. SettledIsKept'
  <2> SUFFICES ASSUME NEW X \in SettledSets', NEW h \in X, h \in env'.accepted
               PROVE  h \in db'.details \cup env'.released
    BY DEF SettledIsKept
  <2>1. h \in UNION SettledSets \/ h \in db'.details \cup env'.released
    OBVIOUS
  <2>2. h \in UNION SettledSets => h \in db.details \cup env.released
    BY DEF QueueInv, SettledIsKept
  <2> QED BY <2>1, <2>2
<1>3. QueueLosesNothing'
  BY DEF QueueInv, QueueLosesNothing
<1> QED BY <1>1, <1>2, <1>3 DEF QueueInv

\* What a step on the worker does to the sets of hands.
LEMMA SeenBy ==
  ASSUME w'.tasks = w.tasks, InQueue' \subseteq InQueue,
         ToSet(w'.drain.left) \subseteq Seen, w'.drain.settled \subseteq Seen
  PROVE  Seen' \subseteq Seen /\ TaskHands' = TaskHands
         /\ UNION (SettledSets') \subseteq (UNION SettledSets) \cup w'.drain.settled
<1>1. UNION (SettledSets') \subseteq (UNION SettledSets) \cup w'.drain.settled
  BY DEF SettledSets
<1>2. Seen' \subseteq Seen
  BY <1>1 DEF Seen
<1> QED BY <1>1, <1>2 DEF TaskHands

-----------------------------------------------------------------------------
(* What a post of the page does.                                           *)

LEMMA TypeParts ==
  ASSUME TypeOK
  PROVE  /\ page \in Pages /\ toPage \in PageMessages /\ link \in Links /\ w \in Workers
         /\ w.drain \in Drains /\ w.token \in Tokens /\ w.ingest \in Seq(Items) /\ w.tasks \in Seq(Tasks)
         /\ w.epoch \in Nat /\ w.req \in Pending /\ w.auth \in BOOLEAN
         /\ link.up \in BOOLEAN /\ link.conn \in Nat /\ link.outbox \in Seq(Posts)
         /\ PostsOf(w.ingest) \in Seq(Posts)
         /\ db.queue \in Seq(Nat) /\ db.details \in SUBSET Nat /\ InQueue \in SUBSET Nat
<1>1. /\ page \in Pages /\ toPage \in PageMessages /\ link \in Links /\ w \in Workers
      /\ link.up \in BOOLEAN /\ link.conn \in Nat /\ link.outbox \in Seq(Posts)
      /\ db.queue \in Seq(Nat) /\ db.details \in SUBSET Nat
  BY DEF TypeOK, Links, Databases
<1>2. /\ w.drain \in Drains /\ w.token \in Tokens /\ w.ingest \in Seq(Items) /\ w.tasks \in Seq(Tasks)
      /\ w.epoch \in Nat /\ w.req \in Pending /\ w.auth \in BOOLEAN
  BY <1>1 DEF Workers
<1>3. InQueue \in SUBSET Nat
  BY <1>1, SetOfSeq DEF InQueue
<1> QED BY <1>1, <1>2, <1>3, PostsAreTyped

LEMMA PostedEffect ==
  ASSUME TypeOK, DrainFits(w), NEW posts \in Seq(Posts), Posted(posts)
  PROVE  /\ link' \in Links /\ w' \in Workers /\ DrainFits(w') /\ link'.up = link.up
         /\ w'.token = w.token /\ w'.tasks = w.tasks /\ w'.drain = w.drain
         /\ \/ link' = link /\ w' = w /\ op = "delete" /\ link.up
            \/ link' = link /\ PostsOf(w'.ingest) = PostsOf(w.ingest) \o posts /\ link.up
            \/ w' = w /\ link'.outbox = link.outbox \o posts /\ ~link.up
<1>1. posts # AuthCaptured
  <2>1. posts = AuthCaptured => 1 \in DOMAIN posts /\ posts[1].type = "auth"
    BY DEF AuthCaptured
  <2>2. \A i \in DOMAIN posts : posts[i] \in Posts
    OBVIOUS
  <2>3. \A m \in Posts : m.type # "auth"
    BY DEF Posts, Events, Results
  <2> QED BY <2>1, <2>2, <2>3
<1>2. CASE link.up /\ op = "delete"
  BY <1>2, TypeParts DEF Posted, Deliver
<1>3. CASE link.up /\ op # "delete"
  <2>1. w' = Received(w, link.conn, posts) /\ link' = link
    BY <1>1, <1>3 DEF Posted, Deliver
  <2>2. /\ w' \in Workers /\ PostsOf(w'.ingest) = PostsOf(w.ingest) \o posts /\ link \in Links
        /\ w' = [w EXCEPT !.ingest = w'.ingest]
    BY <2>1, TypeParts, ReceivedPosts
  <2>3. w'.token = w.token /\ w'.tasks = w.tasks /\ w'.drain = w.drain /\ w'.req = w.req
    BY <2>2, TypeParts DEF Workers
  <2> QED BY <1>3, <2>1, <2>2, <2>3 DEF DrainFits
<1>4. CASE ~link.up
  <2>1. w' = w /\ link' = [link EXCEPT !.outbox = link.outbox \o posts]
    BY <1>1, <1>4 DEF Posted
  <2>2. link.outbox \o posts \in Seq(Posts)
    BY TypeParts, ConcatSet
  <2>3. link' \in Links /\ link'.outbox = link.outbox \o posts /\ link'.up = link.up
    BY <2>1, <2>2, TypeParts DEF Links
  <2> QED BY <1>4, <2>1, <2>3, TypeParts
<1> QED BY <1>2, <1>3, <1>4, TypeParts

LEMMA ResultsAreQuiet ==
  ASSUME NEW s \in Seq(Posts), NEW posts \in Seq(Results)
  PROVE  /\ HandsOf(s \o posts, "hand") = HandsOf(s, "hand") /\ posts \in Seq(Posts)
         /\ Rising(s, "hand") => Rising(s \o posts, "hand")
         /\ Opens(s) => Opens(s \o posts)
         /\ Ends(s \o posts) => Ends(s)
<1>0. \A i \in DOMAIN posts : posts[i] \in Results
  OBVIOUS
<1>1. \A i \in DOMAIN posts : posts[i].type = "result" /\ posts[i] \in Posts
  BY <1>0 DEF Results, Posts
<1>2. HandsOf(posts, "hand") = {} /\ Rising(posts, "hand") /\ ~Ends(posts)
  BY <1>1 DEF HandsOf, Rising, Ends
<1>3. posts \in Seq(Posts)
  BY <1>1
<1>4. Below(HandsOf(s, "hand"), HandsOf(posts, "hand"))
  BY <1>2 DEF Below
<1>5. /\ HandsOf(s \o posts, "hand") = HandsOf(s, "hand") \cup HandsOf(posts, "hand")
      /\ Rising(s, "hand") => Rising(s \o posts, "hand")
  BY <1>2, <1>3, <1>4, HandsOfConcat
<1>6. /\ Opens(s) => Opens(s \o posts)
      /\ Ends(s \o posts) => Ends(s)
  BY <1>2, <1>3, OpensConcat
<1> QED BY <1>2, <1>3, <1>5, <1>6

LEMMA QuietlyPosted ==
  ASSUME IInv, NEW posts \in Seq(Results), Posted(posts), page'.activity = page.activity,
         db' = db, env'.deaf = env.deaf, env'.hands = env.hands, env'.accepted = env.accepted,
         env'.released = env.released
  PROVE  link' \in Links /\ w' \in Workers /\ DrainFits(w') /\ SessionInv' /\ QueueInv'
<1>1. TypeOK /\ DrainFits(w) /\ SessionInv /\ QueueInv /\ posts \in Seq(Posts)
  BY ResultsAreQuiet, PostsAreTyped, EmptySeq DEF IInv
<1>2. /\ link' \in Links /\ w' \in Workers /\ DrainFits(w') /\ link'.up = link.up
      /\ w'.token = w.token /\ w'.tasks = w.tasks /\ w'.drain = w.drain
      /\ \/ link' = link /\ w' = w /\ op = "delete" /\ link.up
         \/ link' = link /\ PostsOf(w'.ingest) = PostsOf(w.ingest) \o posts /\ link.up
         \/ w' = w /\ link'.outbox = link.outbox \o posts /\ ~link.up
  BY <1>1, PostedEffect
<1>3. /\ PostsOf(w'.ingest) \in {PostsOf(w.ingest), PostsOf(w.ingest) \o posts}
      /\ link'.outbox \in {link.outbox, link.outbox \o posts}
      /\ link'.up => link'.outbox = link.outbox
  BY <1>2
<1>4. /\ Opens(link.outbox) => Opens(link'.outbox)
      /\ Ends(link'.outbox) => Ends(link.outbox)
      /\ Opens(PostsOf(w.ingest)) => Opens(PostsOf(w'.ingest))
      /\ Ends(PostsOf(w'.ingest)) => Ends(PostsOf(w.ingest))
      /\ HandsOf(PostsOf(w'.ingest), "hand") = HandsOf(PostsOf(w.ingest), "hand")
      /\ HandsOf(link'.outbox, "hand") = HandsOf(link.outbox, "hand")
      /\ Rising(PostsOf(w.ingest), "hand") => Rising(PostsOf(w'.ingest), "hand")
      /\ Rising(link.outbox, "hand") => Rising(link'.outbox, "hand")
  BY <1>1, <1>3, TypeParts, ResultsAreQuiet
<1>5. SessionInv'
  BY <1>1, <1>2, <1>3, <1>4, SessionStep DEF SessionInv
<1>6. /\ Rising(w'.tasks, "enqueue") /\ Rising(PostsOf(w'.ingest), "hand") /\ Rising(link'.outbox, "hand")
  BY <1>1, <1>2, <1>4 DEF QueueInv, HandsInOrder, Coming
<1>7. /\ IngestHands' = IngestHands /\ OutboxHands' = OutboxHands /\ InQueue' = InQueue
  BY <1>4 DEF IngestHands, OutboxHands, Coming, InQueue
<1>8. /\ Seen' \subseteq Seen /\ TaskHands' = TaskHands
      /\ UNION (SettledSets') \subseteq UNION SettledSets
  BY <1>2 DEF Seen, SettledSets, TaskHands, InQueue
<1>9. QueueInv'
  BY <1>1, <1>6, <1>7, <1>8, QueueStep
<1> QED BY <1>2, <1>5, <1>9

-----------------------------------------------------------------------------
(* Steps of the page that post results.                                    *)

LEMMA PageHandled ==
  ASSUME IInv, NEW result, Handled(page, result), PageHandles(result),
         toPage' \in PageMessages, db' = db, op' = op, env' \in Envs, env'.deaf = env.deaf,
         env'.hands = env.hands, env'.accepted = env.accepted, env'.released = env.released
  PROVE  IInv'
<1>1. page' = result.page /\ Posted(result.posts) /\ result.posts \in Seq(Results)
  BY DEF PageHandles, Handled
<1>2. PageFits(page') /\ page'.activity = page.activity
  BY <1>1 DEF Handled
<1>3. link' \in Links /\ w' \in Workers /\ DrainFits(w') /\ SessionInv' /\ QueueInv'
  BY <1>1, <1>2, QuietlyPosted
<1>4. TypeOK'
  BY <1>2, <1>3 DEF IInv, PageFits, TypeOK
<1> QED BY <1>2, <1>3, <1>4 DEF IInv, PageFits

LEMMA Counting ==
  ASSUME TypeOK
  PROVE  /\ Counted \in Envs /\ Counted.deaf = env.deaf /\ Counted.hands = env.hands
         /\ Counted.accepted = env.accepted /\ Counted.released = env.released
         /\ env \in Envs /\ page \in Pages /\ toPage \in PageMessages /\ db \in Databases
<1>1. env \in Envs /\ page \in Pages /\ toPage \in PageMessages /\ db \in Databases
  BY DEF TypeOK
<1>2. env.faults + 1 \in Nat
  BY <1>1 DEF Envs
<1>3. Counted = [env EXCEPT !.faults = env.faults + 1]
  BY DEF Counted
<1> QED BY <1>1, <1>2, <1>3 DEF Envs

LEMMA PageFitsNow == ASSUME IInv PROVE PageFits(page) /\ TypeOK
BY DEF IInv, TypeOK, PageFits

LEMMA PageReceivesStep == ASSUME IInv, PageReceives PROVE IInv'
<1>1. PageFits(page) /\ TypeOK
  BY PageFitsNow
<1>2. toPage # <<>> /\ toPage' = Tail(toPage) /\ PageHandles(onMessage(page, Head(toPage)))
      /\ db' = db /\ op' = op /\ env' = env
  BY DEF PageReceives
<1>3. Head(toPage) \in Requests \cup {[kind |-> "cancel"]} /\ toPage' \in PageMessages
  BY <1>1, <1>2, TailSet DEF TypeOK, PageMessages
<1>4. Handled(page, onMessage(page, Head(toPage)))
  BY <1>1, <1>3, MessageReceived
<1>5. env' \in Envs
  BY <1>1, <1>2, Counting
<1> QED BY <1>2, <1>3, <1>4, <1>5, PageHandled

LEMMA PageTakesRequestStep == ASSUME IInv, PageTakesRequest PROVE IInv'
<1>1. PageFits(page) /\ TypeOK
  BY PageFitsNow
<1>2. page.queue # <<>> /\ PageHandles(replayFetchQueue(page))
      /\ toPage' = toPage /\ db' = db /\ op' = op /\ env' = env
  BY DEF PageTakesRequest
<1>3. Handled(page, replayFetchQueue(page))
  BY <1>1, <1>2, RequestTaken
<1>4. env' \in Envs /\ toPage' \in PageMessages
  BY <1>1, <1>2, Counting
<1> QED BY <1>2, <1>3, <1>4, PageHandled

LEMMA ContentSeesFlagStep == ASSUME IInv, ContentSeesFlag PROVE IInv'
<1>1. PageFits(page) /\ TypeOK
  BY PageFitsNow
<1>2. PageHandles(RefreshConfig(page, db.flag # "off"))
      /\ toPage' = toPage /\ db' = db /\ op' = op /\ env' = env
  BY DEF ContentSeesFlag
<1>3. Handled(page, RefreshConfig(page, db.flag # "off"))
  BY <1>1, ConfigRefreshed
<1>4. env' \in Envs /\ toPage' \in PageMessages
  BY <1>1, <1>2, Counting
<1> QED BY <1>2, <1>3, <1>4, PageHandled

LEMMA HttpEndsStep == ASSUME IInv, HttpEnds PROVE IInv'
<1>1. PageFits(page) /\ TypeOK
  BY PageFitsNow
<1>2. page.http.live /\ toPage' = toPage /\ db' = db /\ op' = op
  BY DEF HttpEnds
<1>3. PICK answer \in Outcomes : PageHandles(Answered(page, answer)) /\ env' \in {env, Counted}
  <2>1. \A req : ServerAnswers(req) \subseteq Outcomes
    BY DEF ServerAnswers, Outcomes
  <2>2. "retry" \in Outcomes
    BY DEF Outcomes
  <2>3. CASE \E answer \in ServerAnswers(page.http.req) : PageHandles(Answered(page, answer)) /\ env' = env
    BY <2>1, <2>3
  <2>4. CASE env' = Counted /\ PageHandles(Answered(page, "retry"))
    BY <2>2, <2>4
  <2> QED BY <2>3, <2>4 DEF HttpEnds
<1>4. Handled(page, Answered(page, answer))
  BY <1>1, <1>2, RequestEnds
<1>5. /\ env' \in Envs /\ toPage' \in PageMessages /\ env'.deaf = env.deaf
      /\ env'.hands = env.hands /\ env'.accepted = env.accepted /\ env'.released = env.released
  BY <1>1, <1>2, <1>3, Counting
<1> QED BY <1>2, <1>3, <1>4, <1>5, PageHandled

\* A change of the worker that leaves the session and the hands alone.
LEMMA WorkerChanged ==
  ASSUME IInv, w' \in Workers, DrainFits(w'), Alike(w', w), PageFits(page'),
         page'.activity = page.activity, toPage' \in PageMessages, link' = link,
         db' \in Databases, db'.queue = db.queue, db'.details = db.details,
         op' \in Operations, env' \in Envs, env'.deaf \/ ~env.deaf,
         env'.hands = env.hands, env'.accepted = env.accepted, env.released \subseteq env'.released
  PROVE  IInv'
<1>1. TypeOK /\ SessionInv /\ QueueInv /\ link \in Links
  BY DEF IInv, TypeOK
<1>2. SessionInv'
  BY <1>1, SessionStep DEF SessionInv, Alike
<1>3. /\ Rising(w'.tasks, "enqueue") /\ Rising(PostsOf(w'.ingest), "hand") /\ Rising(link'.outbox, "hand")
  BY <1>1 DEF QueueInv, HandsInOrder, Coming, Alike
<1>4. /\ IngestHands' = IngestHands /\ OutboxHands' = OutboxHands /\ InQueue' = InQueue
  BY DEF IngestHands, OutboxHands, Coming, InQueue, Alike
<1>5. /\ Seen' \subseteq Seen /\ TaskHands' = TaskHands
      /\ UNION (SettledSets') \subseteq UNION SettledSets
  BY DEF Seen, SettledSets, TaskHands, InQueue, Alike
<1>6. QueueInv'
  BY <1>1, <1>3, <1>4, <1>5, QueueStep
<1>7. TypeOK'
  BY <1>1 DEF TypeOK, PageFits
<1> QED BY <1>2, <1>6, <1>7 DEF IInv, PageFits

LEMMA GameCallsApiStep == ASSUME IInv, GameCallsApi PROVE IInv'
<1>1. PageFits(page) /\ TypeOK /\ DrainFits(w)
  BY PageFitsNow DEF IInv
<1>2. /\ page' = announceAuthCaptured(page).page /\ Posted(announceAuthCaptured(page).posts)
      /\ ~page.auth /\ toPage' = toPage /\ db' = db /\ op' = op /\ env' = env
  BY DEF GameCallsApi, PageHandles
<1>3. PageFits(page') /\ page'.activity = page.activity
  BY <1>1, <1>2, AuthAnnounced
<1>4. Posted(AuthCaptured)
  BY <1>2 DEF announceAuthCaptured
<1> DEFINE x == [w EXCEPT !.auth = TRUE]
<1>5. x \in Workers /\ DrainFits(x) /\ Alike(x, w)
  BY <1>1, TypeParts DEF Workers, DrainFits, Alike
<1>6. link' = link /\ w' \in {w, drainReplayImportQueue(x)}
  <2>1. CASE link.up
    BY <1>4, <2>1 DEF Posted, Deliver
  <2>2. CASE ~link.up
    BY <1>4, <2>2, TypeParts, <1>1 DEF Posted, Links
  <2> QED BY <2>1, <2>2
<1> HIDE DEF x
<1>7. w' \in Workers /\ DrainFits(w') /\ Alike(w', w)
  BY <1>1, <1>5, <1>6, TypeParts, Triggered DEF Alike
<1>8. env' \in Envs /\ toPage' \in PageMessages /\ db' \in Databases /\ op' \in Operations
  BY <1>1, <1>2 DEF TypeOK
<1> QED BY <1>2, <1>3, <1>6, <1>7, <1>8, WorkerChanged

-----------------------------------------------------------------------------
(* Events of the game.                                                     *)

LEMMA OneEvent ==
  ASSUME NEW s \in Seq(Posts), NEW kind \in {"start", "hand", "end"}, NEW hand \in Nat
  PROVE  /\ GameEvent(kind, hand) \in Seq(Posts)
         /\ kind = "start" => Opens(s \o GameEvent(kind, hand))
         /\ kind # "end" => /\ Opens(s) => Opens(s \o GameEvent(kind, hand))
                            /\ Ends(s \o GameEvent(kind, hand)) => Ends(s)
         /\ kind # "hand" => /\ HandsOf(s \o GameEvent(kind, hand), "hand") = HandsOf(s, "hand")
                             /\ Rising(s, "hand") => Rising(s \o GameEvent(kind, hand), "hand")
         /\ kind = "hand" =>
              /\ HandsOf(s \o GameEvent(kind, hand), "hand") = HandsOf(s, "hand") \cup {hand}
              /\ (Rising(s, "hand") /\ Below(HandsOf(s, "hand"), {hand}))
                   => Rising(s \o GameEvent(kind, hand), "hand")
<1> DEFINE t == GameEvent(kind, hand)
<1>1. t \in Seq(Posts) /\ DOMAIN t = {1} /\ t[1].type = kind /\ t[1].hand = hand
  <2>1. [type |-> kind, hand |-> hand] \in Posts
    BY DEF Posts, Events
  <2> QED BY <2>1 DEF GameEvent
<1> HIDE DEF t
<1>2. /\ kind = "start" => Opens(t)
      /\ kind # "end" => ~Ends(t)
  BY <1>1 DEF Opens, Ends
<1>3. /\ kind # "hand" => HandsOf(t, "hand") = {}
      /\ kind = "hand" => HandsOf(t, "hand") = {hand}
      /\ Rising(t, "hand")
  BY <1>1 DEF HandsOf, Rising
<1>4. /\ Opens(t) => Opens(s \o t)
      /\ (Opens(s) /\ ~Ends(t)) => Opens(s \o t)
      /\ Ends(s \o t) => Ends(s) \/ Ends(t)
  BY <1>1, OpensConcat
<1>5. /\ HandsOf(s \o t, "hand") = HandsOf(s, "hand") \cup HandsOf(t, "hand")
      /\ (Rising(s, "hand") /\ Rising(t, "hand") /\ Below(HandsOf(s, "hand"), HandsOf(t, "hand")))
           => Rising(s \o t, "hand")
  BY <1>1, HandsOfConcat
<1>6. kind # "hand" => Below(HandsOf(s, "hand"), HandsOf(t, "hand"))
  BY <1>3 DEF Below
<1>7. /\ kind # "hand" => /\ HandsOf(s \o t, "hand") = HandsOf(s, "hand")
                          /\ Rising(s, "hand") => Rising(s \o t, "hand")
      /\ kind = "hand" => /\ HandsOf(s \o t, "hand") = HandsOf(s, "hand") \cup {hand}
                          /\ (Rising(s, "hand") /\ Below(HandsOf(s, "hand"), {hand})) => Rising(s \o t, "hand")
  BY <1>3, <1>5, <1>6
<1> QED BY <1>1, <1>2, <1>4, <1>7 DEF t

LEMMA BorderPosted ==
  ASSUME IInv, NEW kind \in {"start", "end"}, Posted(GameEvent(kind, 0)), db' = db,
         env'.hands = env.hands, env'.accepted = env.accepted, env'.released = env.released
  PROVE  link' \in Links /\ w' \in Workers /\ DrainFits(w') /\ QueueInv'
<1> DEFINE posts == GameEvent(kind, 0)
<1>1. TypeOK /\ DrainFits(w) /\ QueueInv /\ posts \in Seq(Posts)
  BY OneEvent, EmptySeq DEF IInv
<1>2. /\ link' \in Links /\ w' \in Workers /\ DrainFits(w') /\ link'.up = link.up
      /\ w'.token = w.token /\ w'.tasks = w.tasks /\ w'.drain = w.drain
      /\ \/ link' = link /\ w' = w /\ op = "delete" /\ link.up
         \/ link' = link /\ PostsOf(w'.ingest) = PostsOf(w.ingest) \o posts /\ link.up
         \/ w' = w /\ link'.outbox = link.outbox \o posts /\ ~link.up
  BY <1>1, PostedEffect
<1>3. /\ PostsOf(w'.ingest) \in {PostsOf(w.ingest), PostsOf(w.ingest) \o posts}
      /\ link'.outbox \in {link.outbox, link.outbox \o posts}
  BY <1>2
<1>4. /\ HandsOf(PostsOf(w'.ingest), "hand") = HandsOf(PostsOf(w.ingest), "hand")
      /\ HandsOf(link'.outbox, "hand") = HandsOf(link.outbox, "hand")
      /\ Rising(PostsOf(w.ingest), "hand") => Rising(PostsOf(w'.ingest), "hand")
      /\ Rising(link.outbox, "hand") => Rising(link'.outbox, "hand")
  <2>1. \A s \in Seq(Posts) : /\ HandsOf(s \o posts, "hand") = HandsOf(s, "hand")
                              /\ Rising(s, "hand") => Rising(s \o posts, "hand")
    BY OneEvent
  <2> HIDE DEF posts
  <2> QED BY <1>1, <1>3, <2>1, TypeParts
<1>5. /\ Rising(w'.tasks, "enqueue") /\ Rising(PostsOf(w'.ingest), "hand") /\ Rising(link'.outbox, "hand")
  BY <1>1, <1>2, <1>4 DEF QueueInv, HandsInOrder, Coming
<1>6. /\ IngestHands' = IngestHands /\ OutboxHands' = OutboxHands /\ InQueue' = InQueue
  BY <1>4 DEF IngestHands, OutboxHands, Coming, InQueue
<1>7. /\ Seen' \subseteq Seen /\ TaskHands' = TaskHands
      /\ UNION (SettledSets') \subseteq UNION SettledSets
  BY <1>2 DEF Seen, SettledSets, TaskHands, InQueue
<1>8. QueueInv'
  BY <1>1, <1>5, <1>6, <1>7, QueueStep
<1> QED BY <1>2, <1>8

LEMMA EmptyOutbox == ASSUME NEW type PROVE ~Ends(<<>>) /\ ~Opens(<<>>) /\ HandsOf(<<>>, type) = {}
                                           /\ Rising(<<>>, type)
BY DEF Ends, Opens, HandsOf, Rising

LEMMA SessionStartStep == ASSUME IInv, SessionStart PROVE IInv'
<1>1. TypeOK /\ DrainFits(w) /\ SessionInv /\ page \in Pages /\ env \in Envs
  BY DEF IInv, TypeOK
<1>2. /\ page' = setReplayPageSessionActivity(page, "active") /\ Posted(GameEvent("start", 0))
      /\ env' = [env EXCEPT !.sessions = env.sessions + 1, !.deaf = Deaf("start")]
      /\ toPage' = toPage /\ db' = db /\ op' = op
  BY DEF SessionStart
<1>3. /\ env' \in Envs /\ env'.hands = env.hands /\ env'.accepted = env.accepted
      /\ env'.released = env.released /\ env'.deaf = Deaf("start")
  <2>1. env.sessions + 1 \in Nat /\ Deaf("start") \in BOOLEAN
    BY <1>1 DEF Envs, Deaf
  <2> QED BY <1>1, <1>2, <2>1 DEF Envs
<1>4. PageFits(page') /\ page'.activity = "active"
  BY <1>1, <1>2, ActivitySet DEF Activities
<1>5. link' \in Links /\ w' \in Workers /\ DrainFits(w') /\ QueueInv'
  BY <1>2, <1>3, BorderPosted
<1>6. /\ link'.up = link.up /\ w'.token = w.token
      /\ \/ link' = link /\ w' = w /\ op = "delete" /\ link.up
         \/ link' = link /\ PostsOf(w'.ingest) = PostsOf(w.ingest) \o GameEvent("start", 0) /\ link.up
         \/ w' = w /\ link'.outbox = link.outbox \o GameEvent("start", 0) /\ ~link.up
  BY <1>1, <1>2, PostedEffect, OneEvent, EmptySeq
<1>7. TokenFits(w'.token) /\ (link'.up => link'.outbox = <<>>)
  BY <1>1, <1>6 DEF SessionInv
<1>8. \/ env'.deaf
      \/ Opens(PostsOf(w'.ingest)) /\ ~Ends(link'.outbox)
      \/ Opens(link'.outbox)
  <2>1. CASE link' = link /\ w' = w /\ op = "delete" /\ link.up
    BY <1>3, <2>1 DEF Deaf
  <2>2. CASE link' = link /\ PostsOf(w'.ingest) = PostsOf(w.ingest) \o GameEvent("start", 0) /\ link.up
    <3>1. Opens(PostsOf(w'.ingest))
      BY <1>1, <2>2, TypeParts, OneEvent
    <3>2. ~Ends(link'.outbox)
      BY <1>1, <2>2, EmptyOutbox DEF SessionInv
    <3> QED BY <3>1, <3>2
  <2>3. CASE w' = w /\ link'.outbox = link.outbox \o GameEvent("start", 0) /\ ~link.up
    BY <1>1, <2>3, TypeParts, OneEvent
  <2> QED BY <1>6, <2>1, <2>2, <2>3
<1>9. SessionInv'
  BY <1>7, <1>8 DEF SessionInv, StartIsAhead, Coming
<1>10. TypeOK'
  BY <1>1, <1>2, <1>3, <1>4, <1>5 DEF TypeOK, PageFits
<1> QED BY <1>4, <1>5, <1>9, <1>10 DEF IInv, PageFits

LEMMA SessionEndStep == ASSUME IInv, SessionEnd PROVE IInv'
<1>1. TypeOK /\ DrainFits(w) /\ SessionInv /\ page \in Pages /\ env \in Envs
  BY DEF IInv, TypeOK
<1>2. /\ page' = setReplayPageSessionActivity(page, "inactive") /\ Posted(GameEvent("end", 0))
      /\ env' = [env EXCEPT !.deaf = Deaf("end")]
      /\ toPage' = toPage /\ db' = db /\ op' = op
  BY DEF SessionEnd
<1>3. /\ env' \in Envs /\ env'.hands = env.hands /\ env'.accepted = env.accepted
      /\ env'.released = env.released
  <2>1. Deaf("end") \in BOOLEAN
    BY <1>1 DEF Deaf
  <2> QED BY <1>1, <1>2, <2>1 DEF Envs
<1>4. PageFits(page') /\ page'.activity = "inactive"
  BY <1>1, <1>2, ActivitySet DEF Activities
<1>5. link' \in Links /\ w' \in Workers /\ DrainFits(w') /\ QueueInv'
  BY <1>2, <1>3, BorderPosted
<1>6. link'.up = link.up /\ w'.token = w.token /\ (link.up => link' = link)
  BY <1>1, <1>2, PostedEffect, OneEvent, EmptySeq
<1>7. TokenFits(w'.token) /\ (link'.up => link'.outbox = <<>>)
  BY <1>1, <1>6 DEF SessionInv
<1>8. SessionInv'
  BY <1>4, <1>7 DEF SessionInv, StartIsAhead, Playing
<1>9. TypeOK'
  BY <1>1, <1>2, <1>3, <1>4, <1>5 DEF TypeOK, PageFits
<1> QED BY <1>4, <1>5, <1>8, <1>9 DEF IInv, PageFits

\* A hand is dealt after every hand the worker knows or is told of.
LEMMA HandPlayedStep == ASSUME IInv, HandPlayed PROVE IInv'
<1> DEFINE h == env.hands + 1
           posts == GameEvent("hand", h)
<1>1. TypeOK /\ DrainFits(w) /\ SessionInv /\ QueueInv /\ page \in Pages /\ env \in Envs /\ PageQuiet(page)
  BY DEF IInv, TypeOK
<1>2. /\ Posted(posts) /\ env' = [env EXCEPT !.hands = h]
      /\ page' = page /\ toPage' = toPage /\ db' = db /\ op' = op
  BY DEF HandPlayed
<1>3. h \in Nat /\ env.hands \in Nat
  BY <1>1 DEF Envs
<1>4. /\ env' \in Envs /\ env'.hands = h /\ env'.accepted = env.accepted
      /\ env'.released = env.released /\ env'.deaf = env.deaf
  BY <1>1, <1>2, <1>3 DEF Envs
<1>5. posts \in Seq(Posts) /\ \A s \in Seq(Posts) :
        /\ Opens(s) => Opens(s \o posts)
        /\ Ends(s \o posts) => Ends(s)
        /\ HandsOf(s \o posts, "hand") = HandsOf(s, "hand") \cup {h}
        /\ (Rising(s, "hand") /\ Below(HandsOf(s, "hand"), {h})) => Rising(s \o posts, "hand")
  BY <1>3, OneEvent, EmptySeq
<1> HIDE DEF posts
<1>6. /\ link' \in Links /\ w' \in Workers /\ DrainFits(w') /\ link'.up = link.up
      /\ w'.token = w.token /\ w'.tasks = w.tasks /\ w'.drain = w.drain
      /\ \/ link' = link /\ w' = w /\ op = "delete" /\ link.up
         \/ link' = link /\ PostsOf(w'.ingest) = PostsOf(w.ingest) \o posts /\ link.up
         \/ w' = w /\ link'.outbox = link.outbox \o posts /\ ~link.up
  BY <1>1, <1>2, <1>5, PostedEffect
<1>7. PostsOf(w.ingest) \in Seq(Posts) /\ link.outbox \in Seq(Posts)
  BY <1>1, TypeParts
<1>8. /\ Opens(link.outbox) => Opens(link'.outbox)
      /\ Ends(link'.outbox) => Ends(link.outbox)
      /\ Opens(PostsOf(w.ingest)) => Opens(PostsOf(w'.ingest))
      /\ Ends(PostsOf(w'.ingest)) => Ends(PostsOf(w.ingest))
      /\ link'.up => link'.outbox = link.outbox
  BY <1>5, <1>6, <1>7
<1>9. SessionInv'
  BY <1>1, <1>2, <1>4, <1>6, <1>8, SessionStep DEF SessionInv
<1>10. /\ Rising(w.tasks, "enqueue") /\ Rising(PostsOf(w.ingest), "hand") /\ Rising(link.outbox, "hand")
       /\ Below(Seen, TaskHands \cup IngestHands \cup OutboxHands)
       /\ Below(TaskHands, IngestHands \cup OutboxHands) /\ Below(IngestHands, OutboxHands)
       /\ Below(Seen, {h}) /\ Below(TaskHands, {h}) /\ Below(IngestHands, {h}) /\ Below(OutboxHands, {h})
       /\ SettledIsKept /\ QueueLosesNothing
  BY <1>1 DEF QueueInv, HandsInOrder, Below, Coming
<1>11. /\ Seen' = Seen /\ TaskHands' = TaskHands /\ Seen \subseteq Nat /\ TaskHands \subseteq Nat
       /\ SettledSets' = SettledSets /\ InQueue' = InQueue
  <2>1. w.drain \in Drains /\ w.tasks \in Seq(Tasks) /\ InQueue \subseteq Nat
    BY <1>1, TypeParts
  <2>2. ToSet(w.drain.left) \subseteq Nat /\ w.drain.settled \subseteq Nat
    BY <2>1, SetOfSeq DEF Drains
  <2>3. ToSet(w.tasks) \subseteq Tasks
    BY <2>1, SetOfSeq
  <2>4. UNION SettledSets \subseteq Nat
    BY <2>2, <2>3 DEF SettledSets, Tasks
  <2>5. \A i \in DOMAIN w.tasks : w.tasks[i] \in Tasks
    BY <2>1
  <2>6. TaskHands \subseteq Nat
    BY <2>5 DEF TaskHands, HandsOf, Tasks
  <2> QED BY <1>2, <1>6, <2>1, <2>2, <2>4, <2>6 DEF Seen, SettledSets, TaskHands, InQueue
<1>12. \A s \in Seq(Posts) : HandsOf(s, "hand") \subseteq Nat
  <2>1. ASSUME NEW s \in Seq(Posts) PROVE \A i \in DOMAIN s : s[i] \in Posts
    OBVIOUS
  <2> QED BY <2>1 DEF HandsOf, Posts, Events, Results
<1>13. /\ IngestHands' \subseteq IngestHands \cup {h} /\ OutboxHands' \subseteq OutboxHands \cup {h}
       /\ Rising(PostsOf(w'.ingest), "hand") /\ Rising(link'.outbox, "hand")
       /\ Below(IngestHands', OutboxHands')
  <2>1. CASE link' = link /\ w' = w
    BY <1>10, <2>1 DEF IngestHands, OutboxHands, Coming
  <2>2. CASE link' = link /\ PostsOf(w'.ingest) = PostsOf(w.ingest) \o posts /\ link.up
    <3>1. OutboxHands' = {} /\ IngestHands' = IngestHands \cup {h}
      BY <1>1, <1>5, <1>7, <2>2, EmptyOutbox DEF IngestHands, OutboxHands, Coming, SessionInv
    <3>2. Rising(PostsOf(w'.ingest), "hand")
      BY <1>5, <1>7, <1>10, <2>2 DEF IngestHands, Coming
    <3> QED BY <1>10, <2>2, <3>1, <3>2 DEF Below
  <2>3. CASE w' = w /\ link'.outbox = link.outbox \o posts
    <3>1. OutboxHands' = OutboxHands \cup {h} /\ IngestHands' = IngestHands
      BY <1>5, <1>7, <2>3 DEF IngestHands, OutboxHands, Coming
    <3>2. Rising(link'.outbox, "hand")
      BY <1>5, <1>7, <1>10, <2>3 DEF OutboxHands
    <3> QED BY <1>10, <2>3, <3>1, <3>2 DEF Below
  <2> QED BY <1>6, <2>1, <2>2, <2>3
<1>14. IngestHands \subseteq Nat /\ OutboxHands \subseteq Nat
  BY <1>7, <1>12 DEF IngestHands, OutboxHands, Coming
<1>15. HandsInOrder'
  <2>1. /\ Below(Seen', TaskHands' \cup IngestHands' \cup OutboxHands')
        /\ Below(TaskHands', IngestHands' \cup OutboxHands')
    BY <1>10, <1>11, <1>13 DEF Below
  <2>2. \A k \in Seen \cup TaskHands \cup IngestHands \cup OutboxHands : k \in Nat /\ k < h
    BY <1>10, <1>11, <1>14 DEF Below
  <2>3. \A k \in Seen' \cup TaskHands' \cup IngestHands' \cup OutboxHands' : k \in Nat /\ k <= h
    BY <1>3, <1>11, <1>13, <2>2
  <2>4. Below(Seen' \cup TaskHands' \cup IngestHands' \cup OutboxHands', {env'.hands + 1})
    BY <1>3, <1>4, <2>3 DEF Below
  <2> QED BY <1>6, <1>10, <1>13, <2>1, <2>4 DEF HandsInOrder, Coming
<1>16. QueueInv'
  BY <1>2, <1>4, <1>10, <1>11, <1>15 DEF QueueInv, SettledIsKept, QueueLosesNothing
<1>17. TypeOK'
  BY <1>1, <1>2, <1>4, <1>6 DEF TypeOK
<1> QED BY <1>1, <1>2, <1>6, <1>9, <1>16, <1>17 DEF IInv

-----------------------------------------------------------------------------
(* The port.                                                               *)

\* A change of the worker's token, or of the port, that hides no start and claims no session over.
LEMMA PortChanged ==
  ASSUME IInv, w' \in Workers, DrainFits(w'), w'.ingest = w.ingest, w'.tasks = w.tasks,
         w'.drain.settled = w.drain.settled, w'.drain.left = w.drain.left, TokenFits(w'.token),
         w'.token.activity = "inactive" => w.token.activity = "inactive",
         PageFits(page'), page'.activity = page.activity, toPage' \in PageMessages,
         link' \in Links, link'.outbox = link.outbox, link'.up => link.up,
         db' = db, op' = op, env' \in Envs, env'.deaf \/ ~env.deaf,
         env'.hands = env.hands, env'.accepted = env.accepted, env.released = env'.released
  PROVE  IInv'
<1>1. TypeOK /\ SessionInv /\ QueueInv
  BY DEF IInv
<1>2. SessionInv'
  BY <1>1, SessionStep DEF SessionInv
<1>3. /\ Rising(w'.tasks, "enqueue") /\ Rising(PostsOf(w'.ingest), "hand") /\ Rising(link'.outbox, "hand")
  BY <1>1 DEF QueueInv, HandsInOrder, Coming
<1>4. /\ IngestHands' = IngestHands /\ OutboxHands' = OutboxHands /\ InQueue' = InQueue
  BY DEF IngestHands, OutboxHands, Coming, InQueue
<1>5. /\ Seen' \subseteq Seen /\ TaskHands' = TaskHands
      /\ UNION (SettledSets') \subseteq UNION SettledSets
  BY DEF Seen, SettledSets, TaskHands, InQueue
<1>6. QueueInv'
  BY <1>1, <1>3, <1>4, <1>5, QueueStep
<1>7. TypeOK'
  BY <1>1 DEF TypeOK, PageFits
<1> QED BY <1>2, <1>6, <1>7 DEF IInv, PageFits

LEMMA DisconnectStep == ASSUME IInv, Disconnect PROVE IInv'
<1>1. TypeOK /\ DrainFits(w) /\ SessionInv /\ page \in Pages
  BY DEF IInv, TypeOK
<1> DEFINE y == releaseActivePort(w)
           x == [y EXCEPT !.auth = FALSE]
<1>2. /\ link' = [link EXCEPT !.up = FALSE] /\ toPage' = <<>> /\ page' = postReplayCancel(page)
      /\ w' = releaseReplayRequests(x, "error") /\ env' = Counted /\ db' = db /\ op' = op
  BY DEF Disconnect
<1>3. /\ y \in Workers /\ y.ingest = w.ingest /\ y.tasks = w.tasks /\ y.drain = w.drain /\ y.req = w.req
      /\ TokenFits(y.token) /\ y.token.activity = w.token.activity
  <2> DEFINE t == [w.token EXCEPT !.place = "candidate"]
  <2>1. w.token \in Tokens
    BY <1>1, TypeParts
  <2>2. t \in Tokens /\ t.place = "candidate" /\ t.activity = w.token.activity
    BY <2>1 DEF Tokens
  <2>3. y = w \/ y = [w EXCEPT !.token = t]
    BY <1>1, <2>1, TypeParts DEF releaseActivePort, Workers, Tokens
  <2> HIDE DEF t, y
  <2>4. CASE y = w
    BY <1>1, <2>4, TypeParts DEF SessionInv
  <2>5. CASE y = [w EXCEPT !.token = t]
    <3>1. y \in Workers /\ y.ingest = w.ingest /\ y.tasks = w.tasks /\ y.drain = w.drain /\ y.req = w.req
          /\ y.token = t
      BY <1>1, <2>2, <2>5, TypeParts DEF Workers
    <3> QED BY <2>2, <3>1 DEF TokenFits
  <2> QED BY <2>3, <2>4, <2>5
<1> HIDE DEF y
<1>4. /\ x \in Workers /\ x.ingest = w.ingest /\ x.tasks = w.tasks /\ x.drain = w.drain /\ x.req = w.req
      /\ x.token = y.token
  BY <1>3 DEF Workers
<1>5. DrainFits(x)
  BY <1>1, <1>4 DEF DrainFits
<1> HIDE DEF x
<1>6. w' \in Workers /\ DrainFits(w') /\ Alike(w', x)
  BY <1>2, <1>4, <1>5, RequestsReleased DEF Outcomes
<1>7. PageFits(page') /\ page'.activity = page.activity
  BY <1>1, <1>2, CancelPosted
<1>8. link' \in Links /\ link'.outbox = link.outbox /\ ~link'.up
  BY <1>1, <1>2, TypeParts DEF Links
<1>9. /\ env' \in Envs /\ env'.deaf = env.deaf /\ env'.hands = env.hands
      /\ env'.accepted = env.accepted /\ env'.released = env.released
  BY <1>1, <1>2, Counting
<1>10. toPage' \in PageMessages
  BY <1>2 DEF PageMessages
<1>11. /\ w'.ingest = w.ingest /\ w'.tasks = w.tasks /\ TokenFits(w'.token)
       /\ w'.drain.settled = w.drain.settled /\ w'.drain.left = w.drain.left
       /\ w'.token.activity = w.token.activity
  BY <1>3, <1>4, <1>6 DEF Alike
<1> QED BY <1>2, <1>6, <1>7, <1>8, <1>9, <1>10, <1>11, PortChanged

LEMMA WorkerStopsStep == ASSUME IInv, WorkerStops PROVE IInv'
<1>1. TypeOK /\ DrainFits(w) /\ SessionInv /\ QueueInv /\ page \in Pages /\ PageFits(page) /\ db \in Databases
  BY DEF IInv, TypeOK, PageFits
<1>2. /\ link' = [link EXCEPT !.up = FALSE] /\ toPage' = <<>> /\ op' = "idle"
      /\ page' = IF link.up THEN postReplayCancel(page) ELSE page
      /\ w' = NewWorker(w.epoch + 1) /\ env' = Counted /\ db' = db
  BY DEF WorkerStops
<1>3. /\ w' \in Workers /\ DrainFits(w') /\ w'.ingest = <<>> /\ w'.tasks = <<>> /\ w'.token = NoToken
      /\ w'.drain.settled = {} /\ w'.drain.left = <<>>
  <2>1. w.epoch + 1 \in Nat
    BY <1>1, TypeParts
  <2> QED BY <1>2, <2>1, FreshWorker
<1>4. PageFits(page') /\ page'.activity = page.activity
  BY <1>1, <1>2, CancelPosted
<1>5. link' \in Links /\ link'.outbox = link.outbox /\ ~link'.up
  BY <1>1, <1>2, TypeParts DEF Links
<1>6. /\ env' \in Envs /\ env'.deaf = env.deaf /\ env'.hands = env.hands
      /\ env'.accepted = env.accepted /\ env'.released = env.released
  BY <1>1, <1>2, Counting
<1>7. PostsOf(w'.ingest) = <<>>
  BY <1>3 DEF PostsOf
<1>8. SessionInv'
  <2>1. TokenFits(w'.token) /\ w'.token.activity # "inactive"
    BY <1>3 DEF TokenFits, NoToken
  <2>2. Playing /\ ~env.deaf => Opens(link.outbox) \/ ~Ends(link.outbox)
    BY <1>1 DEF SessionInv, StartIsAhead
  <2>3. ~Ends(PostsOf(w'.ingest))
    BY <1>7, EmptyOutbox
  <2> QED BY <1>4, <1>5, <1>6, <2>1, <2>2, <2>3 DEF SessionInv, StartIsAhead, Playing, Coming
<1>9. QueueInv'
  <2>1. /\ IngestHands' = {} /\ OutboxHands' = OutboxHands /\ InQueue' = InQueue /\ TaskHands' = {}
        /\ Rising(w'.tasks, "enqueue") /\ Rising(PostsOf(w'.ingest), "hand") /\ Rising(link'.outbox, "hand")
    <3>1. /\ IngestHands' = HandsOf(PostsOf(w'.ingest), "hand") /\ TaskHands' = HandsOf(w'.tasks, "enqueue")
          /\ OutboxHands' = HandsOf(link'.outbox, "hand")
      BY DEF IngestHands, TaskHands, OutboxHands, Coming
    <3>2. Rising(link.outbox, "hand")
      BY <1>1 DEF QueueInv, HandsInOrder
    <3> QED BY <1>2, <1>3, <1>5, <1>7, <3>1, <3>2, EmptyOutbox DEF InQueue, OutboxHands
  <2>2. SettledSets' = {{}} /\ Seen' = InQueue
    <3>1. ToSet(<<>>) = {}
      BY SetOfSeq, EmptySeq
    <3>2. SettledSets' = {{}}
      BY <1>3, <3>1 DEF SettledSets
    <3> QED BY <1>2, <1>3, <3>1, <3>2 DEF Seen, InQueue
  <2>3. Seen' \subseteq Seen /\ UNION (SettledSets') = {}
    BY <2>2 DEF Seen
  <2> QED BY <1>1, <1>2, <1>6, <2>1, <2>3, QueueStep
<1>10. TypeOK'
  <2>1. toPage' \in PageMessages
    BY <1>2 DEF PageMessages
  <2> QED BY <1>1, <1>2, <1>3, <1>4, <1>5, <1>6, <2>1 DEF TypeOK, PageFits, Operations
<1> QED BY <1>3, <1>4, <1>8, <1>9, <1>10 DEF IInv, PageFits

LEMMA ConnectedEffect ==
  ASSUME TypeOK, NEW x \in Workers, DrainFits(x)
  PROVE  /\ Connected(x) \in Workers /\ DrainFits(Connected(x))
         /\ Connected(x).token = x.token /\ Connected(x).tasks = x.tasks
         /\ Connected(x).drain.settled = x.drain.settled /\ Connected(x).drain.left = x.drain.left
         /\ op = "delete" => PostsOf(Connected(x).ingest) = PostsOf(x.ingest)
         /\ op # "delete" => PostsOf(Connected(x).ingest) = PostsOf(x.ingest) \o link.outbox
<1> DEFINE y == drainReplayImportQueue(x)
           a == [y EXCEPT !.auth = TRUE]
           z == IF op # "delete" /\ page.enabled /\ page.auth THEN drainReplayImportQueue(a) ELSE y
           c == Received(z, link.conn + 1, link.outbox)
<1>1. y \in Workers /\ DrainFits(y) /\ Alike(y, x)
  BY Triggered
<1>2. Connected(x) = IF op = "delete" THEN z ELSE c
  BY DEF Connected
<1> HIDE DEF y
<1>3. a \in Workers /\ DrainFits(a) /\ Alike(a, x)
  BY <1>1 DEF Workers, DrainFits, Alike
<1> HIDE DEF a
<1>4. z \in Workers /\ DrainFits(z) /\ Alike(z, x)
  BY <1>1, <1>3, Triggered DEF Alike
<1> HIDE DEF z
<1>5. link.conn + 1 \in Nat /\ link.outbox \in Seq(Posts)
  BY TypeParts
<1>6. /\ c \in Workers /\ PostsOf(c.ingest) = PostsOf(z.ingest) \o link.outbox
      /\ c = [z EXCEPT !.ingest = c.ingest]
  BY <1>4, <1>5, ReceivedPosts
<1> HIDE DEF c
<1>7. c.token = z.token /\ c.tasks = z.tasks /\ c.drain = z.drain /\ c.req = z.req
  BY <1>4, <1>6 DEF Workers
<1>8. DrainFits(c)
  BY <1>4, <1>7 DEF DrainFits
<1> QED BY <1>2, <1>4, <1>6, <1>7, <1>8 DEF Alike

LEMMA ReconnectStep == ASSUME IInv, Reconnect PROVE IInv'
<1>1. TypeOK /\ DrainFits(w) /\ SessionInv /\ QueueInv /\ PageFits(page) /\ env \in Envs
  BY DEF IInv, TypeOK, PageFits
<1> DEFINE deaf == env.deaf \/ (op = "delete" /\ \E m \in ToSet(link.outbox) : m.type = "start")
<1>2. /\ link' = [up |-> TRUE, conn |-> link.conn + 1, outbox |-> <<>>]
      /\ page' = page /\ toPage' = toPage /\ db' = db /\ op' = op
  BY DEF Reconnect
<1>3. PICK x \in {w, Reconnected(w)} : w' = Connected(x)
  BY DEF Reconnect
<1>4. env' = [env EXCEPT !.deaf = deaf] \/ env' = [Counted EXCEPT !.deaf = deaf]
  BY DEF Reconnect
<1>5. /\ env' \in Envs /\ env'.deaf = deaf /\ env'.hands = env.hands
      /\ env'.accepted = env.accepted /\ env'.released = env.released
  <2>1. deaf \in BOOLEAN
    BY <1>1 DEF Envs
  <2> HIDE DEF deaf
  <2>2. Counted \in Envs /\ Counted.hands = env.hands
        /\ Counted.accepted = env.accepted /\ Counted.released = env.released
    BY <1>1, Counting
  <2> QED BY <1>1, <1>4, <2>1, <2>2 DEF Envs
<1>6. /\ x \in Workers /\ DrainFits(x) /\ x.ingest = w.ingest /\ x.tasks = w.tasks /\ x.drain = w.drain
      /\ TokenFits(x.token) /\ x.token.activity = w.token.activity
  <2> DEFINE t == [w.token EXCEPT !.place = "port", !.conn = link.conn + 1, !.conns = @ \cup {link.conn + 1}]
             r == [w EXCEPT !.token = t]
  <2>1. w.token \in Tokens /\ link.conn + 1 \in Nat /\ w.token.conns \cup {link.conn + 1} \in SUBSET Nat
    BY <1>1, TypeParts DEF Tokens
  <2>2. t \in Tokens /\ t.place = "port" /\ t.activity = w.token.activity
    BY <2>1 DEF Tokens
  <2>3. x = w \/ x = r
    BY <1>1, <1>3, <2>1, TypeParts DEF Reconnected, Workers, Tokens
  <2> HIDE DEF t
  <2>4. /\ r \in Workers /\ r.ingest = w.ingest /\ r.tasks = w.tasks /\ r.drain = w.drain /\ r.req = w.req
        /\ r.token = t
    BY <1>1, <2>2, TypeParts DEF Workers
  <2> HIDE DEF r
  <2>5. CASE x = w
    BY <1>1, <2>5, TypeParts DEF SessionInv
  <2>6. CASE x = r
    BY <1>1, <2>2, <2>4, <2>6 DEF TokenFits, DrainFits
  <2> QED BY <2>3, <2>5, <2>6
<1>7. /\ w' \in Workers /\ DrainFits(w') /\ w'.token = x.token /\ w'.tasks = w.tasks
      /\ w'.drain.settled = w.drain.settled /\ w'.drain.left = w.drain.left
      /\ op = "delete" => PostsOf(w'.ingest) = PostsOf(w.ingest)
      /\ op # "delete" => PostsOf(w'.ingest) = PostsOf(w.ingest) \o link.outbox
  BY <1>1, <1>3, <1>6, ConnectedEffect
<1>8. link' \in Links /\ link'.outbox = <<>>
  <2>1. link.conn + 1 \in Nat /\ <<>> \in Seq(Posts)
    BY <1>1, TypeParts
  <2> QED BY <1>2, <2>1 DEF Links
<1> DEFINE s == PostsOf(w.ingest)
           o == link.outbox
<1>9. s \in Seq(Posts) /\ o \in Seq(Posts)
  BY <1>1, TypeParts
<1>10. SessionInv'
  <2>1. TokenFits(w'.token)
    BY <1>6, <1>7
  <2>2. StartIsAhead'
    <3> SUFFICES ASSUME Playing, ~deaf
                 PROVE  \/ Opens(PostsOf(w'.ingest))
                        \/ ~Ends(PostsOf(w'.ingest)) /\ w'.token.activity # "inactive"
      BY <1>2, <1>5, <1>8, EmptyOutbox DEF StartIsAhead, Coming, Playing
    <3>1. \/ Opens(o)
          \/ Opens(s) /\ ~Ends(o)
          \/ ~Ends(s) /\ ~Ends(o) /\ w.token.activity # "inactive"
      BY <1>1 DEF SessionInv, StartIsAhead, Coming
    <3>2. CASE op = "delete"
      <4>1. ~Opens(o)
        BY <3>2 DEF Opens, ToSet
      <4> QED BY <1>6, <1>7, <3>1, <3>2, <4>1
    <3>3. CASE op # "delete"
      <4>1. /\ Opens(o) => Opens(s \o o)
            /\ (Opens(s) /\ ~Ends(o)) => Opens(s \o o)
            /\ Ends(s \o o) => Ends(s) \/ Ends(o)
        BY <1>9, OpensConcat
      <4> QED BY <1>6, <1>7, <3>1, <3>3, <4>1
    <3> QED BY <3>2, <3>3
  <2> QED BY <1>8, <2>1, <2>2 DEF SessionInv
<1>11. QueueInv'
  <2>1. /\ Rising(w.tasks, "enqueue") /\ Rising(s, "hand") /\ Rising(o, "hand")
        /\ Below(HandsOf(s, "hand"), HandsOf(o, "hand"))
    BY <1>1 DEF QueueInv, HandsInOrder, Coming, IngestHands, OutboxHands
  <2>2. /\ HandsOf(s \o o, "hand") = HandsOf(s, "hand") \cup HandsOf(o, "hand")
        /\ Rising(s \o o, "hand")
    BY <1>9, <2>1, HandsOfConcat
  <2>3. /\ IngestHands' = HandsOf(PostsOf(w'.ingest), "hand") /\ TaskHands' = HandsOf(w'.tasks, "enqueue")
        /\ OutboxHands' = HandsOf(link'.outbox, "hand") /\ IngestHands = HandsOf(s, "hand")
        /\ OutboxHands = HandsOf(o, "hand") /\ TaskHands = HandsOf(w.tasks, "enqueue")
    BY DEF IngestHands, TaskHands, OutboxHands, Coming
  <2>4. /\ IngestHands' \subseteq IngestHands \cup OutboxHands /\ OutboxHands' = {} /\ TaskHands' = TaskHands
        /\ Rising(w'.tasks, "enqueue") /\ Rising(PostsOf(w'.ingest), "hand") /\ Rising(link'.outbox, "hand")
    BY <1>7, <1>8, <2>1, <2>2, <2>3, EmptyOutbox
  <2>5. Seen' = Seen /\ SettledSets' = SettledSets /\ InQueue' = InQueue
    BY <1>2, <1>7 DEF Seen, SettledSets, InQueue
  <2> QED BY <1>1, <1>2, <1>5, <2>4, <2>5, QueueStep
<1>12. TypeOK'
  BY <1>1, <1>2, <1>5, <1>7, <1>8 DEF TypeOK
<1> QED BY <1>1, <1>2, <1>7, <1>10, <1>11, <1>12 DEF IInv, PageFits

-----------------------------------------------------------------------------
(* The ingestion queue.                                                    *)

OnlyToken(y, x) ==
  y.ingest = x.ingest /\ y.tasks = x.tasks /\ y.drain = x.drain /\ y.req = x.req /\ y.epoch = x.epoch

LEMMA TokenSet ==
  ASSUME NEW x \in Workers, NEW token \in Tokens
  PROVE  /\ [x EXCEPT !.token = token] \in Workers /\ [x EXCEPT !.token = token].token = token
         /\ OnlyToken([x EXCEPT !.token = token], x)
BY DEF Workers, OnlyToken

LEMMA PortClaimed ==
  ASSUME TypeOK, NEW x \in Workers, TokenFits(x.token), NEW conn \in Nat
  PROVE  /\ claimActivePort(x, conn) \in Workers /\ OnlyToken(claimActivePort(x, conn), x)
         /\ TokenFits(claimActivePort(x, conn).token) /\ claimActivePort(x, conn).token.place # "none"
         /\ claimActivePort(x, conn).token.activity = "inactive" => x.token.activity = "inactive"
<1> DEFINE at == IF link.up THEN link.conn ELSE conn
           t == [place |-> "port", conns |-> {conn, at}, conn |-> at, activity |-> "unknown", known |-> FALSE]
           y == [x EXCEPT !.token = t]
<1>1. claimActivePort(x, conn) = IF conn \in x.token.conns THEN x ELSE y
  BY DEF claimActivePort
<1>2. at \in Nat
  BY TypeParts
<1>3. t \in Tokens
  BY <1>2 DEF Tokens, Activities
<1>4. t.place = "port" /\ t.activity = "unknown"
  OBVIOUS
<1> HIDE DEF t
<1>5. y \in Workers /\ OnlyToken(y, x) /\ y.token = t
  BY <1>3, TokenSet
<1> HIDE DEF y
<1>6. CASE conn \in x.token.conns
  BY <1>1, <1>6 DEF TokenFits, OnlyToken
<1>7. CASE conn \notin x.token.conns
  BY <1>1, <1>4, <1>5, <1>7 DEF TokenFits
<1> QED BY <1>6, <1>7

LEMMA ActivityMarked ==
  ASSUME NEW x \in Workers, TokenFits(x.token)
  PROVE  /\ MarkActive(x) \in Workers /\ OnlyToken(MarkActive(x), x) /\ TokenFits(MarkActive(x).token)
         /\ MarkActive(x).token.activity # "inactive"
<1> DEFINE t == [x.token EXCEPT !.activity = "active"]
           y == [x EXCEPT !.token = t]
<1>1. x.token \in Tokens
  BY DEF Workers
<1>2. t \in Tokens /\ t.activity = "active" /\ t.place = x.token.place
  BY <1>1 DEF Tokens, Activities
<1>3. MarkActive(x) = IF x.token.place = "none" THEN x ELSE y
  BY <1>1 DEF MarkActive, Workers, Tokens
<1> HIDE DEF t
<1>4. y \in Workers /\ OnlyToken(y, x) /\ y.token = t
  BY <1>2, TokenSet
<1> HIDE DEF y
<1> QED BY <1>2, <1>3, <1>4 DEF TokenFits, OnlyToken

LEMMA SessionStartTaken ==
  ASSUME TypeOK, NEW x \in Workers, DrainFits(x), cancelReplayRequestsForSessionStart(x)
  PROVE  w' \in Workers /\ DrainFits(w') /\ Alike(w', x) /\ toPage' \in PageMessages
<1>1. w' = releaseReplayRequests(x, "in-session") /\ "in-session" \in Outcomes
  BY DEF cancelReplayRequestsForSessionStart, Outcomes
<1>2. w' \in Workers /\ DrainFits(w') /\ Alike(w', x)
  BY <1>1, RequestsReleased
<1>3. toPage' \in {toPage, Append(toPage, [kind |-> "cancel"])}
  BY DEF cancelReplayRequestsForSessionStart
<1>4. toPage \in PageMessages /\ Append(toPage, [kind |-> "cancel"]) \in PageMessages
  BY TypeParts DEF PageMessages
<1> QED BY <1>2, <1>3, <1>4

LEMMA SessionIngest ==
  ASSUME IInv, w.ingest # <<>>, PostsOf(w'.ingest) = Tail(PostsOf(w.ingest)), link' = link, page' = page,
         env'.deaf \/ ~env.deaf, TokenFits(w'.token),
         Head(w.ingest).post.type = "start" => w'.token.activity # "inactive",
         Head(w.ingest).post.type \in {"start", "end"} \/ w'.token.activity # "inactive"
           \/ w.token.activity = "inactive"
  PROVE  SessionInv'
<1> DEFINE s == PostsOf(w.ingest)
           t == Tail(s)
           type == Head(w.ingest).post.type
<1>1. TypeOK /\ SessionInv
  BY DEF IInv
<1>2. s \in Seq(Posts) /\ s # <<>> /\ Head(s).type = type
  BY <1>1, TypeParts, PostsOfTail
<1>3. /\ Opens(s) => Opens(t) \/ (type = "start" /\ ~Ends(t))
      /\ Ends(t) => Ends(s)
      /\ type = "end" => Ends(s)
  <2>1. /\ Opens(s) => Opens(Tail(s)) \/ (Head(s).type = "start" /\ ~Ends(Tail(s)))
        /\ Ends(Tail(s)) => Ends(s)
        /\ Head(s).type = "end" => Ends(s)
    BY <1>2, OpensTail
  <2> QED BY <1>2, <2>1
<1> HIDE DEF s, t, type
<1>4. PostsOf(w'.ingest) = t /\ PostsOf(w.ingest) = s
  BY DEF s, t
<1>5. StartIsAhead'
  <2> SUFFICES ASSUME Playing, ~env.deaf
               PROVE  \/ Opens(link.outbox)
                      \/ Opens(t) /\ ~Ends(link.outbox)
                      \/ ~Ends(t) /\ ~Ends(link.outbox) /\ w'.token.activity # "inactive"
    BY <1>4 DEF StartIsAhead, Playing, Coming
  <2>1. \/ Opens(link.outbox)
        \/ Opens(s) /\ ~Ends(link.outbox)
        \/ ~Ends(s) /\ ~Ends(link.outbox) /\ w.token.activity # "inactive"
    BY <1>1, <1>4 DEF SessionInv, StartIsAhead, Coming
  <2> QED BY <1>3, <2>1 DEF type
<1> QED BY <1>1, <1>5 DEF SessionInv

LEMMA IngestTaken ==
  ASSUME IInv, w.ingest # <<>>, NEW x, x = [w EXCEPT !.ingest = Tail(@)]
  PROVE  /\ x \in Workers /\ DrainFits(x) /\ x.token = w.token /\ x.tasks = w.tasks /\ x.drain = w.drain
         /\ TokenFits(x.token) /\ x.req = w.req /\ x.epoch = w.epoch
         /\ PostsOf(x.ingest) = Tail(PostsOf(w.ingest))
         /\ Head(w.ingest).conn \in Nat /\ Head(w.ingest).post \in Posts
<1>1. TypeOK /\ DrainFits(w) /\ SessionInv
  BY DEF IInv
<1>2. w.ingest \in Seq(Items)
  BY <1>1, TypeParts
<1>3. Head(w.ingest) \in Items /\ Tail(w.ingest) \in Seq(Items)
  BY <1>2
<1>4. /\ x \in Workers /\ x.token = w.token /\ x.tasks = w.tasks /\ x.drain = w.drain /\ x.req = w.req
      /\ x.ingest = Tail(w.ingest) /\ x.epoch = w.epoch
  BY <1>1, <1>3, TypeParts DEF Workers
<1>5. DrainFits(x) /\ TokenFits(x.token)
  BY <1>1, <1>4 DEF DrainFits, SessionInv
<1>6. PostsOf(x.ingest) = Tail(PostsOf(w.ingest))
  BY <1>2, <1>4, PostsOfTail
<1> QED BY <1>3, <1>4, <1>5, <1>6 DEF Items

\* An item of the ingestion queue is taken and makes no task.
LEMMA QueueIngest ==
  ASSUME IInv, w.ingest # <<>>, PostsOf(w'.ingest) = Tail(PostsOf(w.ingest)), link' = link, db' = db,
         w'.tasks = w.tasks, w'.drain.settled = w.drain.settled, w'.drain.left = w.drain.left,
         env'.hands = env.hands, env'.accepted = env.accepted, env'.released = env.released
  PROVE  QueueInv'
<1>1. TypeOK /\ QueueInv
  BY DEF IInv
<1>2. /\ Rising(w.tasks, "enqueue") /\ Rising(PostsOf(w.ingest), "hand") /\ Rising(link.outbox, "hand")
  BY <1>1 DEF QueueInv, HandsInOrder, Coming
<1>3. PostsOf(w.ingest) \in Seq(Posts) /\ PostsOf(w.ingest) # <<>>
  BY <1>1, TypeParts, PostsOfTail
<1>4. /\ HandsOf(Tail(PostsOf(w.ingest)), "hand") \subseteq HandsOf(PostsOf(w.ingest), "hand")
      /\ Rising(Tail(PostsOf(w.ingest)), "hand")
  BY <1>2, <1>3, HandsOfTail
<1>5. /\ IngestHands' \subseteq IngestHands /\ OutboxHands' = OutboxHands /\ InQueue' = InQueue
      /\ TaskHands' = TaskHands
  BY <1>4 DEF IngestHands, OutboxHands, Coming, InQueue, TaskHands
<1>6. Seen' = Seen /\ SettledSets' = SettledSets
  BY DEF Seen, SettledSets, InQueue
<1> QED BY <1>1, <1>2, <1>4, <1>5, <1>6, QueueStep

\* A hand is taken from the ingestion queue to the tasks.
LEMMA QueueTask ==
  ASSUME IInv, w.ingest # <<>>, PostsOf(w'.ingest) = Tail(PostsOf(w.ingest)), link' = link, db' = db,
         Head(w.ingest).post \in Events, Head(w.ingest).post.type = "hand",
         w'.tasks = Append(w.tasks, [type |-> "enqueue", hand |-> Head(w.ingest).post.hand]),
         w'.drain.settled = w.drain.settled, w'.drain.left = w.drain.left,
         env'.hands = env.hands, env'.accepted = env.accepted, env'.released = env.released
  PROVE  QueueInv'
<1> DEFINE s == PostsOf(w.ingest)
           h == Head(w.ingest).post.hand
           task == [type |-> "enqueue", hand |-> h]
<1>1. TypeOK /\ QueueInv /\ HandsInOrder
  BY DEF IInv, QueueInv
<1>2. s \in Seq(Posts) /\ s # <<>> /\ Head(s).hand = h /\ Head(s).type = "hand"
  BY <1>1, TypeParts, PostsOfTail
<1>3. /\ Rising(w.tasks, "enqueue") /\ Rising(s, "hand") /\ Rising(link.outbox, "hand")
  BY <1>1 DEF HandsInOrder, Coming
<1>4. /\ HandsOf(Tail(s), "hand") \subseteq HandsOf(s, "hand") /\ Rising(Tail(s), "hand")
      /\ h \in HandsOf(s, "hand") /\ Below({h}, HandsOf(Tail(s), "hand"))
  BY <1>2, <1>3, HandsOfTail
<1>5. w.tasks \in Seq(Tasks) /\ task \in Tasks
  BY <1>1, TypeParts DEF Tasks, Events
<1>6. Append(w.tasks, task) = w.tasks \o <<task>> /\ <<task>> \in Seq(Tasks)
  BY <1>5, AppendIsConcat
<1>7. HandsOf(<<task>>, "enqueue") = {h} /\ Rising(<<task>>, "enqueue")
  BY DEF HandsOf, Rising
<1> HIDE DEF s, h
<1>8. Below(TaskHands, {h})
  BY <1>1, <1>4 DEF HandsInOrder, Below, IngestHands, Coming, s
<1>9. HandsOf(w'.tasks, "enqueue") = TaskHands \cup {h} /\ Rising(w'.tasks, "enqueue")
  <2>1. w'.tasks = w.tasks \o <<task>>
    BY <1>6 DEF h
  <2> DEFINE t == <<task>>
  <2>2. t \in Seq(Tasks) /\ HandsOf(t, "enqueue") = {h} /\ Rising(t, "enqueue") /\ w'.tasks = w.tasks \o t
    BY <1>6, <1>7, <2>1
  <2> HIDE DEF t
  <2>3. Below(HandsOf(w.tasks, "enqueue"), HandsOf(t, "enqueue"))
    BY <1>8, <2>2 DEF TaskHands
  <2>4. /\ HandsOf(w.tasks \o t, "enqueue") = HandsOf(w.tasks, "enqueue") \cup HandsOf(t, "enqueue")
        /\ Rising(w.tasks \o t, "enqueue")
    BY <1>3, <1>5, <2>2, <2>3, HandsOfConcat
  <2> QED BY <2>2, <2>4 DEF TaskHands
<1>10. /\ IngestHands' = HandsOf(Tail(s), "hand") /\ IngestHands = HandsOf(s, "hand")
       /\ OutboxHands' = OutboxHands /\ InQueue' = InQueue
       /\ TaskHands' = TaskHands \cup {h}
  BY <1>9 DEF IngestHands, OutboxHands, Coming, InQueue, TaskHands, s
<1>11. Seen' = Seen /\ SettledSets' = SettledSets
  <2>1. ToSet(w'.tasks) = ToSet(w.tasks) \cup {task}
    BY <1>5, AppendSet DEF h
  <2>2. SettledSets' = SettledSets
    BY <2>1 DEF SettledSets
  <2> QED BY <2>2, <1>10 DEF Seen
<1>12. HandsInOrder'
  <2>1. /\ Below(Seen', TaskHands' \cup IngestHands' \cup OutboxHands')
        /\ Below(TaskHands', IngestHands' \cup OutboxHands') /\ Below(IngestHands', OutboxHands')
        /\ Below(Seen' \cup TaskHands' \cup IngestHands' \cup OutboxHands', {env'.hands + 1})
    BY <1>1, <1>4, <1>10, <1>11 DEF HandsInOrder, Below
  <2> QED BY <1>3, <1>4, <1>9, <2>1 DEF HandsInOrder, Coming, s
<1> QED BY <1>1, <1>10, <1>11, <1>12 DEF QueueInv, SettledIsKept, QueueLosesNothing

LEMMA ResultIngested ==
  ASSUME IInv, w.ingest # <<>>, NEW x, x = [w EXCEPT !.ingest = Tail(@)],
         Head(w.ingest).post.type = "result",
         w' = handleReplayPortMessage(x, Head(w.ingest).conn, Head(w.ingest).post),
         UNCHANGED <<page, toPage, link, db, op, env>>
  PROVE  IInv'
<1> DEFINE conn == Head(w.ingest).conn
           m == Head(w.ingest).post
<1>1. /\ x \in Workers /\ DrainFits(x) /\ x.token = w.token /\ x.tasks = w.tasks /\ x.drain = w.drain
      /\ TokenFits(x.token) /\ x.req = w.req /\ PostsOf(x.ingest) = Tail(PostsOf(w.ingest))
      /\ conn \in Nat /\ m \in Posts
  BY IngestTaken
<1>2. m.outcome \in Outcomes \cup {"none"}
  BY <1>1 DEF Posts, Events, Results
<1>3. w' = x \/ (x.req.kind # "none" /\ w' = settle(x, m.outcome))
  BY DEF handleReplayPortMessage
<1> HIDE DEF conn, m
<1>4. w' \in Workers /\ DrainFits(w') /\ Alike(w', x)
  <2>1. CASE w' = x
    BY <1>1, <2>1 DEF Alike
  <2>2. CASE x.req.kind # "none" /\ w' = settle(x, m.outcome)
    BY <1>1, <1>2, <2>2, AnswerKept
  <2> QED BY <1>3, <2>1, <2>2
<1>5. SessionInv'
  <2>1. PostsOf(w'.ingest) = Tail(PostsOf(w.ingest)) /\ w'.token = w.token /\ TokenFits(w'.token)
    BY <1>1, <1>4 DEF Alike
  <2> QED BY <2>1, SessionIngest
<1>6. QueueInv'
  BY <1>1, <1>4, QueueIngest DEF Alike
<1>7. TypeOK'
  BY <1>4 DEF IInv, TypeOK
<1> QED BY <1>4, <1>5, <1>6, <1>7 DEF IInv

LEMMA EventIngested ==
  ASSUME IInv, w.ingest # <<>>, NEW x, x = [w EXCEPT !.ingest = Tail(@)],
         Head(w.ingest).post.type # "result",
         processEvent(x, Head(w.ingest).conn, Head(w.ingest).post),
         UNCHANGED <<page, link, db, op, env>>
  PROVE  IInv'
<1> DEFINE conn == Head(w.ingest).conn
           m == Head(w.ingest).post
           y == claimActivePort(x, conn)
<1>1. /\ x \in Workers /\ DrainFits(x) /\ x.token = w.token /\ x.tasks = w.tasks /\ x.drain = w.drain
      /\ TokenFits(x.token) /\ x.req = w.req /\ PostsOf(x.ingest) = Tail(PostsOf(w.ingest))
      /\ conn \in Nat /\ m \in Posts /\ TypeOK
  BY IngestTaken DEF IInv
<1>2. m \in Events /\ m.type \in {"start", "end", "hand"} /\ m.hand \in Nat
  BY <1>1 DEF Posts, Events, Results
<1>3. /\ y \in Workers /\ OnlyToken(y, x) /\ TokenFits(y.token) /\ y.token.place # "none"
      /\ y.token.activity = "inactive" => x.token.activity = "inactive"
  BY <1>1, PortClaimed
<1>4. /\ m.type = "start" =>
           cancelReplayRequestsForSessionStart([MarkActive(y) EXCEPT !.token.known = TRUE])
      /\ m.type = "end" => /\ w' = drainReplayImportQueue([y EXCEPT !.token.activity = "inactive"])
                           /\ toPage' = toPage
      /\ m.type = "hand" => /\ w' = [y EXCEPT !.tasks = Append(y.tasks, [type |-> "enqueue", hand |-> m.hand])]
                            /\ toPage' = toPage
  BY <1>2 DEF processEvent
<1>5. DrainFits(y) /\ y.tasks = w.tasks /\ y.drain = w.drain /\ y.token \in Tokens
      /\ y.tasks \in Seq(Tasks) /\ toPage \in PageMessages
  BY <1>1, <1>3 DEF OnlyToken, DrainFits, Workers, TypeOK
<1> HIDE DEF y, conn
<1>6. CASE m.type = "start"
  <2> DEFINE a == MarkActive(y)
             t == [a.token EXCEPT !.known = TRUE]
             b == [a EXCEPT !.token = t]
  <2>1. a \in Workers /\ OnlyToken(a, y) /\ TokenFits(a.token) /\ a.token.activity # "inactive"
    BY <1>3, ActivityMarked
  <2> HIDE DEF a
  <2>2. a.token \in Tokens
    BY <2>1 DEF Workers
  <2>3. t \in Tokens /\ t.activity = a.token.activity /\ t.place = a.token.place /\ t.conns = a.token.conns
    BY <2>2 DEF Tokens
  <2>4. [a EXCEPT !.token.known = TRUE] = b
    BY <2>1, <2>2 DEF Workers, Tokens
  <2> HIDE DEF t
  <2>5. b \in Workers /\ OnlyToken(b, a) /\ b.token = t
    BY <2>1, <2>3, TokenSet
  <2> HIDE DEF b
  <2>6. DrainFits(b) /\ TokenFits(b.token) /\ b.token.activity # "inactive"
        /\ b.ingest = x.ingest /\ b.tasks = w.tasks /\ b.drain = w.drain
    BY <1>3, <1>5, <2>1, <2>3, <2>5 DEF OnlyToken, DrainFits, TokenFits
  <2>7. w' \in Workers /\ DrainFits(w') /\ Alike(w', b) /\ toPage' \in PageMessages
    BY <1>1, <1>4, <1>6, <2>4, <2>5, <2>6, SessionStartTaken DEF a
  <2>8. /\ PostsOf(w'.ingest) = Tail(PostsOf(w.ingest)) /\ TokenFits(w'.token) /\ w'.tasks = w.tasks
        /\ w'.drain.settled = w.drain.settled /\ w'.drain.left = w.drain.left
        /\ w'.token.activity # "inactive"
    BY <1>1, <2>6, <2>7 DEF Alike
  <2>9. SessionInv' /\ QueueInv'
    BY <2>8, SessionIngest, QueueIngest
  <2> QED BY <2>7, <2>9 DEF IInv, TypeOK
<1>7. CASE m.type = "end"
  <2> DEFINE t == [y.token EXCEPT !.activity = "inactive"]
             b == [y EXCEPT !.token = t]
  <2>1. t \in Tokens /\ t.place = y.token.place
    BY <1>5 DEF Tokens, Activities
  <2>2. [y EXCEPT !.token.activity = "inactive"] = b
    BY <1>3, <1>5 DEF Workers, Tokens
  <2> HIDE DEF t
  <2>3. b \in Workers /\ OnlyToken(b, y) /\ b.token = t
    BY <1>3, <2>1, TokenSet
  <2> HIDE DEF b
  <2>4. DrainFits(b) /\ TokenFits(b.token)
        /\ b.ingest = x.ingest /\ b.tasks = w.tasks /\ b.drain = w.drain
    BY <1>3, <1>5, <2>1, <2>3 DEF OnlyToken, DrainFits, TokenFits
  <2>5. w' \in Workers /\ DrainFits(w') /\ Alike(w', b) /\ toPage' \in PageMessages
    BY <1>4, <1>5, <1>7, <2>2, <2>3, <2>4, Triggered
  <2>6. /\ PostsOf(w'.ingest) = Tail(PostsOf(w.ingest)) /\ TokenFits(w'.token) /\ w'.tasks = w.tasks
        /\ w'.drain.settled = w.drain.settled /\ w'.drain.left = w.drain.left
    BY <1>1, <2>4, <2>5 DEF Alike
  <2>7. SessionInv' /\ QueueInv'
    BY <1>7, <2>6, SessionIngest, QueueIngest
  <2> QED BY <2>5, <2>7 DEF IInv, TypeOK
<1>8. CASE m.type = "hand"
  <2> DEFINE task == [type |-> "enqueue", hand |-> m.hand]
             tasks == Append(y.tasks, task)
  <2>1. tasks \in Seq(Tasks)
    BY <1>2, <1>5, AppendSet DEF Tasks
  <2>2. w' = [y EXCEPT !.tasks = tasks] /\ toPage' = toPage
    BY <1>4, <1>8
  <2> HIDE DEF tasks
  <2>3. /\ w' \in Workers /\ w'.ingest = y.ingest /\ w'.token = y.token /\ w'.drain = y.drain
        /\ w'.tasks = tasks /\ w'.req = y.req
    BY <1>3, <2>1, <2>2 DEF Workers
  <2>4. DrainFits(w')
    BY <1>5, <2>3 DEF DrainFits
  <2>5. PostsOf(w'.ingest) = Tail(PostsOf(w.ingest)) /\ TokenFits(w'.token)
        /\ (w'.token.activity = "inactive" => w.token.activity = "inactive")
        /\ w'.tasks = Append(w.tasks, task) /\ w'.drain = w.drain
    BY <1>1, <1>3, <1>5, <2>3 DEF OnlyToken, tasks
  <2>6. SessionInv' /\ QueueInv'
    <3>1. SessionInv'
      BY <1>8, <2>5, SessionIngest
    <3>2. QueueInv'
      BY <1>2, <1>8, <2>5, QueueTask
    <3> QED BY <3>1, <3>2
  <2> QED BY <1>5, <2>2, <2>3, <2>4, <2>6 DEF IInv, TypeOK
<1> QED BY <1>2, <1>6, <1>7, <1>8

LEMMA EventDropped ==
  ASSUME IInv, w.ingest # <<>>, NEW x, x = [w EXCEPT !.ingest = Tail(@)],
         Head(w.ingest).post.type # "result",
         env' = [Counted EXCEPT !.deaf = @ \/ Head(w.ingest).post.type = "end"],
         IF Head(w.ingest).post.type = "start" THEN cancelReplayRequestsForSessionStart(MarkActive(x))
         ELSE w' = x /\ UNCHANGED toPage,
         UNCHANGED <<page, link, db, op>>
  PROVE  IInv'
<1> DEFINE m == Head(w.ingest).post
           deaf == Counted.deaf \/ m.type = "end"
<1>1. /\ x \in Workers /\ DrainFits(x) /\ x.token = w.token /\ x.tasks = w.tasks /\ x.drain = w.drain
      /\ TokenFits(x.token) /\ x.req = w.req /\ PostsOf(x.ingest) = Tail(PostsOf(w.ingest))
      /\ m \in Posts /\ TypeOK /\ toPage \in PageMessages
  BY IngestTaken DEF IInv, TypeOK
<1>2. /\ Counted \in Envs /\ Counted.deaf = env.deaf /\ Counted.hands = env.hands
      /\ Counted.accepted = env.accepted /\ Counted.released = env.released
  BY <1>1, Counting
<1>3. deaf \in BOOLEAN /\ env' = [Counted EXCEPT !.deaf = deaf]
  BY <1>2 DEF Envs
<1> HIDE DEF deaf
<1>4. /\ env' \in Envs /\ env'.deaf = deaf /\ env'.hands = env.hands
      /\ env'.accepted = env.accepted /\ env'.released = env.released
  BY <1>2, <1>3 DEF Envs
<1>5. CASE m.type = "start"
  <2> DEFINE a == MarkActive(x)
  <2>1. /\ a \in Workers /\ OnlyToken(a, x) /\ TokenFits(a.token) /\ a.token.activity # "inactive"
    BY <1>1, ActivityMarked
  <2>2. cancelReplayRequestsForSessionStart(a)
    BY <1>5
  <2> HIDE DEF a
  <2>3. DrainFits(a)
    BY <1>1, <2>1 DEF OnlyToken, DrainFits
  <2>4. w' \in Workers /\ DrainFits(w') /\ Alike(w', a) /\ toPage' \in PageMessages
    BY <1>1, <2>1, <2>2, <2>3, SessionStartTaken
  <2>5. /\ PostsOf(w'.ingest) = Tail(PostsOf(w.ingest)) /\ TokenFits(w'.token) /\ w'.tasks = w.tasks
        /\ w'.drain.settled = w.drain.settled /\ w'.drain.left = w.drain.left
        /\ w'.token.activity # "inactive" /\ (env'.deaf \/ ~env.deaf)
    BY <1>1, <1>2, <1>4, <2>1, <2>4 DEF Alike, OnlyToken, deaf
  <2>6. SessionInv' /\ QueueInv'
    BY <1>4, <2>5, SessionIngest, QueueIngest
  <2> QED BY <1>4, <2>4, <2>6 DEF IInv, TypeOK
<1>6. CASE m.type # "start"
  <2>1. w' = x /\ toPage' = toPage
    BY <1>6
  <2>2. QueueInv'
    BY <1>1, <1>4, <2>1, QueueIngest
  <2>3. SessionInv'
    <3>1. CASE m.type = "end"
      <4>1. env'.deaf
        BY <1>4, <3>1 DEF deaf
      <4>2. SessionInv
        BY DEF IInv
      <4> QED BY <1>1, <2>1, <4>1, <4>2 DEF SessionInv, StartIsAhead
    <3>2. CASE m.type # "end"
      <4>1. env'.deaf \/ ~env.deaf
        BY <1>2, <1>4 DEF deaf
      <4> QED BY <1>1, <1>6, <2>1, <3>2, <4>1, SessionIngest
    <3> QED BY <3>1, <3>2
  <2> QED BY <1>1, <1>4, <2>1, <2>2, <2>3 DEF IInv, TypeOK
<1> QED BY <1>5, <1>6

LEMMA IngestStep == ASSUME IInv, Ingest PROVE IInv'
<1> DEFINE conn == Head(w.ingest).conn
           m == Head(w.ingest).post
           x == [w EXCEPT !.ingest = Tail(@)]
<1>1. w.ingest # <<>> /\ UNCHANGED <<page, link, db, op>>
  BY DEF Ingest
<1>2. CASE m.type = "result" /\ w' = handleReplayPortMessage(x, conn, m) /\ UNCHANGED <<toPage, env>>
  BY <1>1, <1>2, ResultIngested
<1>3. CASE m.type # "result" /\ processEvent(x, conn, m) /\ UNCHANGED env
  BY <1>1, <1>3, EventIngested
<1>4. CASE /\ m.type # "result" /\ env' = [Counted EXCEPT !.deaf = @ \/ m.type = "end"]
           /\ IF m.type = "start" THEN cancelReplayRequestsForSessionStart(MarkActive(x))
              ELSE w' = x /\ UNCHANGED toPage
  BY <1>1, <1>4, EventDropped
<1> QED BY <1>2, <1>3, <1>4 DEF Ingest

-----------------------------------------------------------------------------
(* The queue of hands.                                                     *)

LEMMA HandAppended ==
  ASSUME NEW queue \in Seq(Nat), NEW h \in Nat
  PROVE  /\ appendToQueue(queue, h) \in Seq(Nat)
         /\ ToSet(appendToQueue(queue, h)) \subseteq ToSet(queue) \cup {h}
<1> DEFINE all == Append(queue, h)
<1>1. all \in Seq(Nat) /\ ToSet(all) = ToSet(queue) \cup {h}
  BY AppendSet
<1>2. all # <<>>
  OBVIOUS
<1>3. appendToQueue(queue, h) \in {queue, all, Tail(all)}
  BY DEF appendToQueue
<1> HIDE DEF all
<1>4. Tail(all) \in Seq(Nat) /\ ToSet(Tail(all)) \subseteq ToSet(all)
  BY <1>1, <1>2, TailSet
<1> QED BY <1>1, <1>3, <1>4

\* The next task is taken off, whatever it is.
LEMMA TaskTaken ==
  ASSUME IInv, w.tasks # <<>>,
         w' = [w EXCEPT !.tasks = Tail(@), !.drain.wait = IF @ > 0 THEN @ - 1 ELSE 0],
         link' = link, page' = page, env'.deaf = env.deaf
  PROVE  /\ w' \in Workers /\ DrainFits(w') /\ SessionInv' /\ w'.tasks = Tail(w.tasks)
         /\ Head(w.tasks) \in Tasks /\ Head(w.tasks) \in ToSet(w.tasks) /\ w.tasks \in Seq(Tasks)
         /\ IngestHands' = IngestHands /\ OutboxHands' = OutboxHands /\ TaskHands' \subseteq TaskHands
         /\ Rising(w'.tasks, "enqueue") /\ Rising(PostsOf(w'.ingest), "hand") /\ Rising(link'.outbox, "hand")
         /\ SettledSets' \subseteq SettledSets /\ w'.drain.left = w.drain.left
<1> DEFINE n == IF w.drain.wait > 0 THEN w.drain.wait - 1 ELSE 0
           d == [w.drain EXCEPT !.wait = n]
<1>1. TypeOK /\ DrainFits(w) /\ SessionInv /\ HandsInOrder
  BY DEF IInv, QueueInv
<1>2. w.drain \in Drains /\ w.tasks \in Seq(Tasks) /\ w \in Workers
  BY <1>1, TypeParts
<1>0. n \in Nat
  BY <1>2 DEF Drains
<1>4. w' = [w EXCEPT !.tasks = Tail(w.tasks), !.drain = d]
  BY <1>2 DEF Workers, Drains
<1> HIDE DEF n
<1>3. d \in Drains /\ d.left = w.drain.left /\ d.settled = w.drain.settled /\ d.pc = w.drain.pc
  BY <1>0, <1>2 DEF Drains
<1>5. /\ Head(w.tasks) \in Tasks /\ Head(w.tasks) \in ToSet(w.tasks)
      /\ Tail(w.tasks) \in Seq(Tasks) /\ ToSet(Tail(w.tasks)) \subseteq ToSet(w.tasks)
  BY <1>2, TailSet
<1> HIDE DEF d
<1>6. /\ w' \in Workers /\ w'.tasks = Tail(w.tasks) /\ w'.drain = d /\ w'.token = w.token
      /\ w'.ingest = w.ingest /\ w'.req = w.req
  BY <1>2, <1>3, <1>4, <1>5 DEF Workers
<1>7. DrainFits(w')
  BY <1>1, <1>3, <1>6 DEF DrainFits
<1>8. SessionInv'
  BY <1>1, <1>6, SessionStep DEF SessionInv
<1>9. /\ Rising(w.tasks, "enqueue") /\ Rising(PostsOf(w.ingest), "hand") /\ Rising(link.outbox, "hand")
  BY <1>1 DEF HandsInOrder, Coming
<1>10. Rising(Tail(w.tasks), "enqueue")
       /\ HandsOf(Tail(w.tasks), "enqueue") \subseteq HandsOf(w.tasks, "enqueue")
  BY <1>2, <1>9, HandsOfTail
<1>11. /\ IngestHands' = IngestHands /\ OutboxHands' = OutboxHands /\ TaskHands' \subseteq TaskHands
  BY <1>6, <1>10 DEF IngestHands, OutboxHands, Coming, TaskHands
<1>12. SettledSets' \subseteq SettledSets
  BY <1>3, <1>5, <1>6 DEF SettledSets
<1> QED BY <1>2, <1>3, <1>5, <1>6, <1>7, <1>8, <1>9, <1>10, <1>11, <1>12

LEMMA MutateStep == ASSUME IInv, Mutate PROVE IInv'
<1> DEFINE task == Head(w.tasks)
           kept == IF task.type = "settle" THEN updateQueue(db.queue, task)
                   ELSE IF readReplayImportEnabled THEN appendToQueue(db.queue, task.hand) ELSE db.queue
<1>1. /\ w.tasks # <<>> /\ db' = [db EXCEPT !.queue = kept]
      /\ env' = IF task.type = "settle" THEN env
                ELSE [env EXCEPT !.accepted = @ \cup (ToSet(kept) \ InQueue),
                                 !.released = @ \cup (InQueue \ ToSet(kept))]
      /\ w' = [w EXCEPT !.tasks = Tail(@), !.drain.wait = IF @ > 0 THEN @ - 1 ELSE 0]
      /\ page' = page /\ toPage' = toPage /\ link' = link /\ op' = op
  BY DEF Mutate
<1>2. /\ TypeOK /\ QueueInv /\ HandsInOrder /\ SettledIsKept /\ QueueLosesNothing /\ PageQuiet(page)
      /\ env \in Envs /\ db \in Databases /\ db.queue \in Seq(Nat) /\ InQueue \subseteq Nat
  BY TypeParts DEF IInv, QueueInv, TypeOK
<1>3. env'.deaf = env.deaf
  BY <1>1, <1>2 DEF Envs
<1>4. /\ w' \in Workers /\ DrainFits(w') /\ SessionInv' /\ w'.tasks = Tail(w.tasks)
      /\ task \in Tasks /\ task \in ToSet(w.tasks) /\ w.tasks \in Seq(Tasks)
      /\ IngestHands' = IngestHands /\ OutboxHands' = OutboxHands /\ TaskHands' \subseteq TaskHands
      /\ Rising(w'.tasks, "enqueue") /\ Rising(PostsOf(w'.ingest), "hand") /\ Rising(link'.outbox, "hand")
      /\ SettledSets' \subseteq SettledSets /\ w'.drain.left = w.drain.left
  BY <1>1, <1>3, TaskTaken
<1> HIDE DEF task
<1>5. CASE task.type = "settle"
  <2>1. kept = Without(db.queue, task.settled) /\ task.settled \in SettledSets
    BY <1>4, <1>5 DEF updateQueue, SettledSets
  <2>2. kept \in Seq(Nat) /\ ToSet(kept) = InQueue \ task.settled
    BY <1>2, <2>1, WithoutProperties DEF InQueue
  <2> HIDE DEF kept
  <2>3. db' \in Databases /\ db'.queue = kept /\ db'.details = db.details /\ env' = env
    BY <1>1, <1>2, <1>5, <2>2 DEF Databases
  <2>4. InQueue' = InQueue \ task.settled
    BY <2>2, <2>3 DEF InQueue
  <2>5. Seen' \subseteq Seen /\ UNION (SettledSets') \subseteq UNION SettledSets
    BY <1>4, <2>4 DEF Seen
  <2>6. env.accepted \cap InQueue \subseteq InQueue' \cup db'.details \cup env.released
    BY <1>2, <2>1, <2>3, <2>4 DEF SettledIsKept
  <2>7. QueueInv'
    BY <1>2, <1>4, <2>3, <2>5, <2>6, QueueStep
  <2>8. TypeOK'
    BY <1>1, <1>2, <1>4, <2>3 DEF TypeOK
  <2> QED BY <1>1, <1>2, <1>4, <2>7, <2>8 DEF IInv
<1>6. CASE task.type # "settle"
  <2> DEFINE h == task.hand
             new == ToSet(kept) \ InQueue
             gone == InQueue \ ToSet(kept)
  <2>1. task.type = "enqueue" /\ h \in Nat
    BY <1>4, <1>6 DEF Tasks
  <2>2. /\ h \in TaskHands /\ Below({h}, TaskHands')
    <3>1. Rising(w.tasks, "enqueue")
      BY <1>2 DEF HandsInOrder
    <3>2. h \in HandsOf(w.tasks, "enqueue") /\ Below({h}, HandsOf(Tail(w.tasks), "enqueue"))
      BY <1>1, <1>4, <2>1, <3>1, HandsOfTail DEF task
    <3> QED BY <1>4, <3>2 DEF TaskHands
  <2>3. kept \in Seq(Nat) /\ ToSet(kept) \subseteq InQueue \cup {h}
    BY <1>2, <1>6, <2>1, HandAppended DEF InQueue
  <2>4. env' = [env EXCEPT !.accepted = env.accepted \cup new, !.released = env.released \cup gone]
    BY <1>1, <1>6
  <2>5. new \subseteq {h} /\ gone \subseteq InQueue /\ new \subseteq Nat /\ gone \subseteq Nat
        /\ InQueue \subseteq ToSet(kept) \cup gone /\ new \subseteq ToSet(kept)
    BY <1>2, <2>1, <2>3
  <2> HIDE DEF kept, new, gone, h
  <2>6. db' \in Databases /\ db'.queue = kept /\ db'.details = db.details
    BY <1>1, <1>2, <2>3 DEF Databases
  <2>7. /\ env' \in Envs /\ env'.hands = env.hands /\ env'.accepted = env.accepted \cup new
        /\ env'.released = env.released \cup gone
    <3>1. env.accepted \cup new \in SUBSET Nat /\ env.released \cup gone \in SUBSET Nat
      BY <1>2, <2>5 DEF Envs
    <3> QED BY <1>2, <2>4, <3>1 DEF Envs
  <2>8. InQueue' = ToSet(kept) /\ Seen' \subseteq Seen \cup {h}
    <3>1. InQueue' = ToSet(kept)
      BY <2>6 DEF InQueue
    <3> QED BY <1>4, <2>3, <3>1 DEF Seen
  <2>9. HandsInOrder'
    <3>1. /\ Below(Seen', TaskHands' \cup IngestHands' \cup OutboxHands')
          /\ Below(TaskHands', IngestHands' \cup OutboxHands') /\ Below(IngestHands', OutboxHands')
          /\ Below(Seen' \cup TaskHands' \cup IngestHands' \cup OutboxHands', {env'.hands + 1})
      BY <1>2, <1>4, <2>2, <2>7, <2>8 DEF HandsInOrder, Below
    <3> QED BY <1>4, <3>1 DEF HandsInOrder, Coming
  <2>10. h \notin UNION SettledSets
    <3>1. ASSUME h \in UNION SettledSets PROVE FALSE
      <4>1. h \in Seen
        BY <3>1 DEF Seen
      <4>2. h < h
        BY <1>2, <2>2, <4>1 DEF HandsInOrder, Below
      <4> QED BY <2>1, <4>2 DEF h
    <3> QED BY <3>1
  <2>11. SettledIsKept'
    <3> SUFFICES ASSUME NEW X \in SettledSets', NEW k \in X, k \in env'.accepted
                 PROVE  k \in db'.details \cup env'.released
      BY DEF SettledIsKept
    <3>1. k # h
      BY <1>4, <2>10
    <3>2. k \in env.accepted
      BY <2>5, <2>7, <3>1
    <3> QED BY <1>2, <1>4, <2>6, <2>7, <3>2 DEF SettledIsKept
  <2>12. QueueLosesNothing'
    BY <1>2, <2>5, <2>6, <2>7, <2>8 DEF QueueLosesNothing
  <2>13. TypeOK'
    BY <1>1, <1>2, <1>4, <2>6, <2>7 DEF TypeOK
  <2> QED BY <1>1, <1>2, <1>4, <2>9, <2>11, <2>12, <2>13 DEF IInv, QueueInv
<1> QED BY <1>5, <1>6

-----------------------------------------------------------------------------
(* The drain.                                                              *)

LEMMA NoRequestAt ==
  ASSUME IInv, NEW pc, At(pc), pc \notin {"verifying", "fetching"}
  PROVE  w.req.kind = "none"
BY DEF IInv, DrainFits, At

LEMMA DrainSet ==
  ASSUME NEW x \in Workers, NEW d \in Drains
  PROVE  /\ [x EXCEPT !.drain = d] \in Workers /\ [x EXCEPT !.drain = d].drain = d
         /\ [x EXCEPT !.drain = d].ingest = x.ingest /\ [x EXCEPT !.drain = d].token = x.token
         /\ [x EXCEPT !.drain = d].tasks = x.tasks /\ [x EXCEPT !.drain = d].req = x.req
BY DEF Workers

\* A worker whose drain is further on, with no more hands before it or settled.
Advanced(y) ==
  /\ y \in Workers /\ DrainFits(y) /\ y.ingest = w.ingest /\ y.token = w.token /\ y.tasks = w.tasks
  /\ ToSet(y.drain.left) \subseteq ToSet(w.drain.left) /\ y.drain.settled \subseteq w.drain.settled

NeedsHand == {"paused", "send", "fetching", "answered", "storing"}

LEMMA AdvancedBy ==
  ASSUME w \in Workers, NEW d \in Drains, w.req.kind = "none",
         d.left = w.drain.left \/ d.left = <<>> \/ (w.drain.left # <<>> /\ d.left = Tail(w.drain.left)),
         d.settled \subseteq w.drain.settled, d.pc \in NeedsHand => d.left # <<>>
  PROVE  Advanced([w EXCEPT !.drain = d])
<1> DEFINE y == [w EXCEPT !.drain = d]
<1>1. /\ y \in Workers /\ y.drain = d /\ y.ingest = w.ingest /\ y.token = w.token
      /\ y.tasks = w.tasks /\ y.req = w.req
  BY DrainSet
<1> HIDE DEF y
<1>2. w.drain.left \in Seq(Nat)
  BY DEF Workers, Drains
<1>3. ToSet(d.left) \subseteq ToSet(w.drain.left)
  <2>1. ToSet(<<>>) = {}
    BY DEF ToSet
  <2>2. w.drain.left # <<>> => ToSet(Tail(w.drain.left)) \subseteq ToSet(w.drain.left)
    BY <1>2, TailSet
  <2> QED BY <2>1, <2>2
<1>4. DrainFits(y)
  BY <1>1 DEF DrainFits, NeedsHand
<1> QED BY <1>1, <1>3, <1>4 DEF Advanced, y

LEMMA DrainGoes ==
  ASSUME IInv, w.req.kind = "none"
  PROVE  /\ \A pc \in Pcs : (pc \in NeedsHand => w.drain.left # <<>>) => Advanced([w EXCEPT !.drain.pc = pc])
         /\ Advanced(Return(w))
         /\ Advanced([w EXCEPT !.drain.aborted = TRUE, !.drain.pc = "settle"])
         /\ w.drain.left # <<>> =>
              /\ Advanced(Skip(w)) /\ Skip(w).drain.settled = w.drain.settled
              /\ Skip(w).drain.left = Tail(w.drain.left) /\ Skip(w).req = w.req
              /\ Skip(w).drain.pc = "pick"
<1>1. w \in Workers /\ w.drain \in Drains /\ w.drain.left \in Seq(Nat)
  BY TypeParts DEF IInv, Drains
<1>2. ASSUME NEW pc \in Pcs, pc \in NeedsHand => w.drain.left # <<>>
      PROVE  Advanced([w EXCEPT !.drain.pc = pc])
  <2> DEFINE d == [w.drain EXCEPT !.pc = pc]
  <2>1. d \in Drains /\ d.left = w.drain.left /\ d.settled = w.drain.settled /\ d.pc = pc
    BY <1>1 DEF Drains
  <2>2. [w EXCEPT !.drain.pc = pc] = [w EXCEPT !.drain = d]
    BY <1>1 DEF Workers, Drains
  <2> HIDE DEF d
  <2> QED BY <1>1, <1>2, <2>1, <2>2, AdvancedBy
<1>3. Advanced(Return(w))
  <2>1. /\ Return(w) \in Workers /\ DrainFits(Return(w))
        /\ Return(w).ingest = w.ingest /\ Return(w).token = w.token /\ Return(w).tasks = w.tasks
        /\ Return(w).drain.settled = {} /\ Return(w).drain.left = <<>>
    BY <1>1, Ended
  <2>2. ToSet(<<>>) = {}
    BY SetOfSeq, EmptySeq
  <2> QED BY <2>1, <2>2 DEF Advanced
<1>4. Advanced([w EXCEPT !.drain.aborted = TRUE, !.drain.pc = "settle"])
  <2> DEFINE d == [w.drain EXCEPT !.aborted = TRUE, !.pc = "settle"]
  <2>1. "settle" \in Pcs /\ "settle" \notin NeedsHand
    BY DEF Pcs, NeedsHand
  <2>2. d \in Drains /\ d.left = w.drain.left /\ d.settled = w.drain.settled /\ d.pc = "settle"
    BY <1>1, <2>1 DEF Drains
  <2>3. [w EXCEPT !.drain.aborted = TRUE, !.drain.pc = "settle"] = [w EXCEPT !.drain = d]
    BY <1>1 DEF Workers, Drains
  <2> HIDE DEF d
  <2> QED BY <1>1, <2>1, <2>2, <2>3, AdvancedBy
<1>5. ASSUME w.drain.left # <<>>
      PROVE  /\ Advanced(Skip(w)) /\ Skip(w).drain.settled = w.drain.settled
             /\ Skip(w).drain.left = Tail(w.drain.left) /\ Skip(w).req = w.req
             /\ Skip(w).drain.pc = "pick"
  <2> DEFINE d == [w.drain EXCEPT !.left = Tail(w.drain.left), !.pc = "pick", !.answer = "none"]
  <2>1. "pick" \in Pcs /\ "pick" \notin NeedsHand /\ Tail(w.drain.left) \in Seq(Nat)
    BY <1>1, <1>5 DEF Pcs, NeedsHand
  <2>2. d \in Drains /\ d.left = Tail(w.drain.left) /\ d.settled = w.drain.settled /\ d.pc = "pick"
    BY <1>1, <2>1 DEF Drains
  <2>3. Skip(w) = [w EXCEPT !.drain = d]
    BY <1>1 DEF Skip, Workers, Drains
  <2> HIDE DEF d
  <2>4. Skip(w).drain = d /\ Skip(w).req = w.req
    BY <1>1, <2>2, <2>3, DrainSet
  <2> QED BY <1>1, <1>5, <2>1, <2>2, <2>3, <2>4, AdvancedBy
<1> QED BY <1>2, <1>3, <1>4, <1>5

\* What the drain may do to storage and to the hands it settles.
LEMMA DrainMoved ==
  ASSUME IInv, w' \in Workers, DrainFits(w'), w'.ingest = w.ingest, w'.token = w.token, w'.tasks = w.tasks,
         ToSet(w'.drain.left) \subseteq Seen, w'.drain.settled \subseteq Seen,
         w'.drain.settled \subseteq w.drain.settled \cup db'.details \cup env'.released,
         page' = page, link' = link, toPage' \in PageMessages, op' = op,
         db' \in Databases, db'.queue = db.queue, db.details \subseteq db'.details,
         env' \in Envs, env'.deaf = env.deaf, env'.hands = env.hands, env'.accepted = env.accepted,
         env.released \subseteq env'.released
  PROVE  IInv'
<1>1. TypeOK /\ SessionInv /\ QueueInv /\ HandsInOrder
  BY DEF IInv, QueueInv
<1>2. SessionInv'
  BY <1>1, SessionStep DEF SessionInv
<1>3. /\ Rising(w'.tasks, "enqueue") /\ Rising(PostsOf(w'.ingest), "hand") /\ Rising(link'.outbox, "hand")
  BY <1>1 DEF HandsInOrder, Coming
<1>4. /\ IngestHands' = IngestHands /\ OutboxHands' = OutboxHands /\ InQueue' = InQueue
  BY DEF IngestHands, OutboxHands, Coming, InQueue
<1>5. /\ Seen' \subseteq Seen /\ TaskHands' = TaskHands
      /\ UNION (SettledSets') \subseteq (UNION SettledSets) \cup w'.drain.settled
  BY <1>4, SeenBy
<1>6. w.drain.settled \subseteq UNION SettledSets
  BY DEF SettledSets
<1>7. UNION (SettledSets') \subseteq (UNION SettledSets) \cup db'.details \cup env'.released
  BY <1>5, <1>6
<1>8. QueueInv'
  BY <1>1, <1>3, <1>4, <1>5, <1>7, QueueStep
<1>9. TypeOK'
  BY <1>1 DEF TypeOK
<1> QED BY <1>2, <1>8, <1>9 DEF IInv

LEMMA DrainAdvances ==
  ASSUME IInv, Advanced(w'), page' = page, link' = link, toPage' \in PageMessages, op' = op,
         db' \in Databases, db'.queue = db.queue, db'.details = db.details,
         env' \in Envs, env'.deaf = env.deaf, env'.hands = env.hands, env'.accepted = env.accepted,
         env.released \subseteq env'.released
  PROVE  IInv'
<1>1. ToSet(w.drain.left) \subseteq Seen /\ w.drain.settled \subseteq Seen
  BY DEF Seen, SettledSets
<1> QED BY <1>1, DrainMoved DEF Advanced

\* The parts of a step of the drain that leave storage, but for the phase, and the history alone.
LEMMA Storage ==
  ASSUME TypeOK
  PROVE  /\ \A phase \in Phases :
              /\ [db EXCEPT !.phase = phase] \in Databases
              /\ [db EXCEPT !.phase = phase].queue = db.queue
              /\ [db EXCEPT !.phase = phase].details = db.details
         /\ \A failed \in BOOLEAN :
              /\ [env EXCEPT !.failed = failed] \in Envs
              /\ [env EXCEPT !.failed = failed].deaf = env.deaf
              /\ [env EXCEPT !.failed = failed].hands = env.hands
              /\ [env EXCEPT !.failed = failed].accepted = env.accepted
              /\ [env EXCEPT !.failed = failed].released = env.released
         /\ \A hands \in SUBSET Nat :
              /\ [env EXCEPT !.released = @ \cup hands] \in Envs
              /\ [env EXCEPT !.released = @ \cup hands].deaf = env.deaf
              /\ [env EXCEPT !.released = @ \cup hands].hands = env.hands
              /\ [env EXCEPT !.released = @ \cup hands].accepted = env.accepted
              /\ [env EXCEPT !.released = @ \cup hands].released = env.released \cup hands
         /\ page \in Pages /\ toPage \in PageMessages /\ link \in Links /\ w \in Workers
         /\ db \in Databases /\ env \in Envs
<1>1. /\ page \in Pages /\ toPage \in PageMessages /\ link \in Links /\ w \in Workers
      /\ db \in Databases /\ env \in Envs
  BY DEF TypeOK
<1>2. ASSUME NEW phase \in Phases
      PROVE  /\ [db EXCEPT !.phase = phase] \in Databases
             /\ [db EXCEPT !.phase = phase].queue = db.queue
             /\ [db EXCEPT !.phase = phase].details = db.details
  BY <1>1 DEF Databases
<1>3. ASSUME NEW failed \in BOOLEAN
      PROVE  /\ [env EXCEPT !.failed = failed] \in Envs
             /\ [env EXCEPT !.failed = failed].deaf = env.deaf
             /\ [env EXCEPT !.failed = failed].hands = env.hands
             /\ [env EXCEPT !.failed = failed].accepted = env.accepted
             /\ [env EXCEPT !.failed = failed].released = env.released
  BY <1>1 DEF Envs
<1>4. ASSUME NEW hands \in SUBSET Nat
      PROVE  /\ [env EXCEPT !.released = @ \cup hands] \in Envs
             /\ [env EXCEPT !.released = @ \cup hands].deaf = env.deaf
             /\ [env EXCEPT !.released = @ \cup hands].hands = env.hands
             /\ [env EXCEPT !.released = @ \cup hands].accepted = env.accepted
             /\ [env EXCEPT !.released = @ \cup hands].released = env.released \cup hands
  <2>1. env.released \cup hands \in SUBSET Nat
    BY <1>1 DEF Envs
  <2> QED BY <1>1, <2>1 DEF Envs
<1> QED BY <1>1, <1>2, <1>3, <1>4

LEMMA BarrierStep == ASSUME IInv, withKeepAlive PROVE IInv'
<1>1. TypeOK /\ w.req.kind = "none"
  BY NoRequestAt DEF IInv, withKeepAlive
<1>2. "access" \in Pcs /\ "access" \notin NeedsHand
  BY DEF Pcs, NeedsHand
<1>3. Advanced(w')
  BY <1>1, <1>2, DrainGoes DEF withKeepAlive, Goto, Leave
<1>4. /\ env' = [env EXCEPT !.failed = FALSE]
      /\ page' = page /\ toPage' = toPage /\ link' = link /\ db' = db /\ op' = op
  BY DEF withKeepAlive
<1>5. toPage \in PageMessages /\ db \in Databases /\ env' \in Envs /\ env'.deaf = env.deaf
      /\ env'.hands = env.hands /\ env'.accepted = env.accepted /\ env'.released = env.released
  BY <1>1, <1>4, Storage
<1> QED BY <1>3, <1>4, <1>5, DrainAdvances

LEMMA AccessStep == ASSUME IInv, verifyReplayImportAccess PROVE IInv'
<1>1. TypeOK /\ w.req.kind = "none"
  BY NoRequestAt DEF IInv, verifyReplayImportAccess
<1>2. {"allowed", "verify"} \subseteq Pcs \ NeedsHand
  BY DEF Pcs, NeedsHand
<1>3. {"disabled", "pending-session", "pending-auth", "checking"} \subseteq Phases
  BY DEF Phases
<1> DEFINE d == [w.drain EXCEPT !.pc = "verify", !.target = w.token.conn]
<1>4. Advanced([w EXCEPT !.drain.pc = "verify", !.drain.target = w.token.conn])
  <2>1. w \in Workers /\ w.drain \in Drains /\ w.token.conn \in Nat
    BY <1>1, TypeParts DEF Tokens
  <2>2. d \in Drains /\ d.left = w.drain.left /\ d.settled = w.drain.settled /\ d.pc = "verify"
    BY <1>2, <2>1 DEF Drains
  <2>3. [w EXCEPT !.drain.pc = "verify", !.drain.target = w.token.conn] = [w EXCEPT !.drain = d]
    BY <2>1 DEF Workers, Drains
  <2> HIDE DEF d
  <2> QED BY <1>1, <1>2, <2>1, <2>2, <2>3, AdvancedBy
<1>5. Advanced([w EXCEPT !.drain.pc = "allowed"]) /\ Advanced(Return(w))
  BY <1>1, <1>2, DrainGoes
<1>6. /\ w' \in {[w EXCEPT !.drain.pc = "allowed"], Return(w),
                 [w EXCEPT !.drain.pc = "verify", !.drain.target = w.token.conn]}
      /\ db' = db \/ \E phase \in Phases : db' = [db EXCEPT !.phase = phase]
  BY <1>3 DEF verifyReplayImportAccess, Goto, Leave, Phase
<1>7. Advanced(w')
  BY <1>4, <1>5, <1>6
<1>8. page' = page /\ toPage' = toPage /\ link' = link /\ op' = op /\ env' = env
  BY DEF verifyReplayImportAccess
<1>9. /\ toPage \in PageMessages /\ env \in Envs
      /\ db' \in Databases /\ db'.queue = db.queue /\ db'.details = db.details
  BY <1>1, <1>6, Storage
<1> QED BY <1>7, <1>8, <1>9, DrainAdvances

LEMMA RequestKept ==
  ASSUME IInv, NEW kind \in {"verify", "detail"}, NEW hand \in Nat, NEW pc \in {"verifying", "fetching"},
         pc = "fetching" => w.drain.left # <<>>, Request(kind, hand, pc)
  PROVE  Advanced(w') /\ toPage' \in PageMessages
<1> DEFINE req == [kind |-> kind, id |-> NewId, conn |-> link.conn]
           d == [w.drain EXCEPT !.pc = pc, !.issued = (kind = "detail")]
           m == [kind |-> kind, id |-> NewId, epoch |-> w.epoch, hand |-> hand, stale |-> FALSE]
<1>1. TypeOK
  BY DEF IInv
<1>2. w \in Workers /\ w.drain \in Drains /\ w.epoch \in Nat /\ link.conn \in Nat /\ NewId \in Nat
  BY <1>1, TypeParts, FreshId
<1>3. req \in Pending
  BY <1>2 DEF Pending
<1>4. d \in Drains /\ d.left = w.drain.left /\ d.settled = w.drain.settled /\ d.pc = pc
  <2>1. pc \in Pcs /\ (kind = "detail") \in BOOLEAN
    BY DEF Pcs
  <2> QED BY <1>2, <2>1 DEF Drains
<1>5. w' = [w EXCEPT !.req = req, !.drain = d]
  BY <1>2 DEF Request, Workers, Drains
<1> HIDE DEF req, d
<1>6. /\ w' \in Workers /\ w'.drain = d /\ w'.ingest = w.ingest /\ w'.token = w.token
      /\ w'.tasks = w.tasks
  BY <1>2, <1>3, <1>4, <1>5 DEF Workers
<1>7. DrainFits(w')
  BY <1>4, <1>6 DEF DrainFits
<1>8. Advanced(w')
  BY <1>4, <1>6, <1>7 DEF Advanced
<1>9. m \in Requests
  BY <1>2 DEF Requests
<1>10. toPage' = Append(toPage, m)
  BY DEF Request
<1> HIDE DEF m
<1>11. toPage \in Seq(Requests \cup {[kind |-> "cancel"]})
  BY <1>1, TypeParts DEF PageMessages
<1>12. toPage' \in PageMessages
  BY <1>9, <1>10, <1>11 DEF PageMessages
<1> QED BY <1>8, <1>12

LEMMA VerificationRequestStep == ASSUME IInv, requestReplayVerification PROVE IInv'
<1>1. TypeOK /\ w.req.kind = "none"
  BY NoRequestAt DEF IInv, requestReplayVerification
<1>2. page' = page /\ link' = link /\ db' = db /\ op' = op /\ env' = env
  BY DEF requestReplayVerification
<1>3. ASSUME NEW answer \in Outcomes
      PROVE  Advanced([w EXCEPT !.drain.answer = answer, !.drain.pc = "verdict"])
  <2> DEFINE d == [w.drain EXCEPT !.answer = answer, !.pc = "verdict"]
  <2>1. w \in Workers /\ w.drain \in Drains /\ "verdict" \in Pcs \ NeedsHand
    BY <1>1, TypeParts DEF Pcs, NeedsHand
  <2>2. d \in Drains /\ d.left = w.drain.left /\ d.settled = w.drain.settled /\ d.pc = "verdict"
    BY <2>1 DEF Drains
  <2>3. [w EXCEPT !.drain.answer = answer, !.drain.pc = "verdict"] = [w EXCEPT !.drain = d]
    BY <2>1 DEF Workers, Drains
  <2> HIDE DEF d
  <2> QED BY <1>1, <2>1, <2>2, <2>3, AdvancedBy
<1>4. toPage \in PageMessages /\ db \in Databases /\ env \in Envs
  BY <1>1, Storage
<1>5. Advanced(w') /\ toPage' \in PageMessages
  <2>1. CASE Request("verify", 0, "verifying")
    BY <2>1, RequestKept
  <2>2. CASE \E answer \in {"in-session", "error"} :
               w' = [w EXCEPT !.drain.answer = answer, !.drain.pc = "verdict"] /\ toPage' = toPage
    BY <1>3, <1>4, <2>2 DEF Outcomes
  <2> QED BY <2>1, <2>2 DEF requestReplayVerification
<1> QED BY <1>2, <1>4, <1>5, DrainAdvances

LEMMA VerdictStep == ASSUME IInv, VerificationAnswered PROVE IInv'
<1>1. TypeOK /\ w.req.kind = "none"
  BY NoRequestAt DEF IInv, VerificationAnswered
<1>2. "allowed" \in Pcs \ NeedsHand
  BY DEF Pcs, NeedsHand
<1>3. Advanced([w EXCEPT !.drain.pc = "allowed"]) /\ Advanced(Return(w))
  BY <1>1, <1>2, DrainGoes
<1>4. VerifiedPhase \in Phases /\ "disabled" \in Phases
  <2>1. w.drain.answer \in Outcomes \cup {"none"}
    BY <1>1, TypeParts DEF Drains
  <2> QED BY <2>1 DEF VerifiedPhase, Phases, Outcomes
<1>5. /\ w' \in {[w EXCEPT !.drain.pc = "allowed"], Return(w)}
      /\ db' = db \/ \E phase \in Phases : db' = [db EXCEPT !.phase = phase]
      /\ env' = env \/ env' = [env EXCEPT !.failed = (VerifiedPhase = "error")]
  BY <1>4 DEF VerificationAnswered, Goto, Leave, Phase
<1>6. page' = page /\ toPage' = toPage /\ link' = link /\ op' = op
  BY DEF VerificationAnswered
<1>7. /\ toPage \in PageMessages /\ env' \in Envs /\ env'.deaf = env.deaf
      /\ env'.hands = env.hands /\ env'.accepted = env.accepted /\ env'.released = env.released
      /\ db' \in Databases /\ db'.queue = db.queue /\ db'.details = db.details
  BY <1>1, <1>5, Storage
<1>8. Advanced(w')
  BY <1>3, <1>5
<1> QED BY <1>6, <1>7, <1>8, DrainAdvances

LEMMA KeepAliveStep == ASSUME IInv, startKeepAlive PROVE IInv'
<1>1. TypeOK /\ w.req.kind = "none"
  BY NoRequestAt DEF IInv, startKeepAlive
<1>2. "enabled" \in Pcs \ NeedsHand
  BY DEF Pcs, NeedsHand
<1>3. Advanced(w')
  BY <1>1, <1>2, DrainGoes DEF startKeepAlive, Goto, Leave
<1>4. page' = page /\ toPage' = toPage /\ link' = link /\ db' = db /\ op' = op /\ env' = env
  BY DEF startKeepAlive
<1>5. toPage \in PageMessages /\ db \in Databases /\ env \in Envs
  BY <1>1, Storage
<1> QED BY <1>3, <1>4, <1>5, DrainAdvances

LEMMA DrainOnceStep == ASSUME IInv, drainOnce PROVE IInv'
<1>1. TypeOK /\ w.req.kind = "none"
  BY NoRequestAt DEF IInv, drainOnce
<1> DEFINE n == Len(w.tasks)
           d == [w.drain EXCEPT !.pc = "tail", !.wait = n]
<1>2. w \in Workers /\ w.drain \in Drains /\ n \in Nat /\ "tail" \in Pcs \ NeedsHand
  BY <1>1, TypeParts DEF Pcs, NeedsHand
<1>3. w' = [w EXCEPT !.drain = d] \/ w' = Return(w)
  BY <1>2 DEF drainOnce, Leave, Workers, Drains
<1> HIDE DEF n
<1>4. d \in Drains /\ d.left = w.drain.left /\ d.settled = w.drain.settled /\ d.pc = "tail"
  BY <1>2 DEF Drains
<1> HIDE DEF d
<1>5. Advanced(w')
  BY <1>1, <1>2, <1>3, <1>4, AdvancedBy, DrainGoes
<1>6. page' = page /\ toPage' = toPage /\ link' = link /\ db' = db /\ op' = op /\ env' = env
  BY DEF drainOnce
<1>7. toPage \in PageMessages /\ db \in Databases /\ env \in Envs
  BY <1>1, Storage
<1> QED BY <1>5, <1>6, <1>7, DrainAdvances

LEMMA ReadQueueStep == ASSUME IInv, ReadQueue PROVE IInv'
<1> DEFINE gone == InQueue \cap (env.old \cup db.details)
           left == Without(db.queue, gone)
           d == [w.drain EXCEPT !.pc = "pick", !.queued = InQueue, !.settled = gone, !.left = left]
<1>1. TypeOK /\ w.req.kind = "none"
  BY NoRequestAt DEF IInv, ReadQueue
<1>2. /\ env' = [env EXCEPT !.released = @ \cup (gone \ db.details)]
      /\ page' = page /\ toPage' = toPage /\ link' = link /\ db' = db /\ op' = op
  BY DEF ReadQueue
<1>3. /\ w \in Workers /\ w.drain \in Drains /\ db.queue \in Seq(Nat) /\ InQueue \in SUBSET Nat
      /\ "pick" \in Pcs \ NeedsHand /\ gone \in SUBSET Nat
  BY <1>1, TypeParts DEF Pcs, NeedsHand
<1>4. left \in Seq(Nat) /\ ToSet(left) \subseteq InQueue
  BY <1>3, WithoutProperties DEF InQueue
<1>5. w' = [w EXCEPT !.drain = d] \/ w' = Return(w)
  BY <1>3 DEF ReadQueue, Leave, Workers, Drains
<1>6. /\ env' \in Envs /\ env'.deaf = env.deaf /\ env'.hands = env.hands
      /\ env'.accepted = env.accepted /\ env'.released = env.released \cup (gone \ db.details)
      /\ toPage \in PageMessages /\ db \in Databases
  BY <1>1, <1>2, <1>3, Storage
<1>7. gone \subseteq db'.details \cup env'.released /\ gone \subseteq InQueue
  BY <1>2, <1>6
<1> HIDE DEF gone, left
<1>8. d \in Drains /\ d.left = left /\ d.settled = gone /\ d.pc = "pick"
  BY <1>3, <1>4 DEF Drains
<1> HIDE DEF d
<1>9. CASE w' = Return(w)
  <2>1. Advanced(w')
    BY <1>1, <1>9, DrainGoes
  <2> QED BY <1>2, <1>6, <2>1, DrainAdvances
<1>10. CASE w' = [w EXCEPT !.drain = d]
  <2>1. /\ w' \in Workers /\ w'.drain = d /\ w'.ingest = w.ingest /\ w'.token = w.token
        /\ w'.tasks = w.tasks /\ w'.req = w.req
    BY <1>3, <1>8, <1>10, DrainSet
  <2>2. DrainFits(w')
    BY <1>1, <1>8, <2>1 DEF DrainFits
  <2>3. ToSet(w'.drain.left) \subseteq Seen /\ w'.drain.settled \subseteq Seen
    BY <1>4, <1>7, <1>8, <2>1 DEF Seen
  <2> QED BY <1>2, <1>6, <1>7, <1>8, <2>1, <2>2, <2>3, DrainMoved
<1> QED BY <1>5, <1>9, <1>10

LEMMA TargetSet ==
  ASSUME IInv, w.req.kind = "none", w.drain.left # <<>>, NEW pc \in {"paused", "send"}
  PROVE  Advanced([w EXCEPT !.drain.target = w.token.conn, !.drain.pc = pc])
<1> DEFINE d == [w.drain EXCEPT !.target = w.token.conn, !.pc = pc]
<1>1. w \in Workers /\ w.drain \in Drains /\ w.token.conn \in Nat /\ pc \in Pcs
  BY TypeParts DEF IInv, Tokens, Pcs
<1>2. d \in Drains /\ d.left = w.drain.left /\ d.settled = w.drain.settled
  BY <1>1 DEF Drains
<1>3. [w EXCEPT !.drain.target = w.token.conn, !.drain.pc = pc] = [w EXCEPT !.drain = d]
  BY <1>1 DEF Workers, Drains
<1> HIDE DEF d
<1> QED BY <1>1, <1>2, <1>3, AdvancedBy

LEMMA PickHandStep == ASSUME IInv, PickHand PROVE IInv'
<1>1. TypeOK /\ w.req.kind = "none"
  BY NoRequestAt DEF IInv, PickHand
<1>2. "settle" \in Pcs \ NeedsHand
  BY DEF Pcs, NeedsHand
<1>3. CASE w.drain.left = <<>>
  <2>1. w' = [w EXCEPT !.drain.pc = "settle"]
    BY <1>3 DEF PickHand, Goto
  <2>2. Advanced(w')
    BY <1>1, <1>2, <2>1, DrainGoes
  <2> QED BY <1>1, <2>2, Storage, DrainAdvances DEF PickHand
<1>4. CASE w.drain.left # <<>>
  <2>1. \/ Abort \/ w' = Skip(w)
        \/ \E pc \in {"paused", "send"} : w' = [w EXCEPT !.drain.target = w.token.conn, !.drain.pc = pc]
    BY <1>4 DEF PickHand
  <2>2. Advanced(w')
    BY <1>1, <1>4, <2>1, DrainGoes, TargetSet DEF Abort
  <2> QED BY <1>1, <2>2, Storage, DrainAdvances DEF PickHand
<1> QED BY <1>3, <1>4

LEMMA PauseEndsStep == ASSUME IInv, PauseEnds PROVE IInv'
<1>1. TypeOK /\ w.req.kind = "none" /\ w.drain.left # <<>>
  BY NoRequestAt DEF IInv, PauseEnds, DrainFits, At
<1>2. \/ Abort \/ w' = Skip(w)
      \/ w' = [w EXCEPT !.drain.target = w.token.conn, !.drain.pc = "send"]
  BY DEF PauseEnds
<1>3. Advanced(w')
  BY <1>1, <1>2, DrainGoes, TargetSet DEF Abort
<1> QED BY <1>1, <1>3, Storage, DrainAdvances DEF PauseEnds

LEMMA DetailRequestStep == ASSUME IInv, requestReplayDetails PROVE IInv'
<1>1. TypeOK /\ w.req.kind = "none" /\ w.drain.left # <<>>
  BY NoRequestAt DEF IInv, requestReplayDetails, DrainFits, At
<1>2. page' = page /\ link' = link /\ db' = db /\ op' = op /\ env' = env
  BY DEF requestReplayDetails
<1>3. w \in Workers /\ w.drain \in Drains /\ Current \in Nat /\ toPage \in PageMessages
      /\ db \in Databases /\ env \in Envs
  <2>1. w \in Workers /\ w.drain \in Drains
    BY <1>1, TypeParts
  <2>2. w.drain.left \in Seq(Nat)
    BY <2>1 DEF Drains
  <2> QED BY <1>1, <2>1, <2>2, Storage, TailSet DEF Current
<1> DEFINE d == [w.drain EXCEPT !.answer = "none", !.issued = TRUE, !.pc = "answered"]
<1>4. Advanced(w') /\ toPage' \in PageMessages
  <2>1. CASE Request("detail", Current, "fetching")
    BY <1>1, <1>3, <2>1, RequestKept
  <2>2. CASE /\ w' = [w EXCEPT !.drain.answer = "none", !.drain.issued = TRUE, !.drain.pc = "answered"]
             /\ toPage' = toPage
    <3>1. "answered" \in Pcs
      BY DEF Pcs
    <3>2. d \in Drains /\ d.left = w.drain.left /\ d.settled = w.drain.settled
      BY <1>3, <3>1 DEF Drains
    <3>3. w' = [w EXCEPT !.drain = d]
      BY <1>3, <2>2 DEF Workers, Drains
    <3> HIDE DEF d
    <3>4. Advanced(w')
      BY <1>1, <1>3, <3>2, <3>3, AdvancedBy
    <3> QED BY <1>3, <2>2, <3>4
  <2> QED BY <2>1, <2>2 DEF requestReplayDetails
<1> QED BY <1>2, <1>3, <1>4, DrainAdvances

\* The hand in hand is settled and the drain goes to the next.
LEMMA HandSettled ==
  ASSUME IInv, w.req.kind = "none", w.drain.left # <<>>,
         w' = [Skip(w) EXCEPT !.drain.settled = @ \cup {Current}]
  PROVE  /\ w' \in Workers /\ DrainFits(w') /\ w'.ingest = w.ingest /\ w'.token = w.token
         /\ w'.tasks = w.tasks /\ ToSet(w'.drain.left) \subseteq Seen /\ w'.drain.settled \subseteq Seen
         /\ w'.drain.settled = w.drain.settled \cup {Current} /\ Current \in Nat
<1> DEFINE y == Skip(w)
           d == [y.drain EXCEPT !.settled = @ \cup {Current}]
<1>1. /\ y \in Workers /\ y.ingest = w.ingest /\ y.token = w.token /\ y.tasks = w.tasks
      /\ y.drain.settled = w.drain.settled /\ ToSet(y.drain.left) \subseteq ToSet(w.drain.left)
      /\ y.drain.pc = "pick" /\ y.req = w.req
  BY DrainGoes DEF Advanced
<1>2. w' = [y EXCEPT !.drain.settled = @ \cup {Current}]
  OBVIOUS
<1> HIDE DEF y
<1>3. y.drain \in Drains /\ w.drain.left \in Seq(Nat)
  BY <1>1, TypeParts DEF Workers, Drains, IInv
<1>4. Current \in Nat /\ Current \in ToSet(w.drain.left)
  BY <1>3, TailSet DEF Current
<1>5. y.drain.settled \cup {Current} \in SUBSET Nat
  BY <1>3, <1>4 DEF Drains
<1>6. d \in Drains /\ d.settled = w.drain.settled \cup {Current} /\ d.left = y.drain.left /\ d.pc = "pick"
  BY <1>1, <1>3, <1>5 DEF Drains
<1>7. w' = [y EXCEPT !.drain = d]
  BY <1>1, <1>2, <1>3 DEF Workers, Drains
<1> HIDE DEF d
<1>8. /\ w' \in Workers /\ w'.drain = d /\ w'.ingest = y.ingest /\ w'.token = y.token
      /\ w'.tasks = y.tasks /\ w'.req = y.req
  <2>1. /\ [y EXCEPT !.drain = d] \in Workers /\ [y EXCEPT !.drain = d].drain = d
        /\ [y EXCEPT !.drain = d].ingest = y.ingest /\ [y EXCEPT !.drain = d].token = y.token
        /\ [y EXCEPT !.drain = d].tasks = y.tasks /\ [y EXCEPT !.drain = d].req = y.req
    BY <1>1, <1>6, DrainSet
  <2> QED BY <1>7, <2>1
<1>9. DrainFits(w')
  BY <1>1, <1>6, <1>8 DEF DrainFits
<1>10. ToSet(w'.drain.left) \subseteq Seen /\ w'.drain.settled \subseteq Seen
  BY <1>1, <1>4, <1>6, <1>8 DEF Seen, SettledSets
<1> QED BY <1>1, <1>4, <1>6, <1>8, <1>9, <1>10

LEMMA DetailAnsweredStep == ASSUME IInv, DetailAnswered PROVE IInv'
<1>1. TypeOK /\ w.req.kind = "none" /\ w.drain.left # <<>>
  BY NoRequestAt DEF IInv, DetailAnswered, DrainFits, At
<1>2. page' = page /\ toPage' = toPage /\ link' = link /\ db' = db /\ op' = op
  BY DEF DetailAnswered
<1>3. toPage \in PageMessages /\ db \in Databases /\ env \in Envs
  BY <1>1, Storage
<1>4. \/ /\ Abort \/ Goto("storing") \/ w' = Skip(w)
         /\ env' = env \/ env' = [env EXCEPT !.failed = TRUE]
      \/ /\ w' = [Skip(w) EXCEPT !.drain.settled = @ \cup {Current}]
         /\ env' = [env EXCEPT !.released = @ \cup {Current}]
  BY DEF DetailAnswered
<1>5. CASE /\ Abort \/ Goto("storing") \/ w' = Skip(w)
           /\ env' = env \/ env' = [env EXCEPT !.failed = TRUE]
  <2>1. "storing" \in Pcs
    BY DEF Pcs
  <2>2. Advanced(w')
    BY <1>1, <1>5, <2>1, DrainGoes DEF Abort, Goto
  <2>3. /\ env' \in Envs /\ env'.deaf = env.deaf /\ env'.hands = env.hands
        /\ env'.accepted = env.accepted /\ env'.released = env.released
    BY <1>1, <1>3, <1>5, Storage
  <2> QED BY <1>2, <1>3, <2>2, <2>3, DrainAdvances
<1>6. CASE /\ w' = [Skip(w) EXCEPT !.drain.settled = @ \cup {Current}]
           /\ env' = [env EXCEPT !.released = @ \cup {Current}]
  <2>1. /\ w' \in Workers /\ DrainFits(w') /\ w'.ingest = w.ingest /\ w'.token = w.token
        /\ w'.tasks = w.tasks /\ ToSet(w'.drain.left) \subseteq Seen /\ w'.drain.settled \subseteq Seen
        /\ w'.drain.settled = w.drain.settled \cup {Current} /\ Current \in Nat
    BY <1>1, <1>6, HandSettled
  <2>2. /\ env' \in Envs /\ env'.deaf = env.deaf /\ env'.hands = env.hands
        /\ env'.accepted = env.accepted /\ env'.released = env.released \cup {Current}
    BY <1>1, <1>6, <2>1, Storage
  <2> QED BY <1>2, <1>3, <2>1, <2>2, DrainMoved
<1> QED BY <1>4, <1>5, <1>6

LEMMA StoreStep == ASSUME IInv, storeReplayDetail PROVE IInv'
<1>1. TypeOK /\ w.req.kind = "none" /\ w.drain.left # <<>>
  BY NoRequestAt DEF IInv, storeReplayDetail, DrainFits, At
<1>2. page' = page /\ toPage' = toPage /\ link' = link /\ op' = op /\ env' = env
  BY DEF storeReplayDetail
<1>3. toPage \in PageMessages /\ db \in Databases /\ env \in Envs
  BY <1>1, Storage
<1>4. CASE Abort /\ db' = db
  <2>1. Advanced(w')
    BY <1>1, <1>4, DrainGoes DEF Abort
  <2> QED BY <1>2, <1>3, <1>4, <2>1, DrainAdvances
<1>5. CASE /\ db' = [db EXCEPT !.details = @ \cup {Current}]
           /\ w' = [Skip(w) EXCEPT !.drain.settled = @ \cup {Current}]
  <2>1. /\ w' \in Workers /\ DrainFits(w') /\ w'.ingest = w.ingest /\ w'.token = w.token
        /\ w'.tasks = w.tasks /\ ToSet(w'.drain.left) \subseteq Seen /\ w'.drain.settled \subseteq Seen
        /\ w'.drain.settled = w.drain.settled \cup {Current} /\ Current \in Nat
    BY <1>1, <1>5, HandSettled
  <2>2. db.details \cup {Current} \in SUBSET Nat
    BY <1>3, <2>1 DEF Databases
  <2>3. db' \in Databases /\ db'.queue = db.queue /\ db'.details = db.details \cup {Current}
    BY <1>3, <1>5, <2>2 DEF Databases
  <2> QED BY <1>2, <1>3, <2>1, <2>3, DrainMoved
<1> QED BY <1>4, <1>5 DEF storeReplayDetail

LEMMA SettleHandsStep == ASSUME IInv, SettleHands PROVE IInv'
<1>1. TypeOK /\ w.req.kind = "none" /\ SessionInv /\ QueueInv /\ HandsInOrder /\ PageQuiet(page)
  BY NoRequestAt DEF IInv, SettleHands, QueueInv
<1>2. page' = page /\ toPage' = toPage /\ link' = link /\ db' = db /\ op' = op /\ env' = env
  BY DEF SettleHands
<1>3. toPage \in PageMessages /\ db \in Databases /\ env \in Envs
  BY <1>1, Storage
<1> DEFINE task == [type |-> "settle", settled |-> w.drain.settled, queued |-> w.drain.queued]
           n == Len(w.tasks) + 1
           d == [w.drain EXCEPT !.pc = "settling", !.wait = n]
           tasks == Append(w.tasks, task)
<1>4. CASE Leave
  <2>1. Advanced(w')
    BY <1>1, <1>4, DrainGoes DEF Leave
  <2> QED BY <1>2, <1>3, <2>1, DrainAdvances
<1>5. CASE w' = [w EXCEPT !.drain.pc = "settling", !.drain.wait = n, !.tasks = tasks]
  <2>1. /\ w \in Workers /\ w.drain \in Drains /\ w.tasks \in Seq(Tasks) /\ n \in Nat
        /\ "settling" \in Pcs \ NeedsHand /\ w.drain.settled \in SUBSET Nat /\ w.drain.queued \in SUBSET Nat
    <3>1. w \in Workers /\ w.drain \in Drains /\ w.tasks \in Seq(Tasks)
      BY <1>1, TypeParts
    <3> QED BY <3>1 DEF Drains, Pcs, NeedsHand
  <2>2. task \in Tasks
    BY <2>1 DEF Tasks
  <2>3. w' = [w EXCEPT !.drain = d, !.tasks = tasks]
    BY <1>5, <2>1 DEF Workers, Drains
  <2>4. HandsOf(<<task>>, "enqueue") = {} /\ Rising(<<task>>, "enqueue")
    BY DEF HandsOf, Rising
  <2>5. task.type = "settle" /\ task.settled = w.drain.settled
    OBVIOUS
  <2> HIDE DEF task, n
  <2>6. tasks \in Seq(Tasks) /\ ToSet(tasks) = ToSet(w.tasks) \cup {task}
    BY <2>1, <2>2, AppendSet
  <2>7. /\ HandsOf(tasks, "enqueue") = HandsOf(w.tasks, "enqueue")
        /\ Rising(w.tasks, "enqueue") => Rising(tasks, "enqueue")
    <3> DEFINE t == <<task>>
    <3>1. t \in Seq(Tasks) /\ tasks = w.tasks \o t /\ HandsOf(t, "enqueue") = {} /\ Rising(t, "enqueue")
      BY <2>1, <2>2, <2>4, AppendIsConcat
    <3> HIDE DEF t, tasks
    <3>2. Below(HandsOf(w.tasks, "enqueue"), HandsOf(t, "enqueue"))
      BY <3>1 DEF Below
    <3>3. HandsOf(w.tasks \o t, "enqueue") = HandsOf(w.tasks, "enqueue") \cup HandsOf(t, "enqueue")
      BY <2>1, <3>1, HandsOfConcat
    <3>4. Rising(w.tasks, "enqueue") => Rising(w.tasks \o t, "enqueue")
      BY <2>1, <3>1, <3>2, HandsOfConcat
    <3> QED BY <3>1, <3>3, <3>4
  <2>8. d \in Drains /\ d.left = w.drain.left /\ d.settled = w.drain.settled /\ d.pc = "settling"
    BY <2>1 DEF Drains
  <2> HIDE DEF d, tasks
  <2>9. /\ w' \in Workers /\ w'.drain = d /\ w'.tasks = tasks /\ w'.ingest = w.ingest
        /\ w'.token = w.token /\ w'.req = w.req
    BY <2>1, <2>3, <2>6, <2>8 DEF Workers
  <2>10. DrainFits(w')
    BY <1>1, <2>8, <2>9 DEF DrainFits
  <2>11. SessionInv'
    BY <1>1, <1>2, <2>9, SessionStep DEF SessionInv
  <2>12. /\ Rising(w'.tasks, "enqueue") /\ Rising(PostsOf(w'.ingest), "hand") /\ Rising(link'.outbox, "hand")
    BY <1>1, <1>2, <2>7, <2>9 DEF HandsInOrder, Coming
  <2>13. /\ IngestHands' = IngestHands /\ OutboxHands' = OutboxHands /\ InQueue' = InQueue
         /\ TaskHands' = TaskHands
    BY <1>2, <2>7, <2>9 DEF IngestHands, OutboxHands, Coming, InQueue, TaskHands
  <2>14. SettledSets' = SettledSets /\ Seen' = Seen
    <3>1. SettledSets' = SettledSets
      BY <2>5, <2>6, <2>8, <2>9 DEF SettledSets
    <3> QED BY <2>8, <2>9, <2>13, <3>1 DEF Seen
  <2>15. QueueInv'
    BY <1>1, <1>2, <2>12, <2>13, <2>14, QueueStep
  <2>16. TypeOK'
    BY <1>1, <1>2, <2>9 DEF TypeOK
  <2> QED BY <1>1, <1>2, <2>9, <2>10, <2>11, <2>15, <2>16 DEF IInv
<1> QED BY <1>4, <1>5 DEF SettleHands

LEMMA DrainEndsStep == ASSUME IInv, DrainEnds PROVE IInv'
<1>1. TypeOK /\ w.req.kind = "none"
  BY NoRequestAt DEF IInv, DrainEnds
<1>2. Advanced(w')
  BY <1>1, DrainGoes DEF DrainEnds, Leave
<1> QED BY <1>1, <1>2, Storage, DrainAdvances DEF DrainEnds

LEMMA DrainStep == ASSUME IInv, Drain PROVE IInv'
BY BarrierStep, AccessStep, VerificationRequestStep, VerdictStep, KeepAliveStep, DrainOnceStep,
   ReadQueueStep, PickHandStep, PauseEndsStep, DetailRequestStep, DetailAnsweredStep, StoreStep,
   SettleHandsStep, DrainEndsStep DEF Drain

-----------------------------------------------------------------------------
(* The timer of a request, the setting, the operations and the calendar.   *)

LEMMA TimeOutStep == ASSUME IInv, TimeOut PROVE IInv'
<1>1. TypeOK /\ DrainFits(w) /\ PageFits(page)
  BY PageFitsNow DEF IInv
<1>2. /\ w' = releaseReplayRequests(w, "error") /\ env' \in {env, Counted}
      /\ page' = page /\ toPage' = toPage /\ link' = link /\ db' = db /\ op' = op
  BY DEF TimeOut
<1>3. w' \in Workers /\ DrainFits(w') /\ Alike(w', w)
  BY <1>1, <1>2, TypeParts, RequestsReleased DEF Outcomes
<1>4. /\ env' \in Envs /\ env'.deaf = env.deaf /\ env'.hands = env.hands
      /\ env'.accepted = env.accepted /\ env'.released = env.released
      /\ toPage' \in PageMessages /\ db' \in Databases
  BY <1>1, <1>2, Counting
<1>5. op' \in Operations
  BY <1>1, <1>2 DEF TypeOK
<1> QED BY <1>1, <1>2, <1>3, <1>4, <1>5, WorkerChanged

LEMMA ToggleFlagStep == ASSUME IInv, ToggleFlag PROVE IInv'
<1>1. TypeOK /\ DrainFits(w) /\ PageFits(page)
  BY PageFitsNow DEF IInv
<1>2. PICK flag \in Flags : db' = [db EXCEPT !.flag = flag]
  BY DEF ToggleFlag
<1>3. /\ w' = drainReplayImportQueue(w) /\ env' = Counted
      /\ page' = page /\ toPage' = toPage /\ link' = link /\ op' = op
  BY DEF ToggleFlag
<1>4. w' \in Workers /\ DrainFits(w') /\ Alike(w', w)
  BY <1>1, <1>3, TypeParts, Triggered
<1>5. /\ env' \in Envs /\ env'.deaf = env.deaf /\ env'.hands = env.hands
      /\ env'.accepted = env.accepted /\ env'.released = env.released
      /\ toPage' \in PageMessages /\ db \in Databases
  BY <1>1, <1>3, Counting
<1>6. db' \in Databases /\ db'.queue = db.queue /\ db'.details = db.details
  BY <1>2, <1>5, ReplayAssumption DEF Databases
<1>7. op' \in Operations
  BY <1>1, <1>3 DEF TypeOK
<1> QED BY <1>1, <1>3, <1>4, <1>5, <1>6, <1>7, WorkerChanged

LEMMA OperationStartsStep == ASSUME IInv, OperationStarts PROVE IInv'
<1>1. TypeOK /\ DrainFits(w) /\ PageFits(page)
  BY PageFitsNow DEF IInv
<1>2. /\ w' = w /\ env' = Counted /\ page' = page /\ toPage' = toPage /\ link' = link /\ db' = db
      /\ op' \in Operations
  BY DEF OperationStarts, Operations
<1>3. w' \in Workers /\ DrainFits(w') /\ Alike(w', w)
  BY <1>1, <1>2, TypeParts DEF Alike
<1>4. /\ env' \in Envs /\ env'.deaf = env.deaf /\ env'.hands = env.hands
      /\ env'.accepted = env.accepted /\ env'.released = env.released
      /\ toPage' \in PageMessages /\ db' \in Databases
  BY <1>1, <1>2, Counting
<1> QED BY <1>1, <1>2, <1>3, <1>4, WorkerChanged

\* The deletion of the user's data ends with an empty queue, of which nothing is promised any more.
LEMMA OperationEndsStep == ASSUME IInv, OperationEnds PROVE IInv'
<1>1. TypeOK /\ DrainFits(w) /\ PageFits(page) /\ SessionInv /\ QueueInv
  BY PageFitsNow DEF IInv
<1>2. /\ w' = drainReplayImportQueue(w) /\ page' = page /\ toPage' = toPage /\ link' = link
      /\ op' = "idle"
  BY DEF OperationEnds
<1>3. w' \in Workers /\ DrainFits(w') /\ Alike(w', w)
  BY <1>1, <1>2, TypeParts, Triggered
<1>4. op' \in Operations /\ toPage \in PageMessages /\ link \in Links /\ env \in Envs /\ db \in Databases
  BY <1>1, <1>2 DEF TypeOK, Operations
<1>5. CASE env' = env /\ db' = db
  BY <1>1, <1>2, <1>3, <1>4, <1>5, WorkerChanged
<1>6. CASE /\ db' = [db EXCEPT !.queue = <<>>, !.details = {}]
           /\ env' = [env EXCEPT !.accepted = {}, !.released = {}]
  <2>1. db' \in Databases /\ db'.queue = <<>>
    <3>1. <<>> \in Seq(Nat) /\ {} \in SUBSET Nat
      BY EmptySeq
    <3> QED BY <1>4, <1>6, <3>1 DEF Databases
  <2>2. /\ env' \in Envs /\ env'.deaf = env.deaf /\ env'.hands = env.hands /\ env'.accepted = {}
    BY <1>4, <1>6 DEF Envs
  <2>3. SessionInv'
    BY <1>1, <1>2, <1>3, <2>2, SessionStep DEF SessionInv, Alike
  <2>4. /\ Rising(w'.tasks, "enqueue") /\ Rising(PostsOf(w'.ingest), "hand") /\ Rising(link'.outbox, "hand")
    BY <1>1, <1>2, <1>3 DEF QueueInv, HandsInOrder, Coming, Alike
  <2>5. IngestHands' = IngestHands /\ OutboxHands' = OutboxHands /\ TaskHands' = TaskHands
    BY <1>2, <1>3 DEF IngestHands, OutboxHands, TaskHands, Coming, Alike
  <2>6. InQueue' = {}
    <3>1. ToSet(<<>>) = {}
      BY SetOfSeq, EmptySeq
    <3> QED BY <2>1, <3>1 DEF InQueue
  <2>7. SettledSets' = SettledSets
    BY <1>3 DEF SettledSets, Alike
  <2>8. Seen' \subseteq Seen
    BY <1>3, <2>6, <2>7 DEF Seen, Alike
  <2>9. QueueInv'
    BY <1>1, <2>2, <2>4, <2>5, <2>7, <2>8, QueueStep
  <2>10. TypeOK'
    BY <1>1, <1>2, <1>3, <1>4, <2>1, <2>2 DEF TypeOK, PageFits
  <2> QED BY <1>1, <1>2, <1>3, <2>3, <2>9, <2>10 DEF IInv, PageFits
<1> QED BY <1>5, <1>6 DEF OperationEnds

LEMMA CalendarStep == ASSUME IInv, PassLapses \/ DayPasses PROVE IInv'
<1>1. TypeOK /\ DrainFits(w) /\ PageFits(page)
  BY PageFitsNow DEF IInv
<1>2. /\ w' = w /\ page' = page /\ toPage' = toPage /\ link' = link /\ db' = db /\ op' = op
      /\ \/ env' = [Counted EXCEPT !.lapsed = TRUE]
         \/ env' = [Counted EXCEPT !.old = Counted.old \cup InQueue]
  BY DEF PassLapses, DayPasses
<1>3. w' \in Workers /\ DrainFits(w') /\ Alike(w', w) /\ InQueue \in SUBSET Nat
  BY <1>1, <1>2, TypeParts DEF Alike
<1>4. /\ Counted \in Envs /\ Counted.deaf = env.deaf /\ Counted.hands = env.hands
      /\ Counted.accepted = env.accepted /\ Counted.released = env.released
      /\ toPage' \in PageMessages /\ db' \in Databases
  BY <1>1, <1>2, Counting
<1> HIDE DEF Counted
<1>5. /\ env' \in Envs /\ env'.deaf = env.deaf /\ env'.hands = env.hands
      /\ env'.accepted = env.accepted /\ env'.released = env.released
  <2>1. Counted.old \cup InQueue \in SUBSET Nat
    BY <1>3, <1>4 DEF Envs
  <2> QED BY <1>2, <1>4, <2>1 DEF Envs
<1>6. op' \in Operations
  BY <1>1, <1>2 DEF TypeOK
<1> QED BY <1>1, <1>2, <1>3, <1>4, <1>5, <1>6, WorkerChanged

-----------------------------------------------------------------------------
(* The invariant holds at first, and every step keeps it.                  *)

LEMMA InitStep == ASSUME Init PROVE IInv
<1>1. PICK flag \in Flags :
        /\ page = NewPage(flag # "off")
        /\ db = [flag |-> flag, phase |-> "disabled", queue |-> <<>>, details |-> {}]
  BY DEF Init
<1>2. /\ toPage = <<>> /\ op = "idle" /\ link = [up |-> TRUE, conn |-> 0, outbox |-> <<>>]
      /\ w = NewWorker(0)
      /\ env = [sessions |-> 0, hands |-> 0, faults |-> 0, lapsed |-> FALSE, old |-> {},
                accepted |-> {}, released |-> {}, deaf |-> FALSE, failed |-> FALSE]
  BY DEF Init
<1>3. /\ w \in Workers /\ DrainFits(w) /\ w.ingest = <<>> /\ w.tasks = <<>> /\ w.token = NoToken
      /\ w.drain.settled = {} /\ w.drain.left = <<>>
  BY <1>2, FreshWorker
<1>4. page \in Pages /\ PageQuiet(page) /\ page.activity = "unknown"
  BY <1>1 DEF NewPage, Pages, Activities, PageQuiet, NoHttp
<1>5. db \in Databases /\ db.queue = <<>>
  BY <1>1, ReplayAssumption DEF Databases, Phases
<1>6. toPage \in PageMessages /\ link \in Links /\ op \in Operations /\ env \in Envs
  BY <1>2 DEF PageMessages, Links, Operations, Envs
<1>7. TypeOK
  BY <1>3, <1>4, <1>5, <1>6 DEF TypeOK
<1>8. SessionInv
  BY <1>2, <1>3, <1>4 DEF SessionInv, TokenFits, NoToken, StartIsAhead, Playing
<1>9. QueueInv
  <2>1. Coming = <<>> /\ link.outbox = <<>>
    BY <1>2, <1>3 DEF Coming, PostsOf
  <2>2. IngestHands = {} /\ OutboxHands = {} /\ TaskHands = {}
    BY <1>3, <2>1, EmptyOutbox DEF IngestHands, OutboxHands, TaskHands
  <2>3. ToSet(<<>>) = {}
    BY SetOfSeq, EmptySeq
  <2>4. SettledSets = {{}}
    BY <1>3, <2>3 DEF SettledSets
  <2>5. Seen = {}
    BY <1>3, <1>5, <2>3, <2>4 DEF Seen, InQueue
  <2>6. HandsInOrder
    BY <1>3, <2>1, <2>2, <2>5, EmptyOutbox DEF HandsInOrder, Below
  <2> QED BY <1>2, <2>4, <2>6 DEF QueueInv, SettledIsKept, QueueLosesNothing
<1> QED BY <1>3, <1>4, <1>7, <1>8, <1>9 DEF IInv

LEMMA StutterStep == ASSUME IInv, UNCHANGED vars PROVE IInv'
<1>1. TypeOK /\ DrainFits(w) /\ PageFits(page)
  BY PageFitsNow DEF IInv
<1>2. /\ w' = w /\ page' = page /\ toPage' = toPage /\ link' = link /\ db' = db /\ op' = op /\ env' = env
  BY DEF vars
<1>3. w' \in Workers /\ DrainFits(w') /\ Alike(w', w)
  BY <1>1, <1>2, TypeParts DEF Alike
<1>4. toPage' \in PageMessages /\ db' \in Databases /\ op' \in Operations /\ env' \in Envs
  BY <1>1, <1>2 DEF TypeOK
<1> QED BY <1>1, <1>2, <1>3, <1>4, WorkerChanged

LEMMA NextStep == ASSUME IInv, [Next]_vars PROVE IInv'
<1>1. CASE SessionStart \/ HandPlayed \/ SessionEnd \/ GameCallsApi \/ ContentSeesFlag
           \/ PageReceives \/ PageTakesRequest \/ HttpEnds
  BY <1>1, SessionStartStep, HandPlayedStep, SessionEndStep, GameCallsApiStep, ContentSeesFlagStep,
     PageReceivesStep, PageTakesRequestStep, HttpEndsStep
<1>2. CASE Disconnect \/ Reconnect \/ WorkerStops \/ Ingest \/ Mutate \/ Drain \/ TimeOut
  BY <1>2, DisconnectStep, ReconnectStep, WorkerStopsStep, IngestStep, MutateStep, DrainStep, TimeOutStep
<1>3. CASE ToggleFlag \/ OperationStarts \/ OperationEnds \/ PassLapses \/ DayPasses
  BY <1>3, ToggleFlagStep, OperationStartsStep, OperationEndsStep, CalendarStep
<1>4. CASE UNCHANGED vars
  BY <1>4, StutterStep
<1> QED BY <1>1, <1>2, <1>3, <1>4 DEF Next

-----------------------------------------------------------------------------
(* A detail is written by the one step that writes one.                    *)

LEMMA OnlyStoreAdds ==
  ASSUME TypeOK, Next, ~(db'.details \subseteq db.details)
  PROVE  storeReplayDetail /\ mayStore
<1>1. db \in Databases
  BY DEF TypeOK
<1>2. CASE SessionStart \/ HandPlayed \/ SessionEnd \/ GameCallsApi \/ ContentSeesFlag
           \/ PageReceives \/ PageTakesRequest \/ HttpEnds
  BY <1>2 DEF SessionStart, HandPlayed, SessionEnd, GameCallsApi, ContentSeesFlag, PageReceives,
              PageTakesRequest, HttpEnds
<1>3. CASE Disconnect \/ Reconnect \/ WorkerStops \/ Ingest \/ TimeOut \/ OperationStarts
           \/ PassLapses \/ DayPasses
  BY <1>3 DEF Disconnect, Reconnect, WorkerStops, Ingest, TimeOut, OperationStarts, PassLapses, DayPasses
<1>4. CASE Mutate
  <2>1. \E kept : db' = [db EXCEPT !.queue = kept]
    BY <1>4 DEF Mutate
  <2>2. db'.details = db.details
    BY <1>1, <2>1 DEF Databases
  <2> QED BY <2>2
<1>5. CASE ToggleFlag \/ OperationEnds
  <2>1. \/ db' = db \/ \E flag : db' = [db EXCEPT !.flag = flag]
        \/ db' = [db EXCEPT !.queue = <<>>, !.details = {}]
    BY <1>5 DEF ToggleFlag, OperationEnds
  <2>2. db'.details \in {db.details, {}}
    BY <1>1, <2>1 DEF Databases
  <2> QED BY <2>2
<1>6. CASE Drain
  <2>1. ASSUME NEW phase, db' = [db EXCEPT !.phase = phase] PROVE FALSE
    <3>1. db'.details = db.details
      BY <1>1, <2>1 DEF Databases
    <3> QED BY <3>1
  <2>2. CASE verifyReplayImportAccess
    BY <2>1, <2>2 DEF verifyReplayImportAccess, Phase
  <2>3. CASE VerificationAnswered
    <3>1. db' = db \/ Phase("disabled") \/ Phase(VerifiedPhase)
      BY <2>3 DEF VerificationAnswered
    <3> QED BY <2>1, <3>1 DEF Phase
  <2>4. CASE storeReplayDetail
    BY <2>4 DEF storeReplayDetail
  <2>5. CASE withKeepAlive \/ requestReplayVerification \/ startKeepAlive \/ drainOnce \/ ReadQueue
             \/ PickHand \/ PauseEnds \/ requestReplayDetails \/ DetailAnswered \/ SettleHands \/ DrainEnds
    BY <2>5 DEF withKeepAlive, requestReplayVerification, startKeepAlive, drainOnce, ReadQueue,
                PickHand, PauseEnds, requestReplayDetails, DetailAnswered, SettleHands, DrainEnds
  <2> QED BY <1>6, <2>2, <2>3, <2>4, <2>5 DEF Drain
<1> QED BY <1>2, <1>3, <1>4, <1>5, <1>6 DEF Next

\* While the page plays, the worker either knows it or has the start before it.
LEMMA StartIsUnderWay ==
  ASSUME IInv, Playing, ~env.deaf, w.token.activity = "inactive"
  PROVE  StartUnderWay
<1>1. w.ingest \in Seq(Items) /\ link.outbox \in Seq(Posts)
  BY TypeParts DEF IInv
<1>2. Opens(link.outbox) \/ Opens(Coming)
  BY DEF IInv, SessionInv, StartIsAhead
<1>3. CASE Opens(link.outbox)
  <2>1. PICK i \in DOMAIN link.outbox : link.outbox[i].type = "start"
    BY <1>3 DEF Opens
  <2>2. link.outbox[i] \in UnderWay
    BY <1>1, <2>1, SetOfSeq DEF UnderWay, ToSet
  <2> QED BY <2>1, <2>2 DEF StartUnderWay
<1>4. CASE Opens(Coming)
  <2>1. PICK i \in DOMAIN w.ingest : w.ingest[i].post.type = "start"
    BY <1>4 DEF Opens, Coming, PostsOf
  <2>2. w.ingest[i] \in ToSet(w.ingest)
    BY <1>1, <2>1 DEF ToSet
  <2>3. w.ingest[i].post \in UnderWay
    BY <2>2 DEF UnderWay
  <2> QED BY <2>1, <2>3 DEF StartUnderWay
<1> QED BY <1>2, <1>3, <1>4

LEMMA StoreBetweenSessionsStep ==
  ASSUME IInv, [Next]_vars, ~(db'.details \subseteq db.details)
  PROVE  ~Playing \/ StartUnderWay \/ env.deaf
<1>1. Next
  BY DEF vars
<1>2. mayStore
  BY <1>1, OnlyStoreAdds DEF IInv
<1>3. w.token.activity = "inactive"
  BY <1>2 DEF mayStore, MayFetch, canFetchNow, isActivePortOutsideSession
<1> QED BY <1>3, StartIsUnderWay

-----------------------------------------------------------------------------
(* The results.                                                            *)

\* The inductive invariant holds in every reachable state of the replay import.
THEOREM Inductive == Spec => []IInv
<1>1. Init => IInv
  BY InitStep
<1>2. IInv /\ [Next]_vars => IInv'
  BY NextStep
<1> QED BY <1>1, <1>2, PTL DEF Spec

\* Every variable of the replay import, the page's and the worker's records and the messages
\* between them, keeps its type.
THEOREM TypeCorrect == Spec => []TypeOK
<1>1. IInv => TypeOK
  BY DEF IInv
<1> QED BY <1>1, Inductive, PTL

\* The page has no request of the extension open at the server while it plays
\* (replay_bridge.ts 682-691).
THEOREM PageStopsItsRequests == Spec => []NoRequestInSession
<1>1. IInv => NoRequestInSession
  BY DEF IInv, PageQuiet, NoRequestInSession, Playing, isPageOutsideSession
<1> QED BY <1>1, Inductive, PTL

\* A hand taken into the queue stays until it is stored, refused for good or deleted,
\* whatever is queued while a drain settles (replay-import.ts 560-565, 722-725).
THEOREM QueueIsKept == Spec => []QueueLosesNothing
<1>1. IInv => QueueLosesNothing
  BY DEF IInv, QueueInv
<1> QED BY <1>1, Inductive, PTL

\* No detail is written while the page plays, unless the start of the session is still on its
\* way to the worker or a deletion was dropping the page's messages (replay-import.ts 660-674).
THEOREM StoredBetweenSessions == Spec => NothingStoredInSession
<1>1. IInv /\ [Next]_vars =>
        [~(db'.details \subseteq db.details) => ~Playing \/ StartUnderWay \/ env.deaf]_vars
  BY StoreBetweenSessionsStep
<1> QED BY <1>1, Inductive, PTL DEF Spec, NothingStoredInSession
=============================================================================
