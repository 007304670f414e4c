------------------------- MODULE LakeAndUpdateProofs -------------------------
(***************************************************************************)
(* Proofs about the Raw Event Lake, for every set of events and every page  *)
(* size, and about the forced update, for any number of checks, messages    *)
(* and writes.                                                              *)
(*                                                                          *)
(* A row of the lake has copies: documents, lines of the export, rows that  *)
(* a page is putting back.  The invariant says that all the copies of this  *)
(* device's rows agree on which event has which key, although nobody holds  *)
(* them all.                                                                *)
(***************************************************************************)
EXTENDS RawLake, ForcedUpdate, TLAPS

\* What the sequence remembers: copies that a restore asks for again.
Asked == cloud \cup file \cup {in \in tx.rest : in.seq # None}
Copies == Present \cup Asked
Own(r) == r.event \notin Foreign

\* Two copies of this device's rows with one key, or with one payload, are one row.
CopiesAgree ==
  \A r, s \in Copies :
    Own(r) /\ Own(s) /\ (Key(r) = Key(s) \/ r.event = s.event) => r = s

\* The only row of an old client's group is its first.
LegacyFirst == \A r \in Copies : r.event \in Legacy => r.seq = 0

\* In the groups that can still grow, the lake knows every copy.
RecentInLake ==
  \A r \in Asked : Own(r) /\ GroupOf[r.event] >= since => r \in lake

\* Only a live event, or one of an old client, comes without a sequence.
Unnumbered ==
  \A in \in tx.rest : Own(in) /\ in.seq = None =>
    in.event \in Legacy \/ GroupOf[in.event] >= since

\* Nothing of this device is from the future.
Stamped == \A r \in Copies \cup tx.rest : Own(r) => GroupOf[r.event] <= now

\* What the cursor of a restore has passed is in the lake, or on its way.
PagesPlaced ==
  job.kind # "none" =>
    \A d \in Source \ Ahead(Source, job.last) :
      \E r \in lake \cup tx.added \cup tx.rest : r.event = d.event

TxClosed == ~tx.open => tx.rest = {} /\ tx.added = {}

CopyInv == CopiesAgree /\ LegacyFirst /\ RecentInLake /\ Unnumbered /\ Stamped
IInv == TypeOK /\ MergesNeverClash /\ TxClosed /\ PagesPlaced /\ CopyInv

USE EventsAssumption, BoundsAssumption DEF Key, Own

-----------------------------------------------------------------------------
LEMMA OwnGroups ==
  ASSUME NEW e \in Events, NEW f \in Events, GroupOf[e] = GroupOf[f]
  PROVE  (e \in Foreign <=> f \in Foreign) /\ (e \in Legacy => e = f)
<1>1. e \in Foreign => f \in Foreign  OBVIOUS
<1>2. f \in Foreign => e \in Foreign  OBVIOUS
<1>3. e \in Legacy => e = f  OBVIOUS
<1> QED  BY <1>1, <1>2, <1>3

\* A merge assigns a number that no row of the group has, and a group without rows gets 0.
LEMMA SequenceIsFree ==
  ASSUME TypeOK, NEW in \in Input, NEW n \in Assigned(in)
  PROVE  /\ n \in Nat
         /\ n \notin Occupied(in.event)
         /\ n = in.seq \/ in.seq = None \/ in.seq \in Occupied(in.event)
         /\ Occupied(in.event) = {} => n = in.seq \/ n = 0
<1> DEFINE O == Occupied(in.event)
<1>1. O \subseteq Nat
  BY DEF TypeOK, Occupied, Group, Present, Row
<1>2. CASE in.seq # None /\ in.seq \notin O
  <2>1. n = in.seq
    BY <1>2 DEF Assigned
  <2>2. in.seq \in Nat
    BY <1>2 DEF Input
  <2> QED  BY <1>2, <2>1, <2>2
<1>3. CASE ~(in.seq # None /\ in.seq \notin O)
  <2>1. n \in NextSequences(O)
    BY <1>3 DEF Assigned
  <2>2. CASE O = {}
    BY <1>3, <2>1, <2>2 DEF NextSequences
  <2>3. CASE O # {}
    <3>1. PICK m \in O : n = m + 1 /\ \A k \in O : k <= m
      BY <2>1, <2>3 DEF NextSequences
    <3>2. m \in Nat
      BY <1>1
    <3>3. n \notin O
      <4> SUFFICES ASSUME n \in O PROVE FALSE
        OBVIOUS
      <4>1. m + 1 <= m
        BY <3>1
      <4> QED  BY <4>1, <3>2
    <3> QED  BY <1>3, <2>3, <3>1, <3>2, <3>3
  <2> QED  BY <2>2, <2>3
<1> QED  BY <1>2, <1>3

-----------------------------------------------------------------------------
LEMMA InitTypeOK == Init => TypeOK
<1>1. LegacyRows \subseteq Row /\ ForeignLines \subseteq Row
  BY DEF LegacyRows, ForeignLines, Row
<1> QED  BY <1>1 DEF Init, TypeOK, NoJob, NoTx

LEMMA PageInputs ==
  ASSUME TypeOK, NEW part \in SUBSET Source,
         NEW inputs \in SUBSET UNION {AsRead(r) : r \in part},
         NEW in \in inputs
  PROVE  /\ in \in Input
         /\ \E r \in part : /\ r \in Row /\ in.event = r.event
                            /\ in = r \/ (in.event \in Legacy /\ in.seq = None)
<1>1. PICK r \in part : in \in AsRead(r)
  OBVIOUS
<1>2. r \in Row
  BY DEF TypeOK, Source
<1>3. CASE in = r
  BY <1>2, <1>3 DEF Row, Input
<1>4. CASE r.event \in Legacy /\ in = [event |-> r.event, seq |-> None]
  BY <1>2, <1>4 DEF Row, Input
<1> QED  BY <1>1, <1>3, <1>4 DEF AsRead

LEMMA NextTypeOK == TypeOK /\ [Next]_vars => TypeOK'
<1> SUFFICES ASSUME TypeOK, [Next]_vars PROVE TypeOK'
  OBVIOUS
<1>1. ASSUME NEW e \in Events, LiveEvent(e) PROVE TypeOK'
  BY <1>1 DEF LiveEvent, Merge, TypeOK, Input
<1>2. ASSUME NEW in \in tx.rest, Place(in) PROVE TypeOK'
  <2>1. in \in Input
    BY DEF TypeOK
  <2>2. \A n \in Assigned(in) : [event |-> in.event, seq |-> n] \in Row
    BY <2>1, SequenceIsFree DEF Row, Input
  <2>3. tx \in [open : BOOLEAN, rest : SUBSET Input, added : SUBSET Row]
    BY DEF TypeOK
  <2>4. CASE tx' = [tx EXCEPT !.rest = @ \ {in}]
    BY <1>2, <2>3, <2>4 DEF Place, TypeOK
  <2>5. ASSUME NEW n \in Assigned(in),
               tx' = [tx EXCEPT !.rest = @ \ {in},
                                !.added = @ \cup {[event |-> in.event, seq |-> n]}]
        PROVE  TypeOK'
    <3>1. tx' \in [open : BOOLEAN, rest : SUBSET Input, added : SUBSET Row]
      BY <2>2, <2>3, <2>5
    <3> QED  BY <1>2, <3>1 DEF Place, TypeOK
  <2> QED  BY <1>2, <2>4, <2>5 DEF Place
<1>3. CASE CommitMerge
  BY <1>3 DEF CommitMerge, TypeOK, NoTx, Present
<1>4. CASE NextMillisecond
  BY <1>4 DEF NextMillisecond, TypeOK
<1>5. ASSUME NEW kind \in {"import", "download"}, StartJob(kind) PROVE TypeOK'
  BY <1>5 DEF StartJob, TypeOK
<1>6. CASE JobPage
  <2>1. PICK part \in SUBSET Ahead(Source, job.last) :
          /\ \E inputs \in SUBSET UNION {AsRead(r) : r \in part} : Merge(inputs)
          /\ \E r \in part : job' = [job EXCEPT !.last = r]
    BY <1>6 DEF JobPage
  <2>2. part \subseteq Source /\ Source \subseteq Row
    BY DEF Ahead, After, Source, TypeOK
  <2>3. job' \in [kind : {"none", "import", "download"}, last : Row \cup {None}]
    BY <2>1, <2>2 DEF TypeOK
  <2>4. tx' \in [open : BOOLEAN, rest : SUBSET Input, added : SUBSET Row]
    <3>1. PICK inputs \in SUBSET UNION {AsRead(r) : r \in part} : Merge(inputs)
      BY <2>1
    <3>2. inputs \subseteq Input
      BY <2>2, PageInputs
    <3> QED  BY <3>1, <3>2 DEF Merge
  <2> QED  BY <1>6, <2>3, <2>4 DEF JobPage, TypeOK
<1>7. CASE EndJob
  BY <1>7 DEF EndJob, TypeOK, NoJob
<1>8. ASSUME NEW r \in lake, Upload(r) PROVE TypeOK'
  BY <1>8 DEF Upload, TypeOK
<1>9. CASE Export
  BY <1>9 DEF Export, TypeOK
<1>10. CASE Restart
  BY <1>10 DEF Restart, TypeOK, NoTx, NoJob
<1>11. CASE DeleteAllData
  BY <1>11 DEF DeleteAllData, TypeOK
<1>12. CASE UNCHANGED vars
  BY <1>12 DEF vars, TypeOK
<1> QED
  BY <1>1, <1>2, <1>3, <1>4, <1>5, <1>6, <1>7, <1>8, <1>9, <1>10, <1>11, <1>12 DEF Next

\* Every variable stays in its type.
THEOREM TypeCorrect == Spec => []TypeOK
<1> QED  BY InitTypeOK, NextTypeOK, PTL DEF Spec

-----------------------------------------------------------------------------
\* One turn of the loop: the payload is known, or the row it adds is new in every way.
LEMMA Placed ==
  ASSUME TypeOK, NEW in \in tx.rest, Place(in)
  PROVE  /\ in \in Input /\ tx.open /\ tx'.open
         /\ tx'.rest = tx.rest \ {in}
         /\ \/ tx'.added = tx.added /\ Known(in.event)
            \/ \E n \in Nat :
                 /\ tx'.added = tx.added \cup {[event |-> in.event, seq |-> n]}
                 /\ ~Known(in.event)
                 /\ n \notin Occupied(in.event)
                 /\ n = in.seq \/ in.seq = None \/ in.seq \in Occupied(in.event)
                 /\ Occupied(in.event) = {} => n = in.seq \/ n = 0
<1>1. in \in Input
  BY DEF TypeOK
<1>2. tx \in [open : BOOLEAN, rest : SUBSET Input, added : SUBSET Row]
  BY DEF TypeOK
<1>3. CASE Known(in.event)
  <2>1. tx.open /\ tx' = [tx EXCEPT !.rest = @ \ {in}]
    BY <1>3 DEF Place
  <2> QED  BY <1>1, <1>2, <1>3, <2>1
<1>4. CASE ~Known(in.event)
  <2>1. PICK n \in Assigned(in) :
          tx' = [tx EXCEPT !.rest = @ \ {in},
                           !.added = @ \cup {[event |-> in.event, seq |-> n]}]
    BY <1>4 DEF Place
  <2>2. /\ n \in Nat
        /\ n \notin Occupied(in.event)
        /\ n = in.seq \/ in.seq = None \/ in.seq \in Occupied(in.event)
        /\ Occupied(in.event) = {} => n = in.seq \/ n = 0
    BY <1>1, SequenceIsFree
  <2>3. /\ tx'.added = tx.added \cup {[event |-> in.event, seq |-> n]}
        /\ tx'.rest = tx.rest \ {in} /\ tx'.open = tx.open
    BY <1>2, <2>1
  <2>4. tx.open
    BY DEF Place
  <2> QED  BY <1>1, <1>4, <2>2, <2>3, <2>4
<1> QED  BY <1>3, <1>4

\* The rows of a group are those Occupied and Known speak of.
LEMMA NewRow ==
  ASSUME TypeOK, NEW e \in Events, NEW n \in Nat,
         n \notin Occupied(e), ~Known(e), NEW r \in Present
  PROVE  r.event # e /\ Key(r) # Key([event |-> e, seq |-> n])
<1>1. r \in Row
  BY DEF TypeOK, Present
<1>2. ASSUME GroupOf[r.event] = GroupOf[e] PROVE r.event # e /\ r.seq # n
  BY <1>2 DEF Known, Occupied, Group
<1> QED  BY <1>1, <1>2 DEF Row

LEMMA NextNeverClash == TypeOK /\ MergesNeverClash /\ [Next]_vars => MergesNeverClash'
<1> SUFFICES ASSUME TypeOK, MergesNeverClash, [Next]_vars PROVE MergesNeverClash'
  OBVIOUS
<1>1. CASE Present' \subseteq Present
  BY <1>1 DEF MergesNeverClash
<1>2. ASSUME NEW in \in tx.rest, Place(in) PROVE MergesNeverClash'
  <2>1. CASE tx'.added = tx.added
    <3>1. Present' \subseteq Present
      BY <1>2, <2>1 DEF Place, Present
    <3> QED  BY <1>1, <3>1
  <2>2. ASSUME NEW n \in Nat,
               tx'.added = tx.added \cup {[event |-> in.event, seq |-> n]},
               ~Known(in.event), n \notin Occupied(in.event)
        PROVE  MergesNeverClash'
    <3> DEFINE new == [event |-> in.event, seq |-> n]
    <3>1. Present' = Present \cup {new}
      BY <1>2, <2>2 DEF Place, Present
    <3>2. in.event \in Events
      BY <1>2, Placed DEF Input
    <3>3. \A r \in Present : r.event # new.event /\ Key(r) # Key(new)
      BY <2>2, <3>2, NewRow
    <3> HIDE DEF new, Key
    <3> QED  BY <3>1, <3>3 DEF MergesNeverClash
  <2> QED  BY <1>2, <2>1, <2>2, Placed
<1>3. CASE CommitMerge
  BY <1>1, <1>3 DEF CommitMerge, Present, NoTx
<1>4. CASE (\E e \in Events : LiveEvent(e)) \/ JobPage
  <2>1. lake' = lake /\ tx'.added = {}
    BY <1>4 DEF LiveEvent, JobPage, Merge
  <2> QED  BY <1>1, <2>1 DEF Present
<1>5. CASE Restart \/ DeleteAllData
  <2>1. lake' \subseteq lake /\ tx'.added \subseteq tx.added
    BY <1>5 DEF Restart, DeleteAllData, NoTx
  <2> QED  BY <1>1, <2>1 DEF Present
<1>6. CASE UNCHANGED <<lake, tx>>
  BY <1>1, <1>6 DEF Present
<1>7. CASE NextMillisecond \/ EndJob \/ Export \/ (\E r \in lake : Upload(r))
           \/ (\E kind \in {"import", "download"} : StartJob(kind))
  BY <1>6, <1>7 DEF NextMillisecond, EndJob, Export, Upload, StartJob
<1> QED  BY <1>2, <1>3, <1>4, <1>5, <1>6, <1>7 DEF Next, vars

-----------------------------------------------------------------------------
LEMMA NextTxClosed == TypeOK /\ TxClosed /\ [Next]_vars => TxClosed'
<1> SUFFICES ASSUME TypeOK, TxClosed, [Next]_vars PROVE TxClosed'
  OBVIOUS
<1>1. ASSUME NEW in \in tx.rest, Place(in) PROVE TxClosed'
  BY <1>1, Placed DEF TxClosed
<1>2. CASE UNCHANGED tx
  BY <1>2 DEF TxClosed
<1> QED
  BY <1>1, <1>2 DEF Next, vars, LiveEvent, CommitMerge, NextMillisecond, StartJob, JobPage,
     EndJob, Upload, Export, Restart, DeleteAllData, Merge, NoTx, TxClosed

LEMMA NextPagesPlaced == TypeOK /\ TxClosed /\ PagesPlaced /\ [Next]_vars => PagesPlaced'
<1> SUFFICES ASSUME TypeOK, TxClosed, PagesPlaced, [Next]_vars PROVE PagesPlaced'
  OBVIOUS
<1> DEFINE Held == lake \cup tx.added \cup tx.rest
\* The job and what it reads stand still, and whatever was on its way stays so.
<1>1. ASSUME UNCHANGED <<job, cloud, file>>,
             \A r \in Held : \E s \in Held' : s.event = r.event
      PROVE  PagesPlaced'
  BY <1>1 DEF PagesPlaced, Source, Ahead, After
<1>2. ASSUME NEW in \in tx.rest, Place(in) PROVE PagesPlaced'
  <2>1. UNCHANGED <<job, cloud, file, lake>>
    BY <1>2 DEF Place
  <2>2. CASE tx'.added = tx.added /\ Known(in.event)
    <3>1. PICK r \in lake \cup tx.added : r.event = in.event
      BY <2>2 DEF Known, Group, Present
    <3> QED  BY <1>1, <1>2, <2>1, <2>2, <3>1, Placed
  <2>3. ASSUME NEW n \in Nat, tx'.added = tx.added \cup {[event |-> in.event, seq |-> n]}
        PROVE  PagesPlaced'
    <3>1. tx'.rest = tx.rest \ {in}
      BY <1>2, Placed
    <3>2. [event |-> in.event, seq |-> n] \in Held'
      BY <2>3
    <3>3. \A r \in Held : r = in \/ r \in Held'
      BY <2>1, <2>3, <3>1
    <3> QED  BY <1>1, <2>1, <3>2, <3>3
  <2> QED  BY <1>2, <2>2, <2>3, Placed
<1>3. CASE CommitMerge
  <2>1. Held' = Held /\ UNCHANGED <<job, cloud, file>>
    BY <1>3 DEF CommitMerge, Present, NoTx
  <2> QED  BY <1>1, <2>1
<1>4. ASSUME NEW e \in Events, LiveEvent(e) PROVE PagesPlaced'
  <2>1. Held = lake /\ lake' = lake /\ UNCHANGED <<job, cloud, file>>
    BY <1>4 DEF LiveEvent, Merge, TxClosed
  <2> QED  BY <1>1, <2>1
<1>5. CASE JobPage
  <2>1. PICK part \in SUBSET Ahead(Source, job.last) :
          /\ IsPage(part, Ahead(Source, job.last))
          /\ \E inputs \in SUBSET UNION {AsRead(r) : r \in part} :
               /\ \A r \in part : AsRead(r) \cap inputs # {}
               /\ Merge(inputs)
          /\ \E r \in part : job' = [job EXCEPT !.last = r]
    BY <1>5 DEF JobPage
  <2>2. PICK last \in part : job' = [job EXCEPT !.last = last]
    BY <2>1
  <2>3. job'.kind = job.kind /\ job'.last = last /\ Source' = Source
    BY <1>5, <2>2 DEF JobPage, Source, TypeOK
  <2>4. ASSUME NEW r \in part PROVE \E in \in tx'.rest : in.event = r.event
    <3>1. PICK inputs : /\ \A s \in part : AsRead(s) \cap inputs # {}
                        /\ tx' = [open |-> TRUE, rest |-> inputs, added |-> {}]
      BY <2>1 DEF Merge
    <3>2. PICK in \in inputs : in \in AsRead(r)
      BY <3>1
    <3> QED  BY <3>1, <3>2 DEF AsRead
  <2>5. ASSUME NEW d \in Source \ Ahead(Source, job.last)
        PROVE  \E r \in lake' : r.event = d.event
    BY <1>5, <2>5 DEF JobPage, Merge, TxClosed, PagesPlaced
  <2>6. ASSUME NEW d \in Ahead(Source, job.last), d \notin part PROVE d \in Ahead(Source, last)
    BY <2>1, <2>6 DEF IsPage, Ahead, After
  <2> QED  BY <2>3, <2>4, <2>5, <2>6 DEF PagesPlaced, Ahead, After
<1>6. ASSUME NEW kind \in {"import", "download"}, StartJob(kind) PROVE PagesPlaced'
  BY <1>6 DEF StartJob, PagesPlaced, Ahead, After
<1>7. CASE EndJob \/ Restart
  BY <1>7 DEF EndJob, Restart, NoJob, PagesPlaced
<1>8. CASE Export \/ DeleteAllData \/ \E r \in lake : Upload(r)
  BY <1>8 DEF Export, DeleteAllData, Upload, PagesPlaced
<1>9. CASE NextMillisecond \/ UNCHANGED vars
  BY <1>1, <1>9 DEF NextMillisecond, vars
<1> QED
  BY <1>2, <1>3, <1>4, <1>5, <1>6, <1>7, <1>8, <1>9 DEF Next

-----------------------------------------------------------------------------
LEMMA FewerCopies ==
  ASSUME Copies' \subseteq Copies, CopiesAgree, LegacyFirst
  PROVE  CopiesAgree' /\ LegacyFirst'
BY DEF CopiesAgree, LegacyFirst

LEMMA PlaceKeepsCopies ==
  ASSUME TypeOK, CopyInv, NEW in \in tx.rest, Place(in)
  PROVE  CopyInv'
<1> USE DEF CopyInv
<1>1. /\ in \in Input /\ UNCHANGED <<now, since, lake, cloud, file>>
      /\ tx'.rest \subseteq tx.rest
  BY Placed DEF Place
<1>2. Asked' \subseteq Asked
  BY <1>1 DEF Asked
<1>3. RecentInLake' /\ Unnumbered'
  BY <1>1, <1>2 DEF RecentInLake, Unnumbered
<1>4. CASE tx'.added = tx.added
  <2>1. Copies' \subseteq Copies
    BY <1>1, <1>2, <1>4 DEF Copies, Present
  <2>2. Stamped'
    BY <1>1, <2>1 DEF Stamped
  <2> QED  BY <1>3, <2>1, <2>2, FewerCopies
<1>5. ASSUME NEW n \in Nat,
             tx'.added = tx.added \cup {[event |-> in.event, seq |-> n]},
             ~Known(in.event),
             n \notin Occupied(in.event),
             n = in.seq \/ in.seq = None \/ in.seq \in Occupied(in.event),
             Occupied(in.event) = {} => n = in.seq \/ n = 0
      PROVE  CopyInv'
  <2> DEFINE new == [event |-> in.event, seq |-> n]
  <2>1. Copies' \subseteq Copies \cup {new}
    BY <1>1, <1>2, <1>5 DEF Copies, Present
  <2>2. Stamped'
    BY <1>1, <2>1 DEF Stamped
  <2>3. \A r \in Copies : r.event \in Events /\ r.seq \in Nat
    BY DEF TypeOK, Copies, Asked, Present, Row, Input
  <2>4. in.event \in Events
    BY <1>1 DEF Input
  <2>5. CASE ~Own(in)
    BY <1>3, <2>1, <2>2, <2>5, <2>4 DEF CopiesAgree, LegacyFirst
  <2>6. CASE Own(in) /\ in.seq # None
    <3>1. in \in Copies
      BY <2>6 DEF Copies, Asked
    <3>2. in.seq \notin Occupied(in.event)
      <4> SUFFICES ASSUME NEW r \in Group(in.event), r.seq = in.seq PROVE FALSE
        BY DEF Occupied
      <4>1. r \in Copies /\ GroupOf[r.event] = GroupOf[in.event]
        BY DEF Group, Copies
      <4>2. r = in
        BY <2>3, <2>4, <2>6, <3>1, <4>1, OwnGroups DEF CopiesAgree
      <4> QED  BY <1>5, <4>2 DEF Known
    <3>3. new = in
      BY <1>1, <1>5, <2>6, <3>2 DEF Input
    <3> QED  BY <1>3, <2>1, <2>2, <3>1, <3>3, FewerCopies
  <2>7. CASE Own(in) /\ in.event \in Legacy /\ in.seq = None
    <3>1. \A r \in Copies : GroupOf[r.event] = GroupOf[in.event] => r.event = in.event
      BY <2>3, <2>4, <2>7, OwnGroups
    <3>2. Occupied(in.event) = {}
      BY <1>5, <3>1 DEF Occupied, Known, Group, Copies
    <3>3. n = 0
      BY <1>5, <2>7, <3>2
    <3>4. ASSUME NEW r \in Copies, Key(r) = Key(new) \/ r.event = new.event PROVE r = new
      <4>1. r.event = in.event
        BY <3>1, <3>4
      <4>2. r.seq = 0
        BY <2>7, <4>1 DEF LegacyFirst
      <4>3. r \in Row
        BY <4>2, <2>7 DEF TypeOK, Copies, Asked, Present, Row, Input
      <4> QED  BY <3>3, <4>1, <4>2, <4>3 DEF Row
    <3>5. LegacyFirst'
      BY <2>1, <3>3 DEF LegacyFirst
    <3> HIDE DEF new, Key
    <3>6. CopiesAgree'
      BY <2>1, <3>4 DEF CopiesAgree
    <3> QED  BY <1>3, <2>2, <3>5, <3>6
  <2>8. CASE Own(in) /\ in.event \notin Legacy /\ in.seq = None
    <3>1. GroupOf[in.event] >= since
      BY <2>8 DEF Unnumbered
    <3>2. ASSUME NEW r \in Copies, Own(r) PROVE Key(r) # Key(new) /\ r.event # new.event
      <4>1. CASE GroupOf[r.event] = GroupOf[in.event]
        <5>1. r \in Present
          BY <3>1, <3>2, <4>1 DEF RecentInLake, Copies, Present
        <5> QED  BY <1>5, <2>4, <5>1, NewRow
      <4>2. CASE GroupOf[r.event] # GroupOf[in.event]
        BY <4>2
      <4> QED  BY <4>1, <4>2
    <3>3. LegacyFirst'
      BY <2>1, <2>8 DEF LegacyFirst
    <3> HIDE DEF new, Key
    <3>4. CopiesAgree'
      BY <2>1, <3>2 DEF CopiesAgree
    <3> QED  BY <1>3, <2>2, <3>3, <3>4
  <2> QED  BY <2>5, <2>6, <2>7, <2>8
<1> QED  BY <1>4, <1>5, Placed

LEMMA NextCopyInv == TypeOK /\ TxClosed /\ CopyInv /\ [Next]_vars => CopyInv'
<1> SUFFICES ASSUME TypeOK, TxClosed, CopyInv, [Next]_vars PROVE CopyInv'
  OBVIOUS
<1> USE DEF CopyInv
<1>0. now \in Nat /\ since \in Nat /\ \A r \in Copies \cup tx.rest : GroupOf[r.event] \in Nat
  BY DEF TypeOK, Copies, Asked, Present, Row, Input
\* Copies are lost, or wait no longer; nothing of the groups that can grow leaves the lake.
<1>1. ASSUME Copies' \subseteq Copies, tx'.rest \subseteq tx.rest,
             now' = now \/ now' = now + 1,
             RecentInLake', UNCHANGED since
      PROVE  CopyInv'
  <2>1. Unnumbered'
    BY <1>1 DEF Unnumbered
  <2>2. Stamped'
    BY <1>0, <1>1 DEF Stamped
  <2> QED  BY <1>1, <2>1, <2>2, FewerCopies
<1>2. CASE Restart \/ CommitMerge \/ NextMillisecond \/ EndJob \/ UNCHANGED vars
           \/ \E kind \in {"import", "download"} : StartJob(kind)
  <2>1. /\ Copies' \subseteq Copies /\ Asked' \subseteq Asked /\ tx'.rest \subseteq tx.rest
        /\ lake \subseteq lake' /\ UNCHANGED since /\ (now' = now \/ now' = now + 1)
    BY <1>2 DEF Restart, CommitMerge, NextMillisecond, EndJob, StartJob, vars, NoTx,
       Copies, Asked, Present
  <2>2. RecentInLake'
    BY <2>1 DEF RecentInLake
  <2> QED  BY <1>1, <2>1, <2>2
<1>3. ASSUME NEW e \in Events, LiveEvent(e) PROVE CopyInv'
  <2>1. /\ tx'.rest = {[event |-> e, seq |-> None]} /\ tx'.added = {}
        /\ UNCHANGED <<now, since, lake, cloud, file>>
        /\ GroupOf[e] >= since /\ GroupOf[e] <= now
    BY <1>0, <1>3 DEF LiveEvent, Merge, EventsAssumption
  <2>2. Copies' \subseteq Copies /\ Asked' \subseteq Asked
    BY <2>1 DEF Copies, Asked, Present
  <2>3. RecentInLake' /\ Unnumbered' /\ Stamped'
    BY <2>1, <2>2 DEF RecentInLake, Unnumbered, Stamped
  <2> QED  BY <2>2, <2>3, FewerCopies
<1>4. ASSUME NEW in \in tx.rest, Place(in) PROVE CopyInv'
  BY <1>4, PlaceKeepsCopies
<1>5. CASE JobPage
  <2>1. PICK part \in SUBSET Source :
          \E inputs \in SUBSET UNION {AsRead(r) : r \in part} : Merge(inputs)
    BY <1>5 DEF JobPage, Ahead, After
  <2>2. PICK inputs \in SUBSET UNION {AsRead(r) : r \in part} : Merge(inputs)
    BY <2>1
  <2>3. /\ tx'.rest = inputs /\ tx'.added = {}
        /\ UNCHANGED <<now, since, lake, cloud, file>>
    BY <1>5, <2>2 DEF JobPage, Merge
  <2>4. \A in \in inputs : \E r \in cloud \cup file :
          in.event = r.event /\ (in = r \/ (in.event \in Legacy /\ in.seq = None))
    BY PageInputs DEF Source
  <2>5. Copies' \subseteq Copies /\ Asked' \subseteq Asked
    BY <2>3, <2>4 DEF Copies, Asked, Present
  <2>6. Unnumbered'
    <3>1. \A r \in cloud \cup file : r.seq # None
      BY DEF TypeOK, Row
    <3> QED  BY <2>3, <2>4, <3>1 DEF Unnumbered
  <2>7. RecentInLake'
    BY <2>3, <2>5 DEF RecentInLake
  <2>8. Stamped'
    BY <2>3, <2>4, <2>5 DEF Stamped, Copies, Asked, Own
  <2> QED  BY <2>5, <2>6, <2>7, <2>8, FewerCopies
<1>6. CASE Export \/ \E r \in lake : Upload(r)
  <2>1. /\ cloud' \cup file' \subseteq cloud \cup file \cup lake
        /\ UNCHANGED <<now, since, lake, tx>>
    BY <1>6 DEF Export, Upload
  <2>2. Copies' \subseteq Copies /\ Asked' \subseteq Asked \cup lake
    BY <2>1 DEF Copies, Asked, Present
  <2>3. RecentInLake'
    BY <2>1, <2>2 DEF RecentInLake
  <2> QED  BY <1>1, <2>1, <2>2, <2>3
<1>7. CASE DeleteAllData
  <2>1. /\ lake' = {} /\ tx' = tx /\ tx.rest = {} /\ tx.added = {}
        /\ now' = now + 1 /\ since' = now + 1 /\ UNCHANGED <<cloud, file>>
    BY <1>7 DEF DeleteAllData, TxClosed
  <2>2. Copies' \subseteq Copies /\ Asked' \subseteq Copies /\ Copies \subseteq Copies \cup tx.rest
    BY <2>1 DEF Copies, Asked, Present
  <2>3. \A r \in Copies : Own(r) => GroupOf[r.event] <= now /\ GroupOf[r.event] \in Nat
    BY <1>0 DEF Stamped
  <2>4. RecentInLake'
    BY <1>0, <2>1, <2>2, <2>3 DEF RecentInLake
  <2>5. Stamped' /\ Unnumbered'
    BY <1>0, <2>1, <2>2, <2>3 DEF Stamped, Unnumbered
  <2> QED  BY <2>2, <2>4, <2>5, FewerCopies
<1> QED
  BY <1>2, <1>3, <1>4, <1>5, <1>6, <1>7 DEF Next

-----------------------------------------------------------------------------
LEMMA InitIInv == Init => IInv
<1> SUFFICES ASSUME Init PROVE IInv
  OBVIOUS
<1>1. TypeOK /\ now \in Nat /\ since = now
  BY InitTypeOK DEF Init
<1>2. /\ lake \subseteq LegacyRows /\ cloud \subseteq LegacyRows
      /\ file \subseteq LegacyRows \cup ForeignLines
      /\ tx.rest = {} /\ tx.added = {} /\ job.kind = "none"
  BY DEF Init, NoTx, NoJob
<1>3. /\ \A r \in LegacyRows : /\ r.event \in Legacy /\ r.seq = 0 /\ r.event \in Events
                               /\ GroupOf[r.event] < now /\ GroupOf[r.event] \in Nat
                               /\ r = [event |-> r.event, seq |-> 0]
      /\ \A r \in ForeignLines : ~Own(r)
  BY DEF LegacyRows, ForeignLines
<1>4. Copies \subseteq LegacyRows \cup ForeignLines /\ Present \subseteq LegacyRows
      /\ Asked \subseteq Copies
  BY <1>2 DEF Copies, Asked, Present
<1>5. \A r, s \in LegacyRows : Key(r) = Key(s) \/ r.event = s.event => r = s
  BY <1>3, OwnGroups
<1>6. MergesNeverClash /\ TxClosed /\ PagesPlaced
  BY <1>2, <1>4, <1>5 DEF MergesNeverClash, TxClosed, PagesPlaced
<1>7. CopiesAgree
  BY <1>3, <1>4, <1>5 DEF CopiesAgree
<1>8. LegacyFirst
  BY <1>3, <1>4 DEF LegacyFirst, ForeignLines
<1>9. RecentInLake /\ Unnumbered /\ Stamped
  BY <1>1, <1>2, <1>3, <1>4 DEF RecentInLake, Unnumbered, Stamped
<1> QED  BY <1>1, <1>6, <1>7, <1>8, <1>9 DEF IInv, CopyInv

LEMMA NextIInv == IInv /\ [Next]_vars => IInv'
BY NextTypeOK, NextNeverClash, NextTxClosed, NextPagesPlaced, NextCopyInv DEF IInv

LEMMA Invariant == Spec => []IInv
BY InitIInv, NextIInv, PTL DEF Spec

-----------------------------------------------------------------------------
\* bulkAdd never meets a taken key, and a payload is stored once.
THEOREM NoMergeClashes == Spec => []MergesNeverClash
<1>1. IInv => MergesNeverClash
  BY DEF IInv
<1> QED  BY <1>1, Invariant, PTL

\* A stored row keeps its key until the database is deleted, and nothing else gets it.
THEOREM RowsKeepTheirKeys == Spec => RowKeepsItsKey
<1> DEFINE Kept == \A r \in lake, s \in lake' : Key(r) = Key(s) \/ r.event = s.event => r = s
<1>1. IInv /\ [Next]_vars => [Kept]_vars
  <2> SUFFICES ASSUME MergesNeverClash, Next PROVE Kept
    BY DEF vars, Kept, IInv
  <2>1. lake' \subseteq Present
    BY DEF Next, LiveEvent, Place, CommitMerge, NextMillisecond, StartJob, JobPage, EndJob,
           Upload, Export, Restart, DeleteAllData, Merge, Present
  <2>2. lake \subseteq Present
    BY DEF Present
  <2> QED  BY <2>1, <2>2 DEF MergesNeverClash
<1> QED  BY <1>1, Invariant, PTL DEF Spec, RowKeepsItsKey

\* An upload overwrites a document with the row it already holds, or with nothing of this
\* device's: the name of a document and the key of a row mean one event for ever.
THEOREM UploadsReplaceNothing == Spec => UploadReplacesNothing
<1> DEFINE Kept == \A d \in {d \in cloud : d.event \notin Foreign} :
                     \E c \in cloud' : Key(c) = Key(d) /\ c.event = d.event
<1>1. IInv /\ [Next]_vars => [Kept]_vars
  <2> SUFFICES ASSUME IInv, Next PROVE Kept
    BY DEF vars, Kept
  <2>1. ASSUME NEW r \in lake, Upload(r) PROVE Kept
    <3> SUFFICES ASSUME NEW d \in cloud, Own(d)
                 PROVE  \E c \in cloud' : Key(c) = Key(d) /\ c.event = d.event
      BY DEF Kept
    <3>1. cloud' = {c \in cloud : Key(c) # Key(r)} \cup {r}
      BY <2>1 DEF Upload
    <3>2. CASE Key(d) = Key(r)
      <4>1. d \in Copies /\ r \in Copies /\ d \in Row /\ r \in Row
        BY DEF Copies, Asked, Present, IInv, TypeOK
      <4>2. Own(r)
        BY <3>2, <4>1, OwnGroups DEF Row
      <4>3. d = r
        BY <3>2, <4>1, <4>2 DEF IInv, CopyInv, CopiesAgree
      <4> QED  BY <3>1, <4>3
    <3>3. CASE Key(d) # Key(r)
      BY <3>1, <3>3
    <3> QED  BY <3>2, <3>3
  <2>2. CASE UNCHANGED cloud
    BY <2>2 DEF Kept
  <2> QED
    BY <2>1, <2>2 DEF Next, LiveEvent, Place, CommitMerge, NextMillisecond, StartJob,
       JobPage, EndJob, Export, Restart, DeleteAllData
<1> QED  BY <1>1, Invariant, PTL DEF Spec, UploadReplacesNothing

\* An import or a download that ends has put every line, or every document, back.
THEOREM RestoresAreComplete == Spec => RestoreIsComplete
<1> DEFINE Complete == job.kind # "none" /\ EndJob =>
                         \A d \in Source : \E r \in lake : r.event = d.event
<1>1. IInv => Complete
  BY DEF Complete, IInv, EndJob, TxClosed, PagesPlaced
<1> QED  BY <1>1, Invariant, PTL DEF RestoreIsComplete

-----------------------------------------------------------------------------
(* The forced update: the inductive invariant.                             *)

\* One upload at most, and it holds the slot; a deletion holds the slot until it ends.
UploadHoldsSlot ==
  /\ \A c \in Checks : checks[c].pc = "upload" => slot = "sync"
  /\ \A c, d \in Checks : checks[c].pc = "upload" /\ checks[d].pc = "upload" => c = d
DeletionHoldsSlot ==
  /\ deletion # "off" => slot = "delete"
  /\ deletion = "delete" => queue = <<>>

\* What a check has left to await is the whole of each tail that has not been replaced.
AwaitsWholeTail(check) ==
  /\ check.pc = "ingestion" /\ ~check.moved => check.ahead = Len(queue)
  /\ check.pc \in {"storage", "decide"} /\ ~check.moved => queue = <<>>
  /\ check.pc = "storage" /\ ~check.rewritten => check.unwritten = writes
  /\ check.pc = "decide" /\ ~check.rewritten => writes = 0
ChecksAwaitWholeTails == \A c \in Checks : AwaitsWholeTail(checks[c])

\* The messages that say something of the game and have not been acted upon, and the last.
Tells(q, begun, i) ==
  /\ i \in DOMAIN q /\ (i > 1 \/ ~begun)
  /\ ~q[i].resent /\ q[i].kind # "other"
TellsLast(q, begun, i) == Tells(q, begun, i) /\ \A j \in DOMAIN q : j > i => ~Tells(q, begun, j)
\* The last one says how the game is; without one, an inactive session is no game.
ActivityLagsByQueue ==
  /\ activity = "inactive" /\ (\A i \in DOMAIN queue : ~Tells(queue, processed, i)) => ~inGame
  /\ \A i \in DOMAIN queue :
       TellsLast(queue, processed, i) => (inGame <=> queue[i].kind = "start")

UpdateIInv ==
  /\ UpdateTypeOK
  /\ UploadHoldsSlot
  /\ DeletionHoldsSlot
  /\ ChecksAwaitWholeTails
  /\ ActivityLagsByQueue
  /\ processed => queue # <<>>

-----------------------------------------------------------------------------
(* The checks that an action begins or moves.                              *)

\* Nothing is awaited yet, or everything that is there.
Fresh(check) ==
  /\ check \in Check
  /\ \/ check.pc \in {"off", "session", "recheck", "recorded", "refused"}
     \/ check.pc = "ingestion" /\ check.ahead = Len(queue)

\* A check that does nothing, or is about to read the record, awaits nothing.
LEMMA IdleIsFresh ==
  ASSUME UpdateTypeOK
  PROVE  /\ Fresh(NoCheck) /\ Fresh(Rechecking)
         /\ Fresh(CheckAt("session")) /\ Fresh(CheckAt("recorded"))
         /\ CheckAt("upload") \in Check
         /\ Fresh([NoCheck EXCEPT !.pc = "refused", !.seen = record])
         /\ [NoCheck EXCEPT !.popup = TRUE] \in Check
         /\ NoRecord \in Record
<1>1. NoRecord \in Record
  BY UpdateBounds DEF NoRecord, Record
<1>2. NoCheck \in Check /\ NoCheck.pc = "off"
  BY <1>1, UpdateBounds DEF NoCheck, Check
<1>3. record \in Record
  BY DEF UpdateTypeOK
<1>4. Fresh(NoCheck)
  BY <1>2 DEF Fresh
<1>5. Fresh(Rechecking)
  BY <1>2, <1>3 DEF Fresh, Rechecking, Check
<1>6. Fresh(CheckAt("session")) /\ Fresh(CheckAt("recorded")) /\ CheckAt("upload") \in Check
  BY <1>2 DEF Fresh, CheckAt, Check
<1>7. Fresh([NoCheck EXCEPT !.pc = "refused", !.seen = record])
  BY <1>2, <1>3 DEF Fresh, Check
<1>8. [NoCheck EXCEPT !.popup = TRUE] \in Check
  BY <1>2 DEF Check
<1>9. QED
  BY <1>1, <1>4, <1>5, <1>6, <1>7, <1>8

\* A check that begins to drain awaits all of the queue.
LEMMA DrainingIsFresh ==
  ASSUME UpdateTypeOK, NEW check \in Check
  PROVE  Fresh(Draining(check))
<1>1. Len(queue) \in 0..MaxQueue /\ 0 \in 0..MaxWrites
  BY UpdateBounds DEF UpdateTypeOK
<1>2. NoRecord \in Record
  BY IdleIsFresh
<1>3. QED
  BY <1>1, <1>2 DEF Fresh, Draining, Check

\* Starting a check changes one check at most, into the one that is started.
LEMMA StartedOne ==
  ASSUME NEW cs \in [Checks -> Check], NEW check \in Check
  PROVE  /\ Started(cs, check) \in [Checks -> Check]
         /\ \A c \in Checks : Started(cs, check)[c] \in {cs[c], check}
BY DEF Started

\* The bookkeeping of the tails keeps a check in its type and where it is.
LEMMA TailsType ==
  ASSUME NEW cs \in [Checks -> Check]
  PROVE  /\ MessageComes(cs) \in [Checks -> Check]
         /\ WriteComes(cs) \in [Checks -> Check]
         /\ MessageGoes(cs) \in [Checks -> Check]
         /\ WriteGoes(cs) \in [Checks -> Check]
<1>1. \A c \in Checks :
        /\ [cs[c] EXCEPT !.moved = TRUE] \in Check
        /\ [cs[c] EXCEPT !.rewritten = TRUE] \in Check
  BY DEF Check
<1>2. \A c \in Checks : cs[c].ahead > 0 => [cs[c] EXCEPT !.ahead = @ - 1] \in Check
  BY UpdateBounds DEF Check
<1>3. \A c \in Checks : cs[c].unwritten > 0 => [cs[c] EXCEPT !.unwritten = @ - 1] \in Check
  BY UpdateBounds DEF Check
<1>4. QED
  BY <1>1, <1>2, <1>3 DEF MessageComes, WriteComes, MessageGoes, WriteGoes

\* When the tails stay, checks that stay or are fresh keep awaiting whole tails.
LEMMA FreshAwaitsWholeTail ==
  ASSUME ChecksAwaitWholeTails, queue' = queue, writes' = writes,
         \A c \in Checks : checks'[c] = checks[c] \/ Fresh(checks'[c])
  PROVE  ChecksAwaitWholeTails'
BY DEF ChecksAwaitWholeTails, AwaitsWholeTail, Fresh

\* When the page's part of the state stays, so does what the queue says of the game.
LEMMA PageStays ==
  ASSUME UpdateIInv, UNCHANGED page
  PROVE  ActivityLagsByQueue' /\ (processed => queue # <<>>)'
BY DEF UpdateIInv, page, ActivityLagsByQueue

\* A step that leaves the tails alone has only the slot and the checks to account for.
LEMMA QuietStep ==
  ASSUME UpdateIInv, UNCHANGED <<page, writes>>,
         UpdateTypeOK', UploadHoldsSlot', DeletionHoldsSlot',
         \A c \in Checks : checks'[c] = checks[c] \/ Fresh(checks'[c])
  PROVE  UpdateIInv'
<1>1. ChecksAwaitWholeTails'
  BY FreshAwaitsWholeTail DEF UpdateIInv, page
<1>2. ActivityLagsByQueue' /\ (processed => queue # <<>>)'
  BY PageStays
<1>3. QED
  BY <1>1, <1>2 DEF UpdateIInv

\* A check that is replaced by a fresh one neither begins nor joins an upload.
LEMMA FreshUploadsNothing ==
  ASSUME UploadHoldsSlot, UNCHANGED slot,
         \A c \in Checks : checks'[c] = checks[c] \/ Fresh(checks'[c])
  PROVE  UploadHoldsSlot'
BY DEF UploadHoldsSlot, Fresh

-----------------------------------------------------------------------------
(* The initial states.                                                     *)

LEMMA UpdateInitIInv == UpdateInit => UpdateIInv
<1> SUFFICES ASSUME UpdateInit PROVE UpdateIInv
  OBVIOUS
<1>a. /\ NoRecord \in Record
      /\ \A v \in 1..MaxVersion : [pending |-> TRUE, version |-> v] \in Record
  BY UpdateBounds DEF Record, NoRecord
<1>1. record \in Record
  BY <1>a DEF UpdateInit
<1>b. NoCheck \in Check
  BY <1>a, UpdateBounds DEF NoCheck, Check
<1>2. Rechecking \in Check
  BY <1>1, <1>b DEF Rechecking, Check
<1>3. /\ checks \in [Checks -> Check]
      /\ \A c \in Checks : checks[c] \in {NoCheck, Rechecking}
  <2>1. [c \in Checks |-> NoCheck] \in [Checks -> Check]
    BY <1>b
  <2>2. QED
    BY <1>2, <2>1, StartedOne DEF UpdateInit
<1>4. UpdateTypeOK
  <2>1. queue \in Seq(Message) /\ Len(queue) <= MaxQueue
    BY UpdateBounds DEF UpdateInit
  <2>2. /\ writes \in 0..MaxWrites
        /\ installed \in 1..MaxVersion /\ downloaded \in installed..MaxVersion
    BY UpdateBounds DEF UpdateInit
  <2>3. QED
    BY <1>1, <1>3, <2>1, <2>2 DEF UpdateTypeOK, UpdateInit
<1>5. \A c \in Checks : checks[c].pc \in {"off", "recheck"}
  <2>1. NoCheck.pc = "off" /\ Rechecking.pc = "recheck"
    BY DEF NoCheck, Rechecking
  <2>2. QED
    BY <1>3, <2>1
<1>6. UploadHoldsSlot /\ DeletionHoldsSlot /\ ChecksAwaitWholeTails
  BY <1>5 DEF UploadHoldsSlot, DeletionHoldsSlot, ChecksAwaitWholeTails, AwaitsWholeTail, UpdateInit
<1>7. ActivityLagsByQueue /\ (processed => queue # <<>>)
  BY DEF ActivityLagsByQueue, UpdateInit
<1>8. QED
  BY <1>4, <1>6, <1>7 DEF UpdateIInv

-----------------------------------------------------------------------------
(* The messages of the page.                                               *)

LEMMA AcceptKeepsIInv ==
  ASSUME UpdateIInv, NEW m \in Message, Accept(m)
  PROVE  UpdateIInv'
<1> USE DEF UpdateIInv
<1>1. queue' = Append(queue, m) /\ queue' \in Seq(Message) /\ Len(queue') = Len(queue) + 1
  BY DEF Accept, UpdateTypeOK
<1>2. UpdateTypeOK'
  <2>1. checks' \in [Checks -> Check]
    BY TailsType DEF Accept, UpdateTypeOK
  <2>2. inGame' \in BOOLEAN
    BY DEF Accept, UpdateTypeOK
  <2>3. Len(queue') <= MaxQueue
    BY <1>1, UpdateBounds DEF Accept, UpdateTypeOK
  <2>4. QED
    BY <1>1, <2>1, <2>2, <2>3 DEF Accept, UpdateTypeOK, updates, chrome
<1>3. \A c \in Checks : checks'[c].pc = checks[c].pc
  BY DEF Accept, MessageComes, UpdateTypeOK, Check
<1>4. UploadHoldsSlot' /\ DeletionHoldsSlot'
  BY <1>3 DEF Accept, UploadHoldsSlot, DeletionHoldsSlot
<1>5. ChecksAwaitWholeTails'
  BY DEF Accept, MessageComes, UpdateTypeOK, Check, Awaiting, ChecksAwaitWholeTails, AwaitsWholeTail
<1>6. ActivityLagsByQueue'
  <2> DEFINE n == Len(queue)
  <2>1. /\ n \in Nat /\ DOMAIN queue = 1..n /\ DOMAIN queue' = 1..(n + 1)
        /\ \A i \in 1..n : queue'[i] = queue[i]
        /\ queue'[n + 1] = m
    BY <1>1 DEF UpdateTypeOK
  <2>2. processed => n > 0
    BY DEF UpdateTypeOK
  <2>3. processed' = processed /\ activity' = activity
    BY DEF Accept
  <2> HIDE DEF n
  <2>4. \A i \in 1..n : Tells(queue', processed', i) <=> Tells(queue, processed, i)
    BY <2>1, <2>3 DEF Tells
  <2>5. CASE m.resent \/ m.kind = "other"
    <3>1. ~Tells(queue', processed', n + 1) /\ inGame' = inGame
      BY <2>1, <2>5 DEF Tells, Accept
    <3>2. \A i \in 1..n : TellsLast(queue', processed', i) => TellsLast(queue, processed, i)
      BY <2>1, <2>4 DEF TellsLast
    <3>3. ~TellsLast(queue', processed', n + 1)
      BY <3>1 DEF TellsLast
    <3>4. QED
      BY <2>1, <2>3, <2>4, <3>1, <3>2, <3>3 DEF ActivityLagsByQueue
  <2>6. CASE ~(m.resent \/ m.kind = "other")
    <3>a. n + 1 > 1 \/ ~processed
      BY <2>1, <2>2
    <3>b. Tells(queue', processed', n + 1)
      BY <2>1, <2>3, <2>6, <3>a DEF Tells
    <3>c. inGame' <=> m.kind = "start"
      BY <2>6 DEF Accept
    <3>1. Tells(queue', processed', n + 1) /\ (inGame' <=> m.kind = "start")
      BY <3>b, <3>c
    <3>2. \A i \in 1..n : ~TellsLast(queue', processed', i)
      BY <2>1, <3>1 DEF TellsLast
    <3>3. QED
      BY <2>1, <3>1, <3>2 DEF ActivityLagsByQueue
  <2>7. QED
    BY <2>5, <2>6
<1>7. processed' => queue' # <<>>
  BY <1>1 DEF UpdateTypeOK
<1>8. QED
  BY <1>2, <1>4, <1>5, <1>6, <1>7

LEMMA ProcessKeepsIInv ==
  ASSUME UpdateIInv, Process
  PROVE  UpdateIInv'
<1> USE DEF UpdateIInv
<1>1. UNCHANGED <<inGame, queue, slot, writes, deletion, updates, reload>> /\ processed' = TRUE
  BY DEF Process
<1>2. Head(queue) \in Message /\ Head(queue) = queue[1] /\ processed = FALSE
  BY DEF Process, UpdateTypeOK
<1>a. /\ Len(queue) \in Nat /\ Len(queue) > 0 /\ DOMAIN queue = 1..Len(queue)
      /\ 1 \in DOMAIN queue
  BY DEF Process, UpdateTypeOK
<1>3. PICK merged \in {IF Head(queue).resent THEN "duplicate" ELSE "stored", "failed"} :
        /\ activity' = SessionActivity(Head(queue), merged)
        /\ checks' = IF merged = "stored" THEN Started(checks, Triggered(Head(queue))) ELSE checks
  BY DEF Process
<1>4. /\ checks' \in [Checks -> Check]
      /\ \A c \in Checks : checks'[c] = checks[c] \/ Fresh(checks'[c])
  <2>1. Fresh(Triggered(Head(queue)))
    BY IdleIsFresh DEF Triggered
  <2>2. Triggered(Head(queue)) \in Check
    BY <2>1 DEF Fresh
  <2>3. CASE merged = "stored"
    BY <1>3, <2>1, <2>2, <2>3, StartedOne DEF UpdateTypeOK
  <2>4. CASE merged # "stored"
    BY <1>3, <2>4 DEF UpdateTypeOK
  <2>5. QED
    BY <2>3, <2>4
<1>5. UpdateTypeOK'
  <2>1. activity' \in {"unknown", "active", "inactive"}
    BY <1>3 DEF SessionActivity, UpdateTypeOK
  <2>2. QED
    BY <1>1, <1>4, <2>1 DEF UpdateTypeOK, updates, chrome
<1>6. UploadHoldsSlot' /\ DeletionHoldsSlot'
  BY <1>1, <1>4, FreshUploadsNothing DEF DeletionHoldsSlot
<1>7. ChecksAwaitWholeTails'
  BY <1>1, <1>4, FreshAwaitsWholeTail
<1>8. ActivityLagsByQueue'
  <2>1. \A i \in DOMAIN queue : Tells(queue, TRUE, i) <=> i # 1 /\ Tells(queue, FALSE, i)
    BY <1>a DEF Tells
  <2>2. \A i \in DOMAIN queue : TellsLast(queue, TRUE, i) => TellsLast(queue, FALSE, i)
    <3>1. \A j \in DOMAIN queue : j # 1 => (~Tells(queue, TRUE, j) => ~Tells(queue, FALSE, j))
      BY <2>1
    <3>2. \A i, j \in DOMAIN queue : j > i => j # 1
      BY <1>a
    <3>3. \A i \in DOMAIN queue : Tells(queue, TRUE, i) => Tells(queue, FALSE, i)
      BY <2>1
    <3>4. QED
      BY <3>1, <3>2, <3>3 DEF TellsLast
  <2>3. \A i \in DOMAIN queue : TellsLast(queue', processed', i)
                                 => (inGame' <=> queue'[i].kind = "start")
    BY <1>1, <1>2, <2>2 DEF ActivityLagsByQueue
  <2>4. ASSUME activity' = "inactive", \A i \in DOMAIN queue : ~Tells(queue, TRUE, i)
        PROVE  ~inGame
    <3>1. \A i \in DOMAIN queue : i # 1 => ~Tells(queue, FALSE, i)
      BY <2>1, <2>4
    <3>2. CASE Tells(queue, FALSE, 1)
      <4>1. TellsLast(queue, FALSE, 1)
        <5>1. \A j \in DOMAIN queue : j > 1 => j # 1
          BY <1>a
        <5>2. QED
          BY <3>1, <3>2, <5>1 DEF TellsLast
      <4>2. inGame <=> queue[1].kind = "start"
        BY <1>2, <1>a, <4>1 DEF ActivityLagsByQueue
      <4>3. queue[1].kind # "start"
        BY <1>2, <1>3, <2>4, <3>2 DEF SessionActivity, Tells
      <4>4. QED
        BY <4>2, <4>3
    <3>3. CASE ~Tells(queue, FALSE, 1)
      <4>1. \A i \in DOMAIN queue : ~Tells(queue, processed, i)
        BY <1>2, <3>1, <3>3
      <4>2. queue[1].resent \/ queue[1].kind = "other"
        BY <1>a, <1>2, <3>3 DEF Tells
      <4>3. queue[1].resent => queue[1].kind = "end"
        BY <1>2 DEF Message
      <4>4. activity = "inactive"
        BY <1>2, <1>3, <2>4, <4>2, <4>3 DEF SessionActivity
      <4>5. QED
        BY <4>1, <4>4 DEF ActivityLagsByQueue
    <3>4. QED
      BY <3>2, <3>3
  <2>5. QED
    BY <1>1, <2>3, <2>4 DEF ActivityLagsByQueue
<1>9. processed' => queue' # <<>>
  BY <1>1 DEF Process
<1>10. QED
  BY <1>5, <1>6, <1>7, <1>8, <1>9

LEMMA SettleKeepsIInv ==
  ASSUME UpdateIInv, Settle
  PROVE  UpdateIInv'
<1> USE DEF UpdateIInv
<1> DEFINE n == Len(queue)
<1>1. /\ n \in Nat /\ n > 0 /\ DOMAIN queue = 1..n /\ DOMAIN queue' = 1..(n - 1)
      /\ queue' \in Seq(Message) /\ Len(queue') = n - 1
      /\ \A i \in 1..(n - 1) : queue'[i] = queue[i + 1]
  BY DEF Settle, UpdateTypeOK
<1>2. /\ processed = TRUE /\ processed' = FALSE
      /\ UNCHANGED <<inGame, activity, slot, writes, deletion, updates, reload>>
  BY DEF Settle, UpdateTypeOK
<1>3. UpdateTypeOK'
  <2>1. checks' \in [Checks -> Check]
    BY TailsType DEF Settle, UpdateTypeOK
  <2>2. Len(queue') <= MaxQueue
    BY <1>1, UpdateBounds DEF UpdateTypeOK
  <2>3. QED
    BY <1>1, <1>2, <2>1, <2>2 DEF UpdateTypeOK, updates, chrome
<1>4. \A c \in Checks : checks'[c].pc = checks[c].pc
  BY DEF Settle, MessageGoes, UpdateTypeOK, Check
<1>5. UploadHoldsSlot' /\ DeletionHoldsSlot'
  BY <1>1, <1>2, <1>4 DEF UploadHoldsSlot, DeletionHoldsSlot
<1>6. ChecksAwaitWholeTails'
  <2> SUFFICES ASSUME NEW c \in Checks PROVE AwaitsWholeTail(checks[c])'
    BY DEF ChecksAwaitWholeTails
  <2>1. AwaitsWholeTail(checks[c]) /\ checks[c] \in Check
    BY DEF ChecksAwaitWholeTails, UpdateTypeOK
  <2>2. checks'[c] = IF checks[c].ahead > 0 THEN [checks[c] EXCEPT !.ahead = @ - 1] ELSE checks[c]
    BY DEF Settle, MessageGoes
  <2>3. queue # <<>> /\ Len(queue') = Len(queue) - 1 /\ Len(queue) > 0 /\ writes' = writes
    BY <1>1, <1>2
  <2>4. QED
    BY <2>1, <2>2, <2>3 DEF AwaitsWholeTail, Check
<1>7. ActivityLagsByQueue'
  <2> HIDE DEF n
  <2>1. \A i \in 1..(n - 1) : Tells(queue', FALSE, i) <=> Tells(queue, TRUE, i + 1)
    BY <1>1 DEF Tells
  <2>2. \A i \in 1..n : Tells(queue, TRUE, i) => i > 1
    BY <1>1 DEF Tells
  <2>3. \A i \in 1..(n - 1) : TellsLast(queue', FALSE, i) => TellsLast(queue, TRUE, i + 1)
    <3> SUFFICES ASSUME NEW i \in 1..(n - 1), TellsLast(queue', FALSE, i),
                        NEW j \in 1..n, j > i + 1
                 PROVE  Tells(queue, TRUE, i + 1) /\ ~Tells(queue, TRUE, j)
      BY <1>1, <2>1 DEF TellsLast
    <3>1. j - 1 \in 1..(n - 1) /\ j - 1 > i /\ (j - 1) + 1 = j
      BY <1>1
    <3>2. QED
      BY <1>1, <2>1, <3>1 DEF TellsLast
  <2>4. (\A i \in 1..(n - 1) : ~Tells(queue', FALSE, i))
          => \A i \in 1..n : ~Tells(queue, TRUE, i)
    <3> SUFFICES ASSUME \A i \in 1..(n - 1) : ~Tells(queue', FALSE, i),
                        NEW i \in 1..n, Tells(queue, TRUE, i)
                 PROVE  FALSE
      OBVIOUS
    <3>a. i > 1
      BY <2>2
    <3>1. i - 1 \in 1..(n - 1) /\ (i - 1) + 1 = i
      BY <1>1, <3>a
    <3>2. QED
      BY <2>1, <3>1
  <2>5. \A i \in 1..(n - 1) : i + 1 \in 1..n
    BY <1>1
  <2>6. activity' = "inactive" /\ (\A i \in DOMAIN queue' : ~Tells(queue', processed', i)) => ~inGame'
    BY <1>1, <1>2, <2>4 DEF ActivityLagsByQueue
  <2>7. ASSUME NEW i \in DOMAIN queue', TellsLast(queue', processed', i)
        PROVE  inGame' <=> queue'[i].kind = "start"
    <3>1. i \in 1..(n - 1) /\ TellsLast(queue, TRUE, i + 1)
      BY <1>1, <1>2, <2>3, <2>7
    <3>2. i + 1 \in DOMAIN queue /\ queue'[i] = queue[i + 1]
      BY <1>1, <2>5, <3>1
    <3>3. QED
      BY <1>1, <1>2, <3>1, <3>2 DEF ActivityLagsByQueue
  <2>8. QED
    BY <2>6, <2>7 DEF ActivityLagsByQueue
<1>8. QED
  BY <1>2, <1>3, <1>5, <1>6, <1>7

-----------------------------------------------------------------------------
(* The writes, the operations and the updates.                             *)

LEMMA WritesKeepIInv ==
  ASSUME UpdateIInv, EnqueueWrite \/ SettleWrite
  PROVE  UpdateIInv'
<1> USE DEF UpdateIInv
<1>1. UNCHANGED <<page, slot, deletion, updates, reload>>
  BY DEF EnqueueWrite, SettleWrite
<1>2. writes' \in 0..MaxWrites
  BY UpdateBounds DEF EnqueueWrite, SettleWrite, WritesLeft, UpdateTypeOK
<1>3. checks' \in [Checks -> Check]
  BY TailsType DEF EnqueueWrite, SettleWrite, UpdateTypeOK
<1>4. UpdateTypeOK'
  BY <1>1, <1>2, <1>3 DEF UpdateTypeOK, page, updates, chrome
<1>5. \A c \in Checks : checks'[c].pc = checks[c].pc
  BY DEF EnqueueWrite, SettleWrite, WriteComes, WriteGoes, UpdateTypeOK, Check
<1>6. UploadHoldsSlot' /\ DeletionHoldsSlot'
  BY <1>1, <1>5 DEF UploadHoldsSlot, DeletionHoldsSlot, page
<1>7. ChecksAwaitWholeTails'
  <2> SUFFICES ASSUME NEW c \in Checks PROVE AwaitsWholeTail(checks[c])'
    BY DEF ChecksAwaitWholeTails
  <2>1. AwaitsWholeTail(checks[c]) /\ checks[c] \in Check /\ writes \in Nat
    BY UpdateBounds DEF ChecksAwaitWholeTails, UpdateTypeOK
  <2>2. queue' = queue
    BY <1>1 DEF page
  <2>3. CASE EnqueueWrite
    <3>1. checks'[c] = IF checks[c].pc \in {"storage", "decide"}
                       THEN [checks[c] EXCEPT !.rewritten = TRUE] ELSE checks[c]
      BY <2>3 DEF EnqueueWrite, WriteComes
    <3>2. QED
      BY <2>1, <2>2, <3>1 DEF AwaitsWholeTail, Check
  <2>4. CASE SettleWrite
    <3>1. checks'[c] = IF checks[c].unwritten > 0
                       THEN [checks[c] EXCEPT !.unwritten = @ - 1] ELSE checks[c]
      BY <2>4 DEF SettleWrite, WriteGoes
    <3>2. writes > 0 /\ writes' = writes - 1
      BY <2>4 DEF SettleWrite, WritesLeft
    <3>3. QED
      BY <2>1, <2>2, <3>1, <3>2 DEF AwaitsWholeTail, Check
  <2>5. QED
    BY <2>3, <2>4
<1>8. QED
  BY <1>1, <1>4, <1>6, <1>7, PageStays

\* Operations and deletions: the slot passes from hand to hand.
LEMMA OperationsKeepIInv ==
  ASSUME UpdateIInv, StartOperation \/ EndOperation \/ StartDeletion \/ Deletion
  PROVE  UpdateIInv'
<1> USE DEF UpdateIInv
<1>1. UNCHANGED <<page, writes, updates>>
  BY DEF StartOperation, EndOperation, StartDeletion, Deletion, DeletionDrained,
         DeletionReloads, DeletionFails
<1>2. checks' = checks \/ checks' = OnIdle(checks)
  BY DEF StartOperation, EndOperation, StartDeletion, Deletion, DeletionDrained,
         DeletionReloads, DeletionFails
<1>3. /\ checks' \in [Checks -> Check]
      /\ \A c \in Checks : checks'[c] = checks[c] \/ Fresh(checks'[c])
  <2>1. Fresh(Rechecking) /\ Rechecking \in Check
    BY IdleIsFresh DEF Fresh
  <2>2. QED
    BY <1>2, <2>1, StartedOne DEF OnIdle, UpdateTypeOK
<1>4. /\ slot' \in {"idle", "sync", "busy", "delete"}
      /\ deletion' \in {"off", "drain", "delete", "done"}
      /\ reload' \in {"no", "update", "delete"}
  BY DEF StartOperation, EndOperation, StartDeletion, Deletion, DeletionDrained,
         DeletionReloads, DeletionFails, UpdateTypeOK
<1>5. UpdateTypeOK'
  BY <1>1, <1>3, <1>4 DEF UpdateTypeOK, page, updates, chrome
<1>6. DeletionHoldsSlot'
  BY <1>1 DEF StartOperation, EndOperation, StartDeletion, Deletion, DeletionDrained,
              DeletionReloads, DeletionFails, DeletionHoldsSlot, page
<1>7. UploadHoldsSlot'
  <2>1. slot' = slot \/ slot \in {"idle", "busy", "delete"}
    BY DEF StartOperation, EndOperation, StartDeletion, Deletion, DeletionDrained,
           DeletionReloads, DeletionFails, DeletionHoldsSlot
  <2>2. CASE slot' = slot
    BY <1>3, <2>2, FreshUploadsNothing
  <2>3. CASE slot \in {"idle", "busy", "delete"}
    BY <1>3, <2>3 DEF UploadHoldsSlot, Fresh
  <2>4. QED
    BY <2>1, <2>2, <2>3
<1>8. QED
  BY <1>1, <1>3, <1>5, <1>6, <1>7, QuietStep

\* An update is found, and the popup asks for one.
LEMMA UpdatesKeepIInv ==
  ASSUME UpdateIInv, UpdateAvailable \/ ApplyNow
  PROVE  UpdateIInv'
<1> USE DEF UpdateIInv
<1>1. UNCHANGED <<page, slot, writes, deletion, lost, installed, reload>>
  BY DEF UpdateAvailable, ApplyNow, updates, chrome
<1>2. PICK check : Fresh(check) /\ checks' = Started(checks, check)
  <2>1. Fresh(CheckAt("recorded")) /\ Fresh(Draining([NoCheck EXCEPT !.popup = TRUE]))
    BY IdleIsFresh, DrainingIsFresh
  <2>2. QED
    BY <2>1 DEF UpdateAvailable, ApplyNow
<1>3. /\ checks' \in [Checks -> Check]
      /\ \A c \in Checks : checks'[c] = checks[c] \/ Fresh(checks'[c])
  <2>1. check \in Check
    BY <1>2 DEF Fresh
  <2>2. QED
    BY <1>2, <2>1, StartedOne DEF UpdateTypeOK
<1>4. downloaded' \in installed..MaxVersion /\ record' \in Record
  <2>1. CASE UpdateAvailable
    <3>1. downloaded' \in installed..MaxVersion /\ downloaded' \in 0..MaxVersion
      BY <2>1, UpdateBounds DEF UpdateAvailable, UpdateTypeOK
    <3>2. QED
      BY <2>1, <3>1 DEF UpdateAvailable, Record
  <2>2. CASE ApplyNow
    BY <2>2 DEF ApplyNow, updates, chrome, UpdateTypeOK
  <2>3. QED
    BY <2>1, <2>2
<1>5. UpdateTypeOK'
  BY <1>1, <1>3, <1>4 DEF UpdateTypeOK, page
<1>6. UploadHoldsSlot' /\ DeletionHoldsSlot'
  BY <1>1, <1>3, FreshUploadsNothing DEF DeletionHoldsSlot, page
<1>7. QED
  BY <1>1, <1>3, <1>5, <1>6, QuietStep

-----------------------------------------------------------------------------
(* The turns of a check.                                                   *)

\* Turns that leave the slot alone and end in a fresh check.
LEMMA TurnsKeepIInv ==
  ASSUME UpdateIInv, NEW c \in Checks,
         SkipUpload(c) \/ RecordedFirst(c) \/ Recheck(c) \/ Refused(c) \/ Decide(c)
  PROVE  UpdateIInv'
<1> USE DEF UpdateIInv
<1>1. UNCHANGED <<page, slot, writes, deletion, chrome>>
  BY DEF SkipUpload, RecordedFirst, Recheck, Refused, Decide, updates
<1>2. checks[c] \in Check /\ checks[c].seen \in Record
  BY DEF UpdateTypeOK, Check
<1>3. /\ Fresh(NoCheck) /\ Fresh(Rechecking) /\ Fresh(Draining(checks[c]))
      /\ Fresh([NoCheck EXCEPT !.pc = "refused", !.seen = record])
  BY <1>2, IdleIsFresh, DrainingIsFresh
<1>4. PICK check : Fresh(check) /\ checks' = [checks EXCEPT ![c] = check]
  BY <1>3 DEF SkipUpload, RecordedFirst, Recheck, Refused, Decide
<1>5. /\ checks' \in [Checks -> Check]
      /\ \A d \in Checks : checks'[d] = checks[d] \/ Fresh(checks'[d])
  BY <1>4 DEF UpdateTypeOK, Fresh
<1>6. record' \in Record
  <2>1. NoRecord \in Record /\ [checks[c].seen EXCEPT !.pending = TRUE] \in Record
    BY <1>2, IdleIsFresh DEF Record
  <2>2. record \in Record
    BY DEF UpdateTypeOK
  <2>3. QED
    BY <2>1, <2>2 DEF SkipUpload, RecordedFirst, Recheck, Refused, Decide, SetRecord, updates
<1>7. lost' \in BOOLEAN
  BY DEF SkipUpload, RecordedFirst, Recheck, Refused, Decide, SetRecord, updates, UpdateTypeOK
<1>8. reload' \in {"no", "update", "delete"}
  BY DEF SkipUpload, RecordedFirst, Recheck, Refused, Decide, UpdateTypeOK
<1>9. UpdateTypeOK'
  BY <1>1, <1>5, <1>6, <1>7, <1>8 DEF UpdateTypeOK, page, chrome
<1>10. UploadHoldsSlot' /\ DeletionHoldsSlot'
  BY <1>1, <1>5, FreshUploadsNothing DEF DeletionHoldsSlot, page
<1>11. QED
  BY <1>1, <1>5, <1>9, <1>10, QuietStep

LEMMA StartUploadKeepsIInv ==
  ASSUME UpdateIInv, NEW c \in Checks, StartUpload(c)
  PROVE  UpdateIInv'
<1> USE DEF UpdateIInv
<1>1. /\ UNCHANGED <<page, writes, deletion, updates, reload>>
      /\ slot = "idle" /\ slot' = "sync"
      /\ checks' = [checks EXCEPT ![c] = CheckAt("upload")]
  BY DEF StartUpload
<1>2. CheckAt("upload") \in Check /\ CheckAt("upload").pc = "upload"
  BY IdleIsFresh DEF CheckAt, NoCheck
<1>3. UpdateTypeOK'
  BY <1>1, <1>2 DEF UpdateTypeOK, page, updates, chrome
<1>4. UploadHoldsSlot' /\ DeletionHoldsSlot'
  BY <1>1, <1>2 DEF UploadHoldsSlot, DeletionHoldsSlot, UpdateTypeOK, page
<1>5. ChecksAwaitWholeTails'
  <2>1. \A d \in Checks : checks'[d] = checks[d] \/ checks'[d].pc = "upload"
    BY <1>1, <1>2 DEF UpdateTypeOK
  <2>2. queue' = queue /\ writes' = writes
    BY <1>1 DEF page
  <2>3. QED
    BY <2>1, <2>2 DEF ChecksAwaitWholeTails, AwaitsWholeTail
<1>6. QED
  BY <1>1, <1>3, <1>4, <1>5, PageStays

LEMMA EndUploadKeepsIInv ==
  ASSUME UpdateIInv, NEW c \in Checks, EndUpload(c)
  PROVE  UpdateIInv'
<1> USE DEF UpdateIInv
<1>1. /\ UNCHANGED <<page, writes, deletion, updates, reload>>
      /\ checks[c].pc = "upload" /\ slot' = "idle" /\ slot = "sync"
      /\ checks' = Started([checks EXCEPT ![c] = Rechecking], Rechecking)
  BY DEF EndUpload, OnIdle, UploadHoldsSlot
<1>2. Fresh(Rechecking) /\ Rechecking \in Check /\ Rechecking.pc = "recheck"
  BY IdleIsFresh DEF Fresh, Rechecking, NoCheck
<1>3. [checks EXCEPT ![c] = Rechecking] \in [Checks -> Check]
  BY <1>2 DEF UpdateTypeOK
<1>4. /\ checks' \in [Checks -> Check]
      /\ \A d \in Checks : checks'[d] \in {[checks EXCEPT ![c] = Rechecking][d], Rechecking}
  BY <1>1, <1>2, <1>3, StartedOne
<1>5. /\ \A d \in Checks : checks'[d] = checks[d] \/ checks'[d] = Rechecking
      /\ checks'[c] = Rechecking
  BY <1>4 DEF UpdateTypeOK
<1>6. UpdateTypeOK'
  BY <1>1, <1>4 DEF UpdateTypeOK, page, updates, chrome
<1>7. UploadHoldsSlot' /\ DeletionHoldsSlot'
  BY <1>1, <1>2, <1>5 DEF UploadHoldsSlot, DeletionHoldsSlot, page
<1>8. QED
  BY <1>1, <1>2, <1>5, <1>6, <1>7, QuietStep

\* A tail that was awaited stands still, or another is awaited.
LEMMA SettlingKeepsIInv ==
  ASSUME UpdateIInv, NEW c \in Checks, IngestionSettled(c) \/ StorageSettled(c)
  PROVE  UpdateIInv'
<1> USE DEF UpdateIInv
<1>1. UNCHANGED <<page, slot, writes, deletion, updates, reload>>
  BY DEF IngestionSettled, StorageSettled
<1>2. checks[c] \in Check /\ AwaitsWholeTail(checks[c])
  BY DEF UpdateTypeOK, ChecksAwaitWholeTails
<1>3. Fresh(Draining(checks[c]))
  BY <1>2, DrainingIsFresh
<1>4. /\ queue \in Seq(Message) /\ writes \in 0..MaxWrites
      /\ queue' = queue /\ writes' = writes
  BY <1>1 DEF UpdateTypeOK, page
<1>5. PICK check \in Check :
        /\ checks' = [checks EXCEPT ![c] = check]
        /\ check.pc \in {"ingestion", "storage", "decide"}
        /\ AwaitsWholeTail(check)
  <2>1. CASE IngestionSettled(c) /\ checks[c].moved
    <3>1. Draining(checks[c]) \in Check /\ Draining(checks[c]).pc = "ingestion"
      BY <1>2, <1>3 DEF Fresh, Draining, Check
    <3>2. QED
      BY <2>1, <1>3, <3>1 DEF IngestionSettled, AwaitsWholeTail, Fresh
  <2>2. CASE IngestionSettled(c) /\ ~checks[c].moved
    <3> DEFINE next == [checks[c] EXCEPT !.pc = "storage", !.unwritten = writes]
    <3>1. checks' = [checks EXCEPT ![c] = next]
      BY <2>2 DEF IngestionSettled
    <3>2. next \in Check /\ next.pc = "storage" /\ next.unwritten = writes
      BY <1>2, <1>4 DEF Check
    <3>3. queue = <<>>
      BY <1>2, <1>4, <2>2 DEF IngestionSettled, AwaitsWholeTail
    <3>4. QED
      BY <3>1, <3>2, <3>3 DEF AwaitsWholeTail
  <2>3. CASE StorageSettled(c)
    <3>1. checks' = [checks EXCEPT ![c] =
                       IF @.rewritten THEN [@ EXCEPT !.unwritten = writes, !.rewritten = FALSE]
                       ELSE [@ EXCEPT !.pc = "decide"]]
      BY <2>3 DEF StorageSettled
    <3>2. checks[c].pc = "storage" /\ checks[c].unwritten = 0
      BY <2>3 DEF StorageSettled
    <3>3. CASE checks[c].rewritten
      <4> DEFINE next == [checks[c] EXCEPT !.unwritten = writes, !.rewritten = FALSE]
      <4>1. checks' = [checks EXCEPT ![c] = next]
        BY <3>1, <3>3
      <4>2. next \in Check /\ next.pc = "storage" /\ AwaitsWholeTail(next)
        BY <1>2, <1>4, <3>2 DEF Check, AwaitsWholeTail
      <4>3. QED
        BY <4>1, <4>2
    <3>4. CASE ~checks[c].rewritten
      <4> DEFINE next == [checks[c] EXCEPT !.pc = "decide"]
      <4>1. checks' = [checks EXCEPT ![c] = next]
        BY <3>1, <3>4
      <4>2. next \in Check /\ next.pc = "decide" /\ AwaitsWholeTail(next)
        BY <1>2, <1>4, <3>2, <3>4 DEF Check, AwaitsWholeTail
      <4>3. QED
        BY <4>1, <4>2
    <3>5. QED
      BY <3>3, <3>4
  <2>4. QED
    BY <2>1, <2>2, <2>3
<1>6. UpdateTypeOK'
  BY <1>1, <1>5 DEF UpdateTypeOK, page, updates, chrome
<1>7. UploadHoldsSlot' /\ DeletionHoldsSlot'
  BY <1>1, <1>4, <1>5 DEF UploadHoldsSlot, DeletionHoldsSlot, UpdateTypeOK
<1>8. ChecksAwaitWholeTails'
  BY <1>4, <1>5 DEF ChecksAwaitWholeTails, AwaitsWholeTail, UpdateTypeOK
<1>9. QED
  BY <1>1, <1>6, <1>7, <1>8, PageStays

LEMMA RestartKeepsIInv ==
  ASSUME UpdateIInv, WorkerRestart
  PROVE  UpdateIInv'
<1> USE DEF UpdateIInv
<1>1. /\ queue' = <<>> /\ processed' = FALSE /\ activity' = "unknown"
      /\ slot' = "idle" /\ writes' = 0 /\ deletion' = "off" /\ reload' = "no"
      /\ UNCHANGED <<inGame, record, downloaded>>
  BY DEF WorkerRestart
<1>2. Rechecking \in Check /\ NoCheck \in Check /\ Rechecking.pc = "recheck" /\ NoCheck.pc = "off"
  BY IdleIsFresh DEF Fresh, Rechecking, NoCheck
<1>3. /\ checks' \in [Checks -> Check]
      /\ \A c \in Checks : checks'[c].pc \in {"off", "recheck"}
  <2>1. [c \in Checks |-> NoCheck] \in [Checks -> Check]
    BY <1>2
  <2>2. /\ checks' \in [Checks -> Check]
        /\ \A c \in Checks : checks'[c] \in {NoCheck, Rechecking}
    BY <1>2, <2>1, StartedOne DEF WorkerRestart
  <2>3. QED
    BY <1>2, <2>2
<1>4. UpdateTypeOK'
  <2>1. installed' \in {installed, downloaded} /\ installed' \in 1..MaxVersion
    BY UpdateBounds DEF WorkerRestart, UpdateTypeOK
  <2>2. downloaded' \in installed'..MaxVersion
    BY <1>1, <2>1, UpdateBounds DEF UpdateTypeOK
  <2>3. lost' \in BOOLEAN
    BY DEF WorkerRestart
  <2>4. queue' \in Seq(Message) /\ Len(queue') <= MaxQueue /\ writes' \in 0..MaxWrites
    BY <1>1, UpdateBounds
  <2>5. QED
    BY <1>1, <1>3, <2>1, <2>2, <2>3, <2>4 DEF UpdateTypeOK
<1>5. UploadHoldsSlot' /\ DeletionHoldsSlot' /\ ChecksAwaitWholeTails'
  BY <1>1, <1>3 DEF UploadHoldsSlot, DeletionHoldsSlot, ChecksAwaitWholeTails, AwaitsWholeTail
<1>6. ActivityLagsByQueue' /\ (processed => queue # <<>>)'
  BY <1>1 DEF ActivityLagsByQueue
<1>7. QED
  BY <1>4, <1>5, <1>6

-----------------------------------------------------------------------------
(* The invariant and what follows from it.                                 *)

LEMMA NextKeepsIInv == UpdateIInv /\ [UpdateNext]_updateVars => UpdateIInv'
<1> SUFFICES ASSUME UpdateIInv, [UpdateNext]_updateVars PROVE UpdateIInv'
  OBVIOUS
<1>1. CASE \E m \in Message : Accept(m)
  BY <1>1, AcceptKeepsIInv
<1>2. CASE Process
  BY <1>2, ProcessKeepsIInv
<1>3. CASE Settle
  BY <1>3, SettleKeepsIInv
<1>4. CASE StartOperation \/ EndOperation \/ StartDeletion \/ Deletion
  BY <1>4, OperationsKeepIInv
<1>5. CASE EnqueueWrite \/ SettleWrite
  BY <1>5, WritesKeepIInv
<1>6. CASE UpdateAvailable \/ ApplyNow
  BY <1>6, UpdatesKeepIInv
<1>7. ASSUME NEW c \in Checks, CheckStep(c) PROVE UpdateIInv'
  BY <1>7, TurnsKeepIInv, StartUploadKeepsIInv, EndUploadKeepsIInv, SettlingKeepsIInv
     DEF CheckStep
<1>8. CASE WorkerRestart
  BY <1>8, RestartKeepsIInv
<1>9. CASE UNCHANGED updateVars
  BY <1>9 DEF updateVars, page, updates, chrome, UpdateIInv, UpdateTypeOK, UploadHoldsSlot, DeletionHoldsSlot,
              ChecksAwaitWholeTails, AwaitsWholeTail, ActivityLagsByQueue
<1>10. QED
  BY <1>1, <1>2, <1>3, <1>4, <1>5, <1>6, <1>7, <1>8, <1>9 DEF UpdateNext

\* The inductive invariant holds of every reachable state.
THEOREM Invariance == UpdateSpec => []UpdateIInv
<1>1. QED
  BY UpdateInitIInv, NextKeepsIInv, PTL DEF UpdateSpec

\* Every variable stays in its type, for any number of checks, messages and writes.
THEOREM UpdateTypeCorrect == UpdateSpec => []UpdateTypeOK
<1>1. UpdateIInv => UpdateTypeOK
  BY DEF UpdateIInv
<1>2. QED
  BY <1>1, Invariance, PTL

\* Only a check whose tails stand still reloads for an update, and only a deletion that
\* has waited for the queue reloads after it.
LEMMA WhoReloads ==
  ASSUME UpdateIInv, [UpdateNext]_updateVars
  PROVE  /\ Commits("update") => \E c \in Checks : /\ checks[c].pc = "decide"
                                                     /\ StandsStill(checks[c])
                                                     /\ IsSafe
         /\ Commits("delete") => deletion = "delete"
<1>1. CASE \E c \in Checks : Decide(c)
  BY <1>1 DEF Decide, Commits
<1>2. CASE DeletionReloads
  BY <1>2 DEF DeletionReloads, Commits
<1>3. CASE WorkerRestart
  BY <1>3 DEF WorkerRestart, Commits
<1>4. CASE reload' = reload
  BY <1>4 DEF Commits
<1>5. ASSUME NEW c \in Checks, CheckStep(c), ~Decide(c) PROVE reload' = reload
  BY <1>5 DEF CheckStep, SkipUpload, StartUpload, EndUpload, RecordedFirst, Recheck, Refused,
              IngestionSettled, StorageSettled
<1>6. ASSUME NEW m \in Message, Accept(m) PROVE reload' = reload
  BY <1>6 DEF Accept
<1>7. CASE \/ Process \/ Settle \/ StartOperation \/ EndOperation \/ StartDeletion
           \/ DeletionDrained \/ DeletionFails \/ EnqueueWrite \/ SettleWrite
           \/ UpdateAvailable \/ ApplyNow \/ UNCHANGED updateVars
  <2>1. reload' = reload
    BY <1>7 DEF Process, Settle, StartOperation, EndOperation, StartDeletion, DeletionDrained,
                DeletionFails, EnqueueWrite, SettleWrite, UpdateAvailable, ApplyNow, updateVars
  <2>2. QED
    BY <1>4, <2>1
<1>8. QED
  BY <1>1, <1>2, <1>3, <1>4, <1>5, <1>6, <1>7 DEF UpdateNext, Deletion

\* No reload overtakes an accepted message; one for an update overtakes no storage write
\* and no operation either.
THEOREM ReloadsOvertakeNothing == UpdateSpec => ReloadOvertakesNothing
<1>1. ASSUME UpdateIInv, [UpdateNext]_updateVars
      PROVE  /\ Commits("update") => queue = <<>> /\ writes = 0 /\ slot = "idle"
             /\ Commits("delete") => queue = <<>>
  BY <1>1, WhoReloads
     DEF UpdateIInv, ChecksAwaitWholeTails, AwaitsWholeTail, StandsStill, IsSafe, DeletionHoldsSlot
<1>2. QED
  BY <1>1, Invariance, PTL DEF UpdateSpec, ReloadOvertakesNothing

\* No reload for an update comes in a game.
THEOREM ReloadsOutsideGames == UpdateSpec => ReloadOutsideGame
<1>1. ASSUME UpdateIInv, [UpdateNext]_updateVars, Commits("update") PROVE ~inGame
  <2>1. queue = <<>> /\ activity = "inactive"
    BY <1>1, WhoReloads DEF UpdateIInv, ChecksAwaitWholeTails, AwaitsWholeTail, StandsStill, IsSafe
  <2>2. \A i \in DOMAIN queue : ~Tells(queue, processed, i)
    BY <2>1
  <2>3. QED
    BY <1>1, <2>1, <2>2 DEF UpdateIInv, ActivityLagsByQueue
<1>2. QED
  BY <1>1, Invariance, PTL DEF UpdateSpec, ReloadOutsideGame
=============================================================================
