------------------------------ MODULE RawLake ------------------------------
(***************************************************************************)
(* The Raw Event Lake: mergeApiEvents, the only writer of raw rows, and the  *)
(* copies of them that come back through it, the Firestore documents and the *)
(* exported file.                                                          *)
(*                                                                         *)
(* Rows of one millisecond and one ApiTypeId share a group and differ in     *)
(* their sequence.  The sequence is given by the first merge; an export and a *)
(* document carry it away and a restore asks for it again, after the local    *)
(* database may have been deleted.  A merge is one transaction: while it is   *)
(* open (tx) nobody else merges, and one action is one turn of its loop.      *)
(***************************************************************************)
EXTENDS Naturals, FiniteSets

CONSTANTS
  Events,    \* payloads, sequence aside: getApiEventContentIdentity
  GroupOf,   \* the group of each event, numbered by time
  Legacy,    \* events of clients that kept one row per group and no sequence
  Foreign,   \* events of other devices, which come in the file
  None,      \* no sequence, no row
  PageSize,  \* IMPORT_CHUNK_SIZE, DOWNLOAD_PAGE_SIZE
  LastGroup  \* bound: the groups of live events

ASSUME EventsAssumption ==
  /\ GroupOf \in [Events -> Nat]
  /\ Legacy \subseteq Events
  /\ \A e \in Legacy, f \in Events : GroupOf[e] = GroupOf[f] => e = f
  /\ Foreign \subseteq Events \ Legacy
  /\ \A e \in Foreign, f \in Events \ Foreign : GroupOf[e] # GroupOf[f]
ASSUME BoundsAssumption == None \notin Nat /\ PageSize \in Nat \ {0} /\ LastGroup \in Nat

VARIABLES
  now,    \* the group of the events that are stamped now
  since,  \* the group that was current when the database was last deleted
  lake,   \* apiEvents
  cloud,  \* the account's documents, named by group and sequence
  file,   \* the latest NDJSON export
  job,    \* the import or download that is running, and its cursor
  tx      \* the open transaction of mergeApiEvents

vars == <<now, since, lake, cloud, file, job, tx>>

Row == [event : Events, seq : Nat]
Input == [event : Events, seq : Nat \cup {None}]
Key(r) == <<GroupOf[r.event], r.seq>>

NoJob == [kind |-> "none", last |-> None]
NoTx == [open |-> FALSE, rest |-> {}, added |-> {}]

\* A profile whose rows an old client has written, backed up and exported; or a file
\* that joins those of other devices, each of which gave the sequence 0.
LegacyRows == {[event |-> e, seq |-> 0] : e \in {e \in Legacy : GroupOf[e] < now}}
ForeignLines == {[event |-> e, seq |-> 0] : e \in Foreign}
Init ==
  /\ now \in 0..LastGroup /\ since = now
  /\ lake \in {{}, LegacyRows} /\ cloud \in {{}, LegacyRows} /\ file \in {{}, LegacyRows, ForeignLines}
  /\ job = NoJob
  /\ tx = NoTx

-----------------------------------------------------------------------------
\* The rows the transaction sees: what was there, and what it has placed so far.
Present == lake \cup tx.added
Group(e) == {r \in Present : GroupOf[r.event] = GroupOf[e]}
OccupiedInLake(e) == {r.seq : r \in {r \in lake : GroupOf[r.event] = GroupOf[e]}}  \* mutant
Occupied(e) == {r.seq : r \in Group(e)}
KnownNever(e) == FALSE  \* mutant
Known(e) == \E r \in Group(e) : r.event = e

\* A free sequence that is asked for is granted; otherwise the one after the greatest.
NextSequences(occupied) ==
  IF occupied = {} THEN {0} ELSE {m + 1 : m \in {m \in occupied : \A k \in occupied : k <= m}}
Renumbered(in) == NextSequences(Occupied(in.event))  \* mutant
Assigned(in) ==
  IF in.seq # None /\ in.seq \notin Occupied(in.event) THEN {in.seq}
  ELSE NextSequences(Occupied(in.event))

Merge(inputs) ==
  /\ ~tx.open
  /\ tx' = [open |-> TRUE, rest |-> inputs, added |-> {}]

\* One turn of the loop over the input rows, whatever their order.
Place(in) ==
  /\ tx.open
  /\ \/ /\ Known(in.event)
        /\ tx' = [tx EXCEPT !.rest = @ \ {in}]
     \/ /\ ~Known(in.event)
        /\ \E n \in Assigned(in) :
             tx' = [tx EXCEPT !.rest = @ \ {in}, !.added = @ \cup {[event |-> in.event, seq |-> n]}]
  /\ UNCHANGED <<now, since, lake, cloud, file, job>>

\* bulkAdd refuses a key that is taken, and the transaction with it.
Clash == \E r \in tx.added, s \in Present : r # s /\ Key(r) = Key(s)
CommitMerge ==
  /\ tx.open /\ tx.rest = {}
  /\ ~Clash
  /\ lake' = Present
  /\ tx' = NoTx
  /\ UNCHANGED <<now, since, cloud, file, job>>

-----------------------------------------------------------------------------
\* A live event has no sequence yet; a resend of it looks the same.  The queue of live
\* events may lag behind the page that stamps them.
LiveEvent(e) ==
  /\ e \notin Foreign /\ GroupOf[e] \in since..now
  /\ Merge({[event |-> e, seq |-> None]})
  /\ UNCHANGED <<now, since, lake, cloud, file, job>>
NextMillisecond ==
  /\ now < LastGroup
  /\ now' = now + 1
  /\ UNCHANGED <<since, lake, cloud, file, job, tx>>

\* What an old client wrote, a document or a line of a file, has no sequence.
AsRead(r) == {r} \cup (IF r.event \in Legacy THEN {[event |-> r.event, seq |-> None]} ELSE {})

\* Pages in the order of the timestamp and the name of the document, or of the lines.
After(rows, last) ==
  IF last = None THEN rows
  ELSE {r \in rows : \/ GroupOf[r.event] > GroupOf[last.event]
                     \/ GroupOf[r.event] = GroupOf[last.event] /\ r.seq > last.seq}
AfterGroup(rows, last) ==  \* mutant
  IF last = None THEN rows ELSE {r \in rows : GroupOf[r.event] > GroupOf[last.event]}
Ahead(rows, last) == After(rows, last)
IsPage(page, rows) ==
  /\ page \subseteq rows
  /\ \A r \in page, s \in rows \ page : s \in After(rows, r)
  /\ \/ Cardinality(page) = PageSize
     \/ Cardinality(page) < PageSize /\ page = rows
Source == IF job.kind = "import" THEN file ELSE cloud

StartJob(kind) ==
  /\ job.kind = "none"
  /\ job' = [kind |-> kind, last |-> None]
  /\ UNCHANGED <<now, since, lake, cloud, file, tx>>
JobPage ==
  /\ job.kind # "none"
  /\ \E page \in SUBSET Ahead(Source, job.last) :
       /\ page # {}
       /\ IsPage(page, Ahead(Source, job.last))
       /\ \E inputs \in SUBSET UNION {AsRead(r) : r \in page} :
            /\ \A r \in page : AsRead(r) \cap inputs # {}
            /\ Merge(inputs)
       /\ \E r \in page : /\ After(page, r) = {}
                          /\ job' = [job EXCEPT !.last = r]
  /\ UNCHANGED <<now, since, lake, cloud, file>>
EndJob ==
  /\ job.kind # "none"
  /\ ~tx.open
  /\ Ahead(Source, job.last) = {}
  /\ job' = NoJob
  /\ UNCHANGED <<now, since, lake, cloud, file, tx>>

\* An upload and an export own the operation slot, as an import and a download do.
Upload(r) ==
  /\ job.kind = "none"
  /\ r \in lake
  /\ cloud' = {d \in cloud : Key(d) # Key(r)} \cup {r}
  /\ UNCHANGED <<now, since, lake, file, job, tx>>
Export ==
  /\ job.kind = "none"
  /\ file' = lake
  /\ UNCHANGED <<now, since, lake, cloud, job, tx>>

\* The worker stops, or IndexedDB gives up: what was not committed never happened.
Restart ==
  /\ tx' = NoTx
  /\ job' = NoJob
  /\ UNCHANGED <<now, since, lake, cloud, file>>

\* Live rows drain, the database is deleted and the extension reloads, which takes longer
\* than a millisecond.
DeleteAllData ==
  /\ job.kind = "none"
  /\ ~tx.open
  /\ now < LastGroup
  /\ now' = now + 1 /\ since' = now + 1
  /\ lake' = {}
  /\ UNCHANGED <<cloud, file, job, tx>>

Next ==
  \/ \E e \in Events : LiveEvent(e)
  \/ \E in \in tx.rest : Place(in)
  \/ CommitMerge
  \/ NextMillisecond
  \/ \E kind \in {"import", "download"} : StartJob(kind)
  \/ JobPage
  \/ EndJob
  \/ \E r \in lake : Upload(r)
  \/ Export
  \/ Restart
  \/ DeleteAllData

Spec == Init /\ [][Next]_vars

-----------------------------------------------------------------------------
\* Every variable stays in its type.
TypeOK ==
  /\ now \in 0..LastGroup /\ since \in 0..LastGroup
  /\ lake \subseteq Row /\ cloud \subseteq Row /\ file \subseteq Row
  /\ job \in [kind : {"none", "import", "download"}, last : Row \cup {None}]
  /\ tx \in [open : BOOLEAN, rest : SUBSET Input, added : SUBSET Row]

\* bulkAdd never meets a taken key, so no merge is ever refused as a whole, and a
\* payload is stored once however often and from wherever it comes.
MergesNeverClash ==
  \A r, s \in Present : Key(r) = Key(s) \/ r.event = s.event => r = s

\* A stored row keeps its key: a reader that remembers a key (a cursor, a fence of a
\* pending hand, a document) always finds the same payload there.
RowKeepsItsKey ==
  [][\A r \in lake, s \in lake' : Key(r) = Key(s) \/ r.event = s.event => r = s]_vars

\* Uploading a row of this device never replaces another event's document, after whatever deletions,
\* restores that were cut short, imports of old files and live rows in between.
UploadReplacesNothing ==
  [][\A d \in {d \in cloud : d.event \notin Foreign} : \E c \in cloud' : Key(c) = Key(d) /\ c.event = d.event]_vars

\* A restore that runs to its end has restored everything.
RestoreIsComplete ==
  [][job.kind # "none" /\ EndJob =>
       \A d \in Source : \E r \in lake : r.event = d.event]_vars
=============================================================================
