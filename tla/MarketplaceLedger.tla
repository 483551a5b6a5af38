------------------------- MODULE MarketplaceLedger -------------------------
(***************************************************************************)
(* The marketplace events of one seller and source, and the settlement     *)
(* snapshots taken of them.  An ingestion is one transaction at READ       *)
(* COMMITTED that inserts its run and then the rows of its file one by     *)
(* one; several run at the same time and wait for each other on the unique *)
(* indexes.  A snapshot names an ingestion as its boundary, a cutoff and,  *)
(* maybe, the snapshot it continues.                                       *)
(*                                                                         *)
(* A row is told apart by its identity, its time and its amount, which is  *)
(* what its hash covers; the three totals of a snapshot are added up alike *)
(* and stand here as one.                                                  *)
(***************************************************************************)
EXTENDS Integers, Sequences, Functions

CONSTANTS
  Files,        \* what a seller may send: sequences of rows [id, at, amount]
  Cutoffs,      \* times at which a snapshot may be cut off
  Ingestors,    \* ingestions that may be under way at the same time
  MaxStarts,    \* bound: ingestions started
  MaxSnapshots  \* bound: snapshots taken

ASSUME LedgerAssumption ==
  /\ \A file \in Files : \A n \in 1..Len(file) : file[n].at \in Nat /\ file[n].amount \in Int
  /\ Cutoffs \subseteq Nat /\ MaxStarts \in Nat /\ MaxSnapshots \in Nat

VARIABLES
  runs,       \* ingestion_runs, committed: creation time and report, by file
  events,     \* marketplace_events, committed: row and creation time
  ingestors,  \* where each ingestion is, and what it has inserted
  starts,     \* ingestions so far, and the clock
  snapshots   \* settlement_streams, in the order of their insertion

ledgerVars == <<runs, events, ingestors, starts, snapshots>>

NoRun == [createdAt |-> 0, blocks |-> FALSE]
IdleIngestor == [pc |-> "idle", file |-> <<>>, createdAt |-> 0, accepted |-> {}, blocks |-> FALSE, left |-> {}]

Rows(file) == {file[n] : n \in 1..Len(file)}

-----------------------------------------------------------------------------
(* parseCanonicalCsv: of the rows with one identity the first is kept, and *)
(* another that differs from it blocks the automation.                     *)

Parsed(file) == {n \in 1..Len(file) : \A m \in 1..(n - 1) : file[m].id # file[n].id}

Inconsistent(file) == \E r, s \in Rows(file) : r.id = s.id /\ r # s

-----------------------------------------------------------------------------
(* persist.                                                                *)

IngestorAt(i, pc) == ingestors[i].pc = pc
IngestorEnds(i) == ingestors' = [ingestors EXCEPT ![i] = IdleIngestor]

start(i, file) ==
  /\ IngestorAt(i, "idle") /\ starts < MaxStarts /\ starts' = starts + 1
  /\ ingestors' = [ingestors EXCEPT ![i] = [IdleIngestor EXCEPT
       !.pc = "run", !.file = file, !.createdAt = starts']]
  /\ UNCHANGED <<runs, events, snapshots>>

(* The run: the index on its content makes it wait for another ingestion   *)
(* of the same file, and then replay it.                                   *)
insertRun(i) ==
  LET file == ingestors[i].file IN
  /\ IngestorAt(i, "run")
  /\ \A j \in Ingestors : ~ (IngestorAt(j, "rows") /\ ingestors[j].file = file)
  /\ IF runs[file] = NoRun
     THEN ingestors' = [ingestors EXCEPT ![i] = [@ EXCEPT
            !.pc = "rows", !.left = Parsed(file), !.blocks = Inconsistent(file)]]
     ELSE IngestorEnds(i)
  /\ UNCHANGED <<runs, events, starts, snapshots>>

Stored(id) == {e \in events : e.row.id = id}

(* A row, in the order of the file: it waits for another transaction that  *)
(* has inserted its identity.  What is there already is a duplicate, or a  *)
(* conflict that blocks.                                                   *)
insertEvent(i) ==
  LET g == ingestors[i] IN
  /\ IngestorAt(i, "rows")
  /\ \E n \in g.left : LET row == g.file[n] IN
       /\ \A m \in g.left : n <= m
       /\ \A j \in Ingestors \ {i} : \A r \in ingestors[j].accepted : r.id # row.id
       /\ ingestors' = [ingestors EXCEPT ![i] = [g EXCEPT
            !.left = g.left \ {n},
            !.accepted = IF Stored(row.id) = {} THEN g.accepted \cup {row} ELSE g.accepted,
            !.blocks = g.blocks \/ \E e \in Stored(row.id) : e.row # row]]
  /\ UNCHANGED <<runs, events, starts, snapshots>>

(* The quality report, and the commit.  No row at all blocks as well.      *)
finishRun(i) ==
  LET g == ingestors[i] IN
  /\ IngestorAt(i, "rows") /\ g.left = {} /\ IngestorEnds(i)
  /\ runs' = [runs EXCEPT ![g.file] = [createdAt |-> g.createdAt, blocks |-> g.blocks \/ g.file = <<>>]]
  /\ events' = events \cup {[row |-> r, createdAt |-> g.createdAt] : r \in g.accepted}
  /\ UNCHANGED <<starts, snapshots>>

(* The transaction fails: the victim of a deadlock, or a crash.            *)
abortRun(i) ==
  /\ ~ IngestorAt(i, "idle") /\ IngestorEnds(i)
  /\ UNCHANGED <<runs, events, starts, snapshots>>

-----------------------------------------------------------------------------
(* DecisionSnapshotApplication.create.                                     *)

Total(rows) == SumFunctionOnSet([r \in rows |-> r.amount], rows)

loadEvents(file, cutoff) ==
  {e.row : e \in {f \in events : f.row.at <= cutoff /\ f.createdAt <= runs[file].createdAt}}

NoSnapshot == [file |-> <<>>, cutoff |-> 0, predecessor |-> 0, included |-> {}, gross |-> 0, blocks |-> FALSE]
Snapshot(p) == IF p = 0 THEN NoSnapshot ELSE snapshots[p]

buildDecisionSnapshot(file, cutoff, p) ==
  LET included == loadEvents(file, cutoff)
      incremental == included \ Snapshot(p).included IN
  [file |-> file, cutoff |-> cutoff, predecessor |-> p, included |-> included,
   gross |-> Snapshot(p).gross + Total(incremental), blocks |-> runs[file].blocks]

findByHash(snapshot) == {n \in 1..Len(snapshots) : snapshots[n] = snapshot}

Insert(snapshot) ==
  /\ snapshots' = IF findByHash(snapshot) # {} THEN snapshots ELSE Append(snapshots, snapshot)
  /\ UNCHANGED <<runs, events, ingestors, starts>>

(* Without the report of a completed ingestion nothing is created.         *)
HasReport(file) == runs[file] # NoRun

\* slip: a snapshot may be cut off before the one it continues
create_backwards(file, cutoff, p) ==
  /\ Len(snapshots) < MaxSnapshots /\ HasReport(file)
  /\ Insert(buildDecisionSnapshot(file, cutoff, p))

(* The cutoff may not precede the predecessor's; its boundary may.  The    *)
(* same content is answered with the snapshot that is there.               *)
create(file, cutoff, p) ==
  /\ Len(snapshots) < MaxSnapshots /\ HasReport(file)
  /\ cutoff >= Snapshot(p).cutoff
  /\ Insert(buildDecisionSnapshot(file, cutoff, p))

LedgerInit ==
  /\ runs = [file \in Files |-> NoRun] /\ events = {}
  /\ ingestors = [i \in Ingestors |-> IdleIngestor]
  /\ starts = 0 /\ snapshots = <<>>

LedgerNext ==
  \/ \E i \in Ingestors : \/ \E file \in Files : start(i, file)
                          \/ insertRun(i) \/ insertEvent(i) \/ finishRun(i) \/ abortRun(i)
  \/ \E file \in Files, cutoff \in Cutoffs, p \in 0..Len(snapshots) : create(file, cutoff, p)

LedgerSpec == LedgerInit /\ [][LedgerNext]_ledgerVars

-----------------------------------------------------------------------------

LedgerTypeOK ==
  /\ runs \in [Files -> [createdAt : 0..MaxStarts, blocks : BOOLEAN]]
  /\ \A e \in events : e.createdAt \in 1..starts /\ \E file \in Files : e.row \in Rows(file)
  /\ \A i \in Ingestors : ingestors[i].accepted \subseteq Rows(ingestors[i].file)
  /\ \A n \in 1..Len(snapshots) : snapshots[n].predecessor < n

(* The boundary of a snapshot is not an earlier ingestion than that of the *)
(* one it continues, and so back to the first.                             *)
GoesOn(n) ==
  \E chain \in SUBSET (1..n) :
    /\ n \in chain
    /\ \A m \in chain : LET p == snapshots[m].predecessor IN
         p = 0 \/ (p \in chain /\ runs[snapshots[p].file].createdAt <= runs[snapshots[m].file].createdAt)

(* What a snapshot adds up is the total of the events it includes, each    *)
(* counted once however long its history, also when ingestions that were   *)
(* under way commit between the snapshots.                                 *)
SnapshotAddsUp ==
  \A n \in 1..Len(snapshots) : GoesOn(n) => snapshots[n].gross = Total(snapshots[n].included)

=============================================================================
