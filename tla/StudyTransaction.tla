--------------------------- MODULE StudyTransaction ---------------------------
(***************************************************************************)
(* The values a study workspace stores and the pure functions that compute *)
(* them: the ledger, the optimizer checkpoint, the batch envelope, the     *)
(* transaction that carries the next value of all three, and the           *)
(* validations run before a transaction is written and after it is read.   *)
(*                                                                         *)
(* A candidate's decision values are a function of the optimizer's random  *)
(* state (and of the selected population); they are represented by the     *)
(* number of draws made when the candidate was generated.  A content hash  *)
(* is collision free: it is represented by the value it identifies.        *)
(***************************************************************************)
EXTENDS Naturals, Sequences, FiniteSets, Functions

CONSTANTS
  PopulationSize,   \* candidates of the first generation
  OffspringSize,    \* candidates of every later generation
  Results,          \* evaluation payloads an external evaluator can return
  Times,            \* creation times an envelope can be stamped with
  Submissions,      \* the evaluation row sequences a client may submit
  MaxRevision,      \* bound: no batch begins at this revision
  Absent            \* no file, no value

ASSUME SizesAssumption ==
  /\ PopulationSize \in Nat \ {0}
  /\ OffspringSize \in Nat \ {0}

ASSUME RevisionAssumption == MaxRevision \in Nat

BatchIds == 1 .. MaxRevision

Ids(rows) == {row.id : row \in rows}

NoDuplicateIds(rows) == \A r, s \in rows : r.id = s.id => r = s

-----------------------------------------------------------------------------
(* The optimizer: deterministic ask and tell.                              *)

NewOptimizer ==
  [generation |-> 0, evaluationCount |-> 0, nextId |-> 1, random |-> 0,
   told |-> {}, pending |-> {}]

RequestedSize(opt) == IF opt.told = {} THEN PopulationSize ELSE OffspringSize

\* Ask draws a whole batch: ids are consecutive, values come from the random
\* state, which advances.
Ask(opt) ==
  LET ids == opt.nextId .. (opt.nextId + RequestedSize(opt) - 1)
  IN [generation      |-> opt.generation,
      evaluationCount |-> opt.evaluationCount,
      nextId          |-> opt.nextId + RequestedSize(opt),
      random          |-> opt.random + 1,
      told            |-> opt.told,
      pending         |-> {[id |-> i, generation |-> opt.generation,
                            draw |-> opt.random] : i \in ids}]

\* Tell binds one row to every pending candidate and closes the generation.
\* "told" stands for the population and the archive, which are selected from
\* the rows accepted so far.
Tell(opt, rows) ==
  [generation      |-> opt.generation + 1,
   evaluationCount |-> opt.evaluationCount + Len(rows),
   nextId          |-> opt.nextId,
   random          |-> opt.random,
   told            |-> opt.told \cup Range(rows),
   pending         |-> {}]

\* What restoring an optimizer from a checkpoint insists on.
ValidOptimizer(opt) ==
  /\ NoDuplicateIds(opt.pending)
  /\ Ids(opt.pending) \cap Ids(opt.told) = {}
  /\ \A i \in Ids(opt.pending) \cup Ids(opt.told) : i < opt.nextId

-----------------------------------------------------------------------------
(* Ledger, checkpoint, batch envelope, transaction.                        *)

EmptyLedger == [revision |-> 0, variants |-> {}, evaluations |-> {}]

ValidLedger(ledger) ==
  /\ NoDuplicateIds(ledger.variants)
  /\ 0 \notin Ids(ledger.variants)
  /\ NoDuplicateIds(ledger.evaluations)
  /\ Ids(ledger.evaluations) \subseteq Ids(ledger.variants)

\* active = 0 stands for "no active batch"; batch ids start at 1.
FirstCheckpoint ==
  [revision |-> 0, active |-> 0, optimizer |-> NewOptimizer,
   ledgerHash |-> EmptyLedger]

ValidCheckpoint(checkpoint, ledger) ==
  /\ checkpoint.ledgerHash = ledger
  /\ ValidOptimizer(checkpoint.optimizer)

ValidTransaction(tx) ==
  /\ ValidLedger(tx.ledger)
  /\ ValidCheckpoint(tx.checkpoint, tx.ledger)
  /\ tx.ledger.revision = tx.checkpoint.revision
  /\ \/ /\ tx.batch.status = "pending"
        /\ tx.checkpoint.active = tx.batch.id
        /\ tx.checkpoint.optimizer.pending = tx.batch.candidates
        /\ tx.batch.evaluations = << >>
     \/ /\ tx.batch.status = "completed"
        /\ tx.checkpoint.active = 0
        /\ tx.checkpoint.optimizer.pending = {}
        /\ Len(tx.batch.evaluations) = Cardinality(tx.batch.candidates)

\* The transaction begin_batch journals: the next candidates, registered in
\* the ledger, with the optimizer that produced them.
BeginTransaction(ledger, checkpoint, created) ==
  LET asked  == Ask(checkpoint.optimizer)
      next   == [revision    |-> ledger.revision + 1,
                 variants    |-> ledger.variants \cup asked.pending,
                 evaluations |-> ledger.evaluations]
  IN [ledger     |-> next,
      checkpoint |-> [revision   |-> checkpoint.revision + 1,
                      active     |-> checkpoint.revision + 1,
                      optimizer  |-> asked,
                      ledgerHash |-> next],
      batch      |-> [id          |-> checkpoint.revision + 1,
                      status      |-> "pending",
                      created     |-> created,
                      candidates  |-> asked.pending,
                      evaluations |-> << >>]]

CanBegin(ledger, checkpoint) ==
  /\ checkpoint.optimizer.pending = {}
  /\ Ids(Ask(checkpoint.optimizer).pending) \cap Ids(ledger.variants) = {}

\* One row for every candidate of the active batch, none twice, none foreign
\* (the code's length comparison follows from these two),
\* and no row for a variant that already has one.
Accepts(ledger, checkpoint, batch, rows) ==
  /\ checkpoint.active = batch.id
  /\ Ids(Range(rows)) = Ids(batch.candidates)
  /\ \A i, j \in DOMAIN rows : rows[i].id = rows[j].id => i = j
  /\ Ids(Range(rows)) \cap Ids(ledger.evaluations) = {}

\* Plausible fault: the new rows replace the ledger's instead of extending them.
CommitTransactionForgets(ledger, checkpoint, batch, rows) ==
  LET next == [ledger EXCEPT !.revision = @ + 1, !.evaluations = Range(rows)]
  IN [ledger     |-> next,
      checkpoint |-> [revision   |-> checkpoint.revision + 1,
                      active     |-> 0,
                      optimizer  |-> Tell(checkpoint.optimizer, rows),
                      ledgerHash |-> next],
      batch      |-> [batch EXCEPT !.status = "completed", !.evaluations = rows]]

\* The transaction commit_batch journals.
CommitTransaction(ledger, checkpoint, batch, rows) ==
  LET next == [revision    |-> ledger.revision + 1,
               variants    |-> ledger.variants,
               evaluations |-> ledger.evaluations \cup Range(rows)]
  IN [ledger     |-> next,
      checkpoint |-> [revision   |-> checkpoint.revision + 1,
                      active     |-> 0,
                      optimizer  |-> Tell(checkpoint.optimizer, rows),
                      ledgerHash |-> next],
      batch      |-> [id          |-> batch.id,
                      status      |-> "completed",
                      created     |-> batch.created,
                      candidates  |-> batch.candidates,
                      evaluations |-> rows]]

-----------------------------------------------------------------------------
(* The sets these values belong to.                                        *)

Candidate == [id : Nat, generation : Nat, draw : Nat]

Row == [id : Nat, result : Results]

ASSUME SubmissionAssumption == Submissions \subseteq Seq(Row)

Optimizer == [generation : Nat, evaluationCount : Nat, nextId : Nat,
              random : Nat, told : SUBSET Row, pending : SUBSET Candidate]

Ledger == [revision : Nat, variants : SUBSET Candidate, evaluations : SUBSET Row]

Checkpoint == [revision : Nat, active : Nat, optimizer : Optimizer,
               ledgerHash : Ledger]

Envelope == [id : Nat, status : {"pending", "completed"}, created : Times,
             candidates : SUBSET Candidate, evaluations : Seq(Row)]

Transaction == [ledger : Ledger, checkpoint : Checkpoint, batch : Envelope]

\* A missing file or value is none of the values above.
ASSUME AbsentAssumption ==
  /\ Absent \notin Ledger /\ Absent \notin Checkpoint
  /\ Absent \notin Envelope /\ Absent \notin Transaction
  /\ Absent # "manifest"

=============================================================================
