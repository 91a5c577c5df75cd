---------------------------- MODULE StudyContract ----------------------------
(***************************************************************************)
(* What a study workspace promises its client, whatever happens to the     *)
(* process that runs it: begin and commit are atomic, a batch that was     *)
(* handed out stays as it was handed out, and a commit that was            *)
(* acknowledged stays committed.  Nothing here knows about files, the      *)
(* journal or crashes; module StudyWorkspace implements this contract.     *)
(***************************************************************************)
EXTENDS StudyTransaction

VARIABLES
  ledger,           \* the current ledger, or Absent before creation
  checkpoint,       \* the current checkpoint, or Absent before creation
  batches,          \* BatchIds -> envelope, or Absent
  handed,           \* every envelope returned to an evaluator
  acked             \* every [batch, rows] whose commit was acknowledged

vars == << ledger, checkpoint, batches, handed, acked >>

Init ==
  /\ ledger = Absent
  /\ checkpoint = Absent
  /\ batches = [b \in BatchIds |-> Absent]
  /\ handed = {}
  /\ acked = {}

Create ==
  /\ ledger = Absent
  /\ ledger' = EmptyLedger
  /\ checkpoint' = FirstCheckpoint
  /\ UNCHANGED << batches, handed, acked >>

\* The next state of the study is the one a valid transaction carries.
Install(tx) ==
  /\ ValidTransaction(tx)
  /\ ledger' = tx.ledger
  /\ checkpoint' = tx.checkpoint
  /\ batches' = [batches EXCEPT ![tx.batch.id] = tx.batch]
  /\ UNCHANGED << handed, acked >>

Begin(created) ==
  /\ ledger # Absent
  /\ checkpoint.active = 0
  /\ checkpoint.revision < MaxRevision
  /\ CanBegin(ledger, checkpoint)
  /\ Install(BeginTransaction(ledger, checkpoint, created))

Commit(b, rows) ==
  /\ ledger # Absent
  /\ batches[b] # Absent
  /\ batches[b].status = "pending"
  /\ Accepts(ledger, checkpoint, batches[b], rows)
  /\ Install(CommitTransaction(ledger, checkpoint, batches[b], rows))

\* Begin returns the active batch, always the same one until it is committed.
HandOut(b) ==
  /\ ledger # Absent
  /\ checkpoint.active = b
  /\ batches[b] # Absent
  /\ handed' = handed \cup {batches[b]}
  /\ UNCHANGED << ledger, checkpoint, batches, acked >>

\* A commit is acknowledged only when its rows are the stored ones.
Acknowledge(b, rows) ==
  /\ batches[b] # Absent
  /\ batches[b].status = "completed"
  /\ batches[b].evaluations = rows
  /\ acked' = acked \cup {[batch |-> b, rows |-> rows]}
  /\ UNCHANGED << ledger, checkpoint, batches, handed >>

Next ==
  \/ Create
  \/ \E created \in Times : Begin(created)
  \/ \E b \in BatchIds :
       \/ HandOut(b)
       \/ \E rows \in Submissions : Commit(b, rows) \/ Acknowledge(b, rows)

Spec == Init /\ [][Next]_vars

-----------------------------------------------------------------------------

TypeOK ==
  /\ ledger # Absent => ledger \in Ledger
  /\ checkpoint # Absent => checkpoint \in Checkpoint
  /\ batches \in [BatchIds -> Envelope \cup {Absent}]
  /\ handed \subseteq Envelope
  /\ acked \subseteq [batch : BatchIds, rows : Seq(Row)]

\* A batch that went to an evaluator keeps its identity, its candidates and its
\* creation stamp for ever; its variants stay registered in the ledger.
HandedOutIsDurable ==
  \A envelope \in handed :
    /\ batches[envelope.id] # Absent
    /\ batches[envelope.id].candidates = envelope.candidates
    /\ batches[envelope.id].created = envelope.created
    /\ envelope.candidates \subseteq ledger.variants

\* An acknowledged commit is in the ledger, and in the batch file, for ever.
AcknowledgedIsDurable ==
  \A ack \in acked :
    /\ batches[ack.batch] # Absent
    /\ batches[ack.batch].status = "completed"
    /\ batches[ack.batch].evaluations = ack.rows
    /\ Range(ack.rows) \subseteq ledger.evaluations

\* The optimizer and the ledger never part: what the optimizer was told is what
\* the ledger records, and what it waits for is what the ledger lacks.
OptimizerMatchesLedger ==
  ledger # Absent =>
    /\ checkpoint.optimizer.told = ledger.evaluations
    /\ checkpoint.optimizer.evaluationCount = Cardinality(ledger.evaluations)
    /\ checkpoint.optimizer.pending =
         {v \in ledger.variants : v.id \notin Ids(ledger.evaluations)}

\* A batch that is asked for again is the same envelope, to the time stamp, and
\* no candidate id is ever issued twice.
ResumedExactly ==
  \A e, f \in handed :
    /\ e.id = f.id => e = f
    /\ Ids(e.candidates) \cap Ids(f.candidates) # {} => e = f

=============================================================================
