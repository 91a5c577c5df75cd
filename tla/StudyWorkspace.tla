---------------------------- MODULE StudyWorkspace ----------------------------
(***************************************************************************)
(* The crash-safe study directory of crates/xvarna-study: every operation  *)
(* of StudyWorkspace down to the single file-system steps it takes, with   *)
(* process crashes and I/O errors between any two of them.                 *)
(*                                                                         *)
(* A file is a main slot and a ".previous" slot.  Writing it (atomic_json) *)
(* takes four steps: synchronize a temporary file, rename main to          *)
(* .previous, rename the temporary file to main, remove .previous.         *)
(* Temporary files are never read, so they have no slot.  A crash loses    *)
(* the process, not what the operating system accepted.                    *)
(*                                                                         *)
(* One process writes the directory at a time, as its documentation        *)
(* requires; the client is any sequence of create, open, begin, commit and *)
(* close calls.  The C ABI and the CLI open the directory on every call    *)
(* and drop the object afterwards (RetainsHandle = FALSE); a Rust caller   *)
(* may go on using it after an error (RetainsHandle = TRUE).               *)
(***************************************************************************)
EXTENDS StudyTransaction

CONSTANTS
  RetainsHandle,    \* does the caller keep the object after an I/O error?
  MaxFaults         \* bound on I/O errors

ASSUME WorkspaceAssumption ==
  /\ MaxFaults \in Nat
  /\ RetainsHandle \in BOOLEAN

ManifestFile   == << "manifest", 0 >>
LedgerFile     == << "ledger", 0 >>
CheckpointFile == << "checkpoint", 0 >>
JournalFile    == << "transaction", 0 >>
BatchFile(b)   == << "batch", b >>

Files == {ManifestFile, LedgerFile, CheckpointFile, JournalFile}
           \cup {BatchFile(b) : b \in BatchIds}

VARIABLES
  main,     \* Files -> content of the file, or Absent
  prev,     \* Files -> content of its ".previous" sibling, or Absent
  ws,       \* the open object's ledger and checkpoint, or Absent
  op,       \* the call in progress: "idle", "create", "open", "begin", "commit"
  stage,    \* what the call works on
  phase,    \* where it stands in atomic_json
  tx,       \* the values the call is writing, or Absent
  handed,   \* envelopes returned by begin_batch
  acked,    \* what commit_batch returned Ok for, and the state it reported
  faults    \* I/O errors so far

disk == << main, prev >>
call == << op, stage, phase, tx >>
vars == << main, prev, ws, op, stage, phase, tx, handed, acked, faults >>

Init ==
  /\ main = [f \in Files |-> Absent]
  /\ prev = [f \in Files |-> Absent]
  /\ ws = Absent
  /\ op = "idle" /\ stage = "none" /\ phase = "none" /\ tx = Absent
  /\ handed = {} /\ acked = {}
  /\ faults = 0

-----------------------------------------------------------------------------
(* Reading: the main file, else the backup.                                *)

Read(f) == IF main[f] # Absent THEN main[f] ELSE prev[f]

\* read_batch refuses an envelope stored under another id.
BatchReadable(b) == Read(BatchFile(b)) # Absent /\ Read(BatchFile(b)).id = b

\* What open checks of the files once no journal is left.
Loadable ==
  LET ledger     == Read(LedgerFile)
      checkpoint == Read(CheckpointFile)
  IN /\ ledger # Absent /\ checkpoint # Absent
     /\ ValidLedger(ledger)
     /\ ValidCheckpoint(checkpoint, ledger)
     /\ IF checkpoint.active = 0
        THEN checkpoint.optimizer.pending = {}
        ELSE /\ BatchReadable(checkpoint.active)
             /\ Read(BatchFile(checkpoint.active)).status = "pending"
             /\ Read(BatchFile(checkpoint.active)).candidates
                  = checkpoint.optimizer.pending

-----------------------------------------------------------------------------
(* The call in progress.                                                   *)

Enter(o, s, p, t) == op' = o /\ stage' = s /\ phase' = p /\ tx' = t

Leave == Enter("idle", "none", "none", Absent)

\* The file the current stage writes, and what it writes there.
Target ==
  CASE stage = "manifest"   -> ManifestFile
    [] stage = "ledger"     -> LedgerFile
    [] stage = "checkpoint" -> CheckpointFile
    [] stage = "journal"    -> JournalFile
    [] stage = "batch"      -> BatchFile(tx.batch.id)

Value ==
  CASE stage = "manifest"   -> "manifest"
    [] stage = "ledger"     -> tx.ledger
    [] stage = "checkpoint" -> tx.checkpoint
    [] stage = "journal"    -> tx
    [] stage = "batch"      -> tx.batch

\* Plausible fault: the checkpoint is renamed into place and the call returns
\* to the journal's removal before the batch file is written.
NextStageSkipsBatch ==
  CASE stage = "manifest"                        -> "ledger"
    [] stage = "journal"                         -> "ledger"
    [] stage = "ledger"                          -> "checkpoint"
    [] stage = "checkpoint" /\ op = "create"     -> "return"
    [] stage = "checkpoint" /\ op # "create"     -> "unlink"

\* create writes manifest, ledger, checkpoint; a transaction is journaled, then
\* applied in the order ledger, checkpoint, batch, then the journal is removed.
NextStage ==
  CASE stage = "manifest"                        -> "ledger"
    [] stage = "journal"                         -> "ledger"
    [] stage = "ledger"                          -> "checkpoint"
    [] stage = "checkpoint" /\ op = "create"     -> "return"
    [] stage = "checkpoint" /\ op # "create"     -> "batch"
    [] stage = "batch"                           -> "unlink"

Writing == stage \in {"manifest", "ledger", "checkpoint", "journal", "batch"}

\* The temporary file is complete and synchronized.  If the file exists, an
\* older backup makes way for it.
WriteTemporary ==
  /\ Writing /\ phase = "write"
  /\ prev' = IF main[Target] # Absent THEN [prev EXCEPT ![Target] = Absent]
                                      ELSE prev
  /\ Enter(op, stage, IF main[Target] # Absent THEN "stash" ELSE "publish", tx)
  /\ UNCHANGED << main, ws, handed, acked, faults >>

Stash ==
  /\ Writing /\ phase = "stash"
  /\ prev' = [prev EXCEPT ![Target] = main[Target]]
  /\ main' = [main EXCEPT ![Target] = Absent]
  /\ Enter(op, stage, "publish", tx)
  /\ UNCHANGED << ws, handed, acked, faults >>

Publish ==
  /\ Writing /\ phase = "publish"
  /\ main' = [main EXCEPT ![Target] = Value]
  /\ Enter(op, stage, "clean", tx)
  /\ UNCHANGED << prev, ws, handed, acked, faults >>

Clean ==
  /\ Writing /\ phase = "clean"
  /\ prev' = [prev EXCEPT ![Target] = Absent]
  /\ Enter(op, NextStage,
           IF NextStage \in {"return", "unlink"} THEN "none" ELSE "write", tx)
  /\ UNCHANGED << main, ws, handed, acked, faults >>

\* The journal goes last; recovery also removes its backup.
Unlink ==
  /\ stage = "unlink"
  /\ main' = [main EXCEPT ![JournalFile] = Absent]
  /\ Enter(op, IF op = "open" THEN "unlinkBackup" ELSE "return", "none", tx)
  /\ UNCHANGED << prev, ws, handed, acked, faults >>

UnlinkBackup ==
  /\ stage = "unlinkBackup"
  /\ prev' = [prev EXCEPT ![JournalFile] = Absent]
  /\ Enter("open", "load", "none", Absent)
  /\ UNCHANGED << main, ws, handed, acked, faults >>

-----------------------------------------------------------------------------
(* The client's calls.                                                     *)

\* create refuses a directory that has a manifest.
Create ==
  /\ op = "idle" /\ ws = Absent
  /\ main[ManifestFile] = Absent
  /\ Enter("create", "manifest", "write",
           [ledger |-> EmptyLedger, checkpoint |-> FirstCheckpoint])
  /\ UNCHANGED << main, prev, ws, handed, acked, faults >>

\* open first completes the transaction whose journal, or its backup, is there.
Open ==
  /\ op = "idle" /\ ws = Absent
  /\ main[ManifestFile] # Absent
  /\ IF Read(JournalFile) # Absent
     THEN /\ ValidTransaction(Read(JournalFile))
          /\ Enter("open", "ledger", "write", Read(JournalFile))
     ELSE Enter("open", "load", "none", Absent)
  /\ UNCHANGED << main, prev, ws, handed, acked, faults >>

\* open returns the object, or CorruptWorkspace.
Load ==
  /\ stage = "load"
  /\ ws' = IF Loadable
           THEN [ledger |-> Read(LedgerFile), checkpoint |-> Read(CheckpointFile)]
           ELSE Absent
  /\ Leave
  /\ UNCHANGED << main, prev, handed, acked, faults >>

\* Plausible fault: a batch that is handed out again is stamped again.
ResumeRestamps ==
  /\ op = "idle" /\ ws # Absent
  /\ ws.checkpoint.active # 0
  /\ BatchReadable(ws.checkpoint.active)
  /\ \E now \in Times :
       handed' = handed \cup
         {[Read(BatchFile(ws.checkpoint.active)) EXCEPT !.created = now]}
  /\ UNCHANGED << main, prev, ws, op, stage, phase, tx, acked, faults >>

\* begin_batch with an active batch reads it back.
Resume ==
  /\ op = "idle" /\ ws # Absent
  /\ ws.checkpoint.active # 0
  /\ BatchReadable(ws.checkpoint.active)
  /\ handed' = handed \cup {Read(BatchFile(ws.checkpoint.active))}
  /\ UNCHANGED << main, prev, ws, op, stage, phase, tx, acked, faults >>

\* begin_batch without one journals the next.
Begin(created) ==
  /\ op = "idle" /\ ws # Absent
  /\ ws.checkpoint.active = 0
  /\ ws.checkpoint.revision < MaxRevision
  /\ CanBegin(ws.ledger, ws.checkpoint)
  /\ LET next == BeginTransaction(ws.ledger, ws.checkpoint, created)
     IN /\ ValidTransaction(next)
        /\ Enter("begin", "journal", "write", next)
  /\ UNCHANGED << main, prev, ws, handed, acked, faults >>

\* Plausible fault: the commit is applied in place, without a journal.
CommitWithoutJournal(b, rows) ==
  /\ op = "idle" /\ ws # Absent
  /\ BatchReadable(b)
  /\ Read(BatchFile(b)).status = "pending"
  /\ Accepts(ws.ledger, ws.checkpoint, Read(BatchFile(b)), rows)
  /\ LET next == CommitTransaction(ws.ledger, ws.checkpoint, Read(BatchFile(b)), rows)
     IN /\ ValidTransaction(next)
        /\ Enter("commit", "ledger", "write", next)
  /\ UNCHANGED << main, prev, ws, handed, acked, faults >>

\* commit_batch of the active batch journals the evaluated generation.
Commit(b, rows) ==
  /\ op = "idle" /\ ws # Absent
  /\ BatchReadable(b)
  /\ Read(BatchFile(b)).status = "pending"
  /\ Accepts(ws.ledger, ws.checkpoint, Read(BatchFile(b)), rows)
  /\ LET next == CommitTransaction(ws.ledger, ws.checkpoint, Read(BatchFile(b)), rows)
     IN /\ ValidTransaction(next)
        /\ Enter("commit", "journal", "write", next)
  /\ UNCHANGED << main, prev, ws, handed, acked, faults >>

Report(batch, rows, checkpoint) ==
  [batch |-> batch, rows |-> rows, revision |-> checkpoint.revision]

\* commit_batch of a completed batch accepts the identical rows again.
Retry(b, rows) ==
  /\ op = "idle" /\ ws # Absent
  /\ BatchReadable(b)
  /\ Read(BatchFile(b)).status = "completed"
  /\ Read(BatchFile(b)).evaluations = rows
  /\ acked' = acked \cup {Report(b, rows, ws.checkpoint)}
  /\ UNCHANGED << main, prev, ws, op, stage, phase, tx, handed, faults >>

\* The call's last step: the object takes the new state and the client its
\* answer.
Return ==
  /\ stage = "return"
  /\ ws' = [ledger |-> tx.ledger, checkpoint |-> tx.checkpoint]
  /\ handed' = IF op = "begin" THEN handed \cup {tx.batch} ELSE handed
  /\ acked' = IF op = "commit"
              THEN acked \cup {Report(tx.batch.id, tx.batch.evaluations, tx.checkpoint)}
              ELSE acked
  /\ Leave
  /\ UNCHANGED << main, prev, faults >>

Close ==
  /\ op = "idle" /\ ws # Absent
  /\ ws' = Absent
  /\ UNCHANGED << main, prev, op, stage, phase, tx, handed, acked, faults >>

-----------------------------------------------------------------------------
(* What the environment does.                                              *)

\* The process dies.  The directory keeps the steps that were taken.
Crash ==
  /\ op # "idle"
  /\ ws' = Absent
  /\ Leave
  /\ UNCHANGED << main, prev, handed, acked, faults >>

\* A file-system step fails and the call returns the error.  When the step was
\* the rename into place, the backup is put back, if that succeeds.
IoError ==
  /\ Writing \/ stage \in {"unlink", "unlinkBackup"}
  /\ faults < MaxFaults
  /\ faults' = faults + 1
  /\ ws' = IF RetainsHandle THEN ws ELSE Absent
  /\ Leave
  /\ \/ UNCHANGED disk
     \/ /\ phase = "publish" /\ prev[Target] # Absent /\ main[Target] = Absent
        /\ main' = [main EXCEPT ![Target] = prev[Target]]
        /\ prev' = [prev EXCEPT ![Target] = Absent]
  /\ UNCHANGED << handed, acked >>

FileStep ==
  WriteTemporary \/ Stash \/ Publish \/ Clean \/ Unlink \/ UnlinkBackup

Next ==
  \/ Create \/ Open \/ Load \/ Resume \/ Return \/ Close
  \/ \E created \in Times : Begin(created)
  \/ \E b \in BatchIds, rows \in Submissions : Commit(b, rows) \/ Retry(b, rows)
  \/ FileStep
  \/ Crash \/ IoError

Spec == Init /\ [][Next]_vars

-----------------------------------------------------------------------------
(* The study the directory stands for: the state recovery would reach.     *)

HasJournal == Read(JournalFile) # Absent

Initialised == Read(CheckpointFile) # Absent

StudyLedger ==
  IF HasJournal THEN Read(JournalFile).ledger
  ELSE IF Initialised THEN Read(LedgerFile) ELSE Absent

StudyCheckpoint ==
  IF HasJournal THEN Read(JournalFile).checkpoint ELSE Read(CheckpointFile)

StudyBatches ==
  [b \in BatchIds |->
     IF HasJournal /\ Read(JournalFile).batch.id = b
     THEN Read(JournalFile).batch ELSE Read(BatchFile(b))]

Contract ==
  INSTANCE StudyContract
    WITH ledger <- StudyLedger, checkpoint <- StudyCheckpoint,
         batches <- StudyBatches, handed <- handed,
         acked <- {[batch |-> a.batch, rows |-> a.rows] : a \in acked}

-----------------------------------------------------------------------------
(* Properties.                                                             *)

\* The active batch of a stored checkpoint is one this bound provides for.
StoredCheckpoint == {c \in Checkpoint : c.active \in BatchIds \cup {0}}

\* What may be in a file.
Contents(f) ==
  CASE f = ManifestFile   -> {"manifest"}
    [] f = LedgerFile     -> Ledger
    [] f = CheckpointFile -> StoredCheckpoint
    [] f = JournalFile    -> Transaction
    [] OTHER              -> Envelope

\* Every slot holds a value of its file's kind, or nothing.
TypeOK ==
  /\ DOMAIN main = Files /\ DOMAIN prev = Files
  /\ \A f \in Files : main[f] # Absent => main[f] \in Contents(f)
  /\ \A f \in Files : prev[f] # Absent => prev[f] \in Contents(f)
  /\ ws # Absent => ws \in [ledger : Ledger, checkpoint : StoredCheckpoint]
  /\ op \in {"idle", "create", "open", "begin", "commit"}
  /\ stage \in {"none", "manifest", "ledger", "checkpoint", "journal", "batch",
                "unlink", "unlinkBackup", "load", "return"}
  /\ phase \in {"none", "write", "stash", "publish", "clean"}
  /\ handed \subseteq Envelope
  /\ acked \subseteq [batch : Nat, rows : Seq(Row), revision : Nat]
  /\ faults \in 0 .. MaxFaults

\* Once create has written its last file, the directory can always be opened:
\* either no journal is left and the files agree with each other, or there is
\* a journal recovery accepts.  Crash and I/O error may strike at any step.
AlwaysRecoverable ==
  Initialised => IF HasJournal THEN ValidTransaction(Read(JournalFile)) ELSE Loadable

\* No candidate leaves the engine before it, its batch and the optimizer state
\* behind it are durable.
HandedOutIsDurable == Contract!HandedOutIsDurable

\* No crash, recovery or retry undoes or alters an acknowledged commit.
AcknowledgedIsDurable == Contract!AcknowledgedIsDurable

\* Optimizer checkpoint and ledger describe the same study at every crash point.
OptimizerMatchesLedger == Contract!OptimizerMatchesLedger

\* A batch that is asked for again is the same envelope, to the time stamp, and
\* no candidate id is ever issued twice.
ResumedExactly == Contract!ResumedExactly

\* The recovered study never loses a variant or an evaluation and never goes
\* back to an earlier revision.
StudyOnlyGrows ==
  [][StudyLedger # Absent =>
       /\ StudyLedger.variants \subseteq StudyLedger'.variants
       /\ StudyLedger.evaluations \subseteq StudyLedger'.evaluations
       /\ StudyCheckpoint'.revision \in
            {StudyCheckpoint.revision, StudyCheckpoint.revision + 1}]_vars

\* The directory, seen through recovery, is an atomic study workspace.
ImplementsContract == Contract!Spec

\* What a caller may expect of create: a directory it left behind can be opened,
\* or be created again.
CreateCanBeRepeated ==
  op = "idle" /\ main[ManifestFile] # Absent => Initialised

\* What a caller may expect of Ok: the state that commit_batch reports contains
\* the generation it committed.
AckReportsCommit ==
  \A ack \in acked : ack.revision > ack.batch

-----------------------------------------------------------------------------
(* The inductive invariant behind these properties.                        *)

GoodTransaction(t) ==
  t \in Transaction /\ ValidTransaction(t) /\ t.batch.id \in BatchIds

\* What each call works on, and with which values.
CallShape ==
  /\ op = "idle" => stage = "none"
  /\ op = "create" =>
       /\ stage \in {"manifest", "ledger", "checkpoint", "return"}
       /\ tx = [ledger |-> EmptyLedger, checkpoint |-> FirstCheckpoint]
  /\ op = "open" =>
       /\ stage \in {"ledger", "checkpoint", "batch", "unlink", "unlinkBackup", "load"}
       /\ stage # "load" => GoodTransaction(tx)
  /\ op \in {"begin", "commit"} =>
       /\ stage \in {"journal", "ledger", "checkpoint", "batch", "unlink", "return"}
       /\ GoodTransaction(tx)
       /\ ws # Absent
  /\ op = "begin" => tx.batch.status = "pending"
  /\ op = "commit" =>
       tx.batch.status = "completed" /\ tx.batch.evaluations \in Submissions
  /\ op \in {"create", "open"} => ws = Absent
  /\ Writing <=> phase # "none"
  /\ main[JournalFile] # Absent => GoodTransaction(main[JournalFile])
  /\ prev[JournalFile] # Absent => GoodTransaction(prev[JournalFile])

\* How far atomic_json got with the file it writes.
PhaseInv ==
  /\ phase = "stash" => main[Target] # Absent
  /\ phase = "publish" => main[Target] = Absent
  /\ phase = "clean" => main[Target] = Value

\* The call's transaction is not on disk yet.
Journaling == stage = "journal" /\ phase # "clean"

\* Where no journal can be left.
Settled ==
  \/ (op = "idle" /\ ws # Absent)
  \/ op = "create"
  \/ stage \in {"unlinkBackup", "load", "return"}
  \/ Journaling

\* A journal is on disk exactly while its transaction may be half applied.
JournalInv ==
  /\ prev[JournalFile] = Absent
  /\ HasJournal => Initialised
  /\ Settled => main[JournalFile] = Absent
  /\ op # "create" /\ stage \in {"ledger", "checkpoint", "batch", "unlink"} =>
       main[JournalFile] = tx

\* Files already written by the transaction in progress.
AppliedInv ==
  /\ stage \in {"checkpoint", "batch", "unlink", "unlinkBackup", "return"} =>
       main[LedgerFile] = tx.ledger
  /\ stage \in {"batch", "unlink", "unlinkBackup", "return"} =>
       main[CheckpointFile] = tx.checkpoint
  /\ stage \in {"unlink", "unlinkBackup", "return"} /\ op # "create" =>
       main[BatchFile(tx.batch.id)] = tx.batch

\* The checkpoint is the last file create writes, the manifest the first.
CreationInv ==
  /\ Initialised => main[ManifestFile] # Absent
  /\ op = "create" /\ stage # "manifest" => main[ManifestFile] # Absent
  /\ op = "create" /\ Initialised =>
       \/ stage = "return"
       \/ (stage = "checkpoint" /\ phase = "clean")

\* Without a journal the files agree; an open object is a copy of them.
StableInv ==
  /\ ~HasJournal /\ Initialised => Loadable
  /\ ws # Absent /\ (op = "idle" \/ Journaling) =>
       /\ Initialised
       /\ ws = [ledger |-> Read(LedgerFile), checkpoint |-> Read(CheckpointFile)]

\* The transaction about to be journaled is the contract's next step.
PendingInv ==
  Journaling =>
    \/ /\ op = "begin"
       /\ ws.checkpoint.active = 0
       /\ ws.checkpoint.revision < MaxRevision
       /\ CanBegin(ws.ledger, ws.checkpoint)
       /\ \E created \in Times :
            tx = BeginTransaction(ws.ledger, ws.checkpoint, created)
    \/ /\ op = "commit"
       /\ \E b \in BatchIds, rows \in Submissions :
            /\ BatchReadable(b)
            /\ Read(BatchFile(b)).status = "pending"
            /\ Accepts(ws.ledger, ws.checkpoint, Read(BatchFile(b)), rows)
            /\ tx = CommitTransaction(ws.ledger, ws.checkpoint,
                                      Read(BatchFile(b)), rows)

TypeInv == TypeOK /\ CallShape

DiskInv ==
  /\ PhaseInv /\ JournalInv /\ AppliedInv /\ CreationInv /\ StableInv /\ PendingInv

IInv == TypeInv /\ DiskInv

=============================================================================
