------------------------ MODULE StudyWorkspace_proofs ------------------------
(***************************************************************************)
(* Proofs about a study, for every batch size, every payload, any number    *)
(* of revisions and any number of crashes and I/O errors.                   *)
(*                                                                         *)
(* First the transactions a study is made of (StudyTransaction), then the   *)
(* study that is created once and changed by whole transactions             *)
(* (StudyContract, with a ledger of any kind), and on these the directory   *)
(* that implements it with journals and files (StudyWorkspace).             *)
(***************************************************************************)
EXTENDS StudyWorkspace, FiniteSetTheorems, TLAPS

-----------------------------------------------------------------------------
(* What the transactions of a study are made of.                           *)

\* Asking draws candidates with fresh natural ids and leaves what the optimizer
\* was told alone.
LEMMA AskType ==
  ASSUME NEW opt \in Optimizer
  PROVE  /\ Ask(opt) \in Optimizer
         /\ Ask(opt).told = opt.told
         /\ Ask(opt).evaluationCount = opt.evaluationCount
         /\ Ask(opt).pending \subseteq Candidate
  <1>1. RequestedSize(opt) \in Nat
    BY SizesAssumption DEF RequestedSize
  <1>2. opt.nextId \in Nat /\ opt.random \in Nat /\ opt.generation \in Nat
    BY DEF Optimizer
  <1>3. \A i \in opt.nextId .. (opt.nextId + RequestedSize(opt) - 1) :
          [id |-> i, generation |-> opt.generation, draw |-> opt.random] \in Candidate
    BY <1>1, <1>2 DEF Candidate
  <1>4. Ask(opt).pending \subseteq Candidate
    BY <1>3 DEF Ask
  <1>5. QED
    BY <1>1, <1>2, <1>4 DEF Ask, Optimizer

\* Telling keeps the optimizer well typed and clears the pending work.
LEMMA TellType ==
  ASSUME NEW opt \in Optimizer, NEW rows \in Seq(Row)
  PROVE  /\ Tell(opt, rows) \in Optimizer
         /\ Tell(opt, rows).told = opt.told \cup Range(rows)
         /\ Tell(opt, rows).pending = {}
         /\ Tell(opt, rows).evaluationCount = opt.evaluationCount + Len(rows)
  <1>1. Range(rows) \subseteq Row
    BY DEF Range
  <1>2. QED
    BY <1>1 DEF Tell, Optimizer

\* Rows with distinct ids are as many as the sequence is long.
LEMMA DistinctRows ==
  ASSUME NEW rows \in Seq(Row),
         \A i, j \in DOMAIN rows : rows[i].id = rows[j].id => i = j
  PROVE  IsFiniteSet(Range(rows)) /\ Cardinality(Range(rows)) = Len(rows)
  <1>1. rows \in [1 .. Len(rows) -> Range(rows)] /\ DOMAIN rows = 1 .. Len(rows)
    BY DEF Range
  <1>2. \A i, j \in 1 .. Len(rows) : rows[i] = rows[j] => i = j
    BY <1>1
  <1>3. \A r \in Range(rows) : \E i \in 1 .. Len(rows) : rows[i] = r
    BY <1>1 DEF Range
  <1>4. ExistsBijection(1 .. Len(rows), Range(rows))
    BY <1>1, <1>2, <1>3 DEF ExistsBijection, Bijection, Injection, Surjection, IsInjective
  <1>5. Len(rows) \in Nat
    OBVIOUS
  <1>6. IsFiniteSet(1 .. Len(rows)) /\ Cardinality(1 .. Len(rows)) = Len(rows)
    BY <1>5, FS_Interval
  <1>7. QED
    BY <1>4, <1>6, FS_Bijection

\* The shape of the transaction begin installs.
LEMMA BeginType ==
  ASSUME NEW l \in Ledger, NEW c \in Checkpoint, NEW created \in Times
  PROVE  LET begun == BeginTransaction(l, c, created)
         IN /\ begun \in Transaction
            /\ begun.ledger.variants = l.variants \cup Ask(c.optimizer).pending
            /\ begun.ledger.evaluations = l.evaluations
            /\ begun.checkpoint.revision = c.revision + 1
            /\ begun.checkpoint.active = c.revision + 1
            /\ begun.checkpoint.optimizer = Ask(c.optimizer)
            /\ begun.batch.id = c.revision + 1
            /\ begun.batch.status = "pending"
            /\ begun.batch.candidates = Ask(c.optimizer).pending
            /\ begun.batch.evaluations = << >>
  <1>1. c.optimizer \in Optimizer /\ c.revision \in Nat /\ l.revision \in Nat
    BY DEF Checkpoint, Ledger
  <1>2. Ask(c.optimizer) \in Optimizer /\ Ask(c.optimizer).pending \subseteq Candidate
    BY <1>1, AskType
  <1>3. BeginTransaction(l, c, created).ledger \in Ledger
    BY <1>1, <1>2 DEF BeginTransaction, Ledger
  <1>4. BeginTransaction(l, c, created).checkpoint \in Checkpoint
    BY <1>1, <1>2, <1>3 DEF BeginTransaction, Checkpoint
  <1>5. BeginTransaction(l, c, created).batch \in Envelope
    BY <1>1, <1>2 DEF BeginTransaction, Envelope
  <1>6. QED
    BY <1>3, <1>4, <1>5 DEF BeginTransaction, Transaction

\* The shape of the transaction commit installs.
LEMMA CommitType ==
  ASSUME NEW l \in Ledger, NEW c \in Checkpoint, NEW e \in Envelope,
         NEW rows \in Seq(Row)
  PROVE  LET committed == CommitTransaction(l, c, e, rows)
         IN /\ committed \in Transaction
            /\ committed.ledger.variants = l.variants
            /\ committed.ledger.evaluations = l.evaluations \cup Range(rows)
            /\ committed.checkpoint.revision = c.revision + 1
            /\ committed.checkpoint.active = 0
            /\ committed.checkpoint.optimizer = Tell(c.optimizer, rows)
            /\ committed.batch.id = e.id
            /\ committed.batch.status = "completed"
            /\ committed.batch.created = e.created
            /\ committed.batch.candidates = e.candidates
            /\ committed.batch.evaluations = rows
  <1>1. c.optimizer \in Optimizer /\ c.revision \in Nat /\ l.revision \in Nat
    BY DEF Checkpoint, Ledger
  <1>2. Tell(c.optimizer, rows) \in Optimizer /\ Range(rows) \subseteq Row
    BY <1>1, TellType DEF Range
  <1>3. CommitTransaction(l, c, e, rows).ledger \in Ledger
    BY <1>1, <1>2 DEF CommitTransaction, Ledger
  <1>4. CommitTransaction(l, c, e, rows).checkpoint \in Checkpoint
    BY <1>1, <1>2, <1>3 DEF CommitTransaction, Checkpoint
  <1>5. CommitTransaction(l, c, e, rows).batch \in Envelope
    BY <1>1, <1>2 DEF CommitTransaction, Envelope
  <1>6. QED
    BY <1>3, <1>4, <1>5 DEF CommitTransaction, Transaction

-----------------------------------------------------------------------------
(* A study as a whole: its ledger l, checkpoint c and batches bs, the envelopes *)
(* h that went to evaluators and the commits acks that were acknowledged.       *)

StudyTypes(l, c, bs, h, acks) ==
  /\ l # Absent => l \in Ledger
  /\ c # Absent => c \in Checkpoint
  /\ bs \in [BatchIds -> Envelope \cup {Absent}]
  /\ h \subseteq Envelope
  /\ acks \subseteq [batch : BatchIds, rows : Seq(Row)]

HandedOutKept(l, bs, h) ==
  \A e \in h :
    /\ bs[e.id] # Absent
    /\ bs[e.id].candidates = e.candidates
    /\ bs[e.id].created = e.created
    /\ e.candidates \subseteq l.variants

AcknowledgedKept(l, bs, acks) ==
  \A ack \in acks :
    /\ bs[ack.batch] # Absent
    /\ bs[ack.batch].status = "completed"
    /\ bs[ack.batch].evaluations = ack.rows
    /\ Range(ack.rows) \subseteq l.evaluations

OptimizerMatches(l, c) ==
  l # Absent =>
    /\ c.optimizer.told = l.evaluations
    /\ c.optimizer.evaluationCount = Cardinality(l.evaluations)
    /\ c.optimizer.pending = {v \in l.variants : v.id \notin Ids(l.evaluations)}

ResumesExactly(h) ==
  \A e, f \in h :
    /\ e.id = f.id => e = f
    /\ Ids(e.candidates) \cap Ids(f.candidates) # {} => e = f

\* Why these are preserved: before creation there is nothing; after it the pending
\* work is the active batch, a batch is stored under its own id, no batch exists above
\* the current revision, so that begin never overwrites one, ledger rows cover every
\* stored batch, and no two batches share a candidate id.
StoredBatches(l, c, bs) ==
  \A b \in BatchIds : bs[b] # Absent =>
    /\ bs[b].id = b
    /\ b =< c.revision
    /\ bs[b].candidates \subseteq l.variants
    /\ bs[b].status = "completed" => Range(bs[b].evaluations) \subseteq l.evaluations

DisjointBatches(bs) ==
  \A x, y \in BatchIds :
    bs[x] # Absent /\ bs[y] # Absent /\ x # y =>
      Ids(bs[x].candidates) \cap Ids(bs[y].candidates) = {}

Unevaluated(e) == e.status = "pending" /\ e.evaluations = << >>

ActiveBatch(c, bs) ==
  /\ c.active = 0 => c.optimizer.pending = {}
  /\ c.active # 0 =>
       /\ c.active \in BatchIds
       /\ bs[c.active] # Absent
       /\ bs[c.active].candidates = c.optimizer.pending
       /\ Unevaluated(bs[c.active])

Consistent(l, c, bs, h, acks) ==
  /\ \A e \in h : e.id \in BatchIds /\ Unevaluated(e)
  /\ l = Absent =>
       /\ c = Absent
       /\ \A b \in BatchIds : bs[b] = Absent
       /\ h = {} /\ acks = {}
  /\ l # Absent =>
       /\ c # Absent
       /\ ValidLedger(l)
       /\ ActiveBatch(c, bs)
       /\ StoredBatches(l, c, bs)
       /\ DisjointBatches(bs)
       /\ IsFiniteSet(l.evaluations)

GoodStudy(l, c, bs, h, acks) ==
  /\ StudyTypes(l, c, bs, h, acks)
  /\ Consistent(l, c, bs, h, acks)
  /\ HandedOutKept(l, bs, h)
  /\ AcknowledgedKept(l, bs, acks)
  /\ OptimizerMatches(l, c)

\* Before creation there is nothing, and creation adds an empty study.
LEMMA NewStudy ==
  /\ GoodStudy(Absent, Absent, [b \in BatchIds |-> Absent], {}, {})
  /\ \A c, bs, h, acks :
       GoodStudy(Absent, c, bs, h, acks) =>
         GoodStudy(EmptyLedger, FirstCheckpoint, bs, h, acks)
  <1>1. GoodStudy(Absent, Absent, [b \in BatchIds |-> Absent], {}, {})
    BY DEF GoodStudy, StudyTypes, Consistent, HandedOutKept, AcknowledgedKept, OptimizerMatches
  <1>2. ASSUME NEW c, NEW bs, NEW h, NEW acks, GoodStudy(Absent, c, bs, h, acks)
        PROVE  GoodStudy(EmptyLedger, FirstCheckpoint, bs, h, acks)
    <2>1. EmptyLedger \in Ledger /\ FirstCheckpoint \in Checkpoint
      BY DEF EmptyLedger, FirstCheckpoint, NewOptimizer, Ledger, Checkpoint, Optimizer
    <2>2. StudyTypes(EmptyLedger, FirstCheckpoint, bs, h, acks)
      BY <1>2, <2>1 DEF GoodStudy, StudyTypes
    <2>3. ValidLedger(EmptyLedger) /\ IsFiniteSet(EmptyLedger.evaluations)
      BY FS_EmptySet DEF EmptyLedger, ValidLedger, NoDuplicateIds, Ids
    <2>4. /\ \A b \in BatchIds : bs[b] = Absent
          /\ h = {} /\ acks = {}
      BY <1>2 DEF GoodStudy, Consistent
    <2>5. Consistent(EmptyLedger, FirstCheckpoint, bs, h, acks)
      BY <2>1, <2>3, <2>4, AbsentAssumption
      DEF Consistent, ActiveBatch, StoredBatches, DisjointBatches, FirstCheckpoint, NewOptimizer
    <2>6. /\ HandedOutKept(EmptyLedger, bs, h) /\ AcknowledgedKept(EmptyLedger, bs, acks)
      BY <2>4 DEF HandedOutKept, AcknowledgedKept
    <2>7. OptimizerMatches(EmptyLedger, FirstCheckpoint)
      BY FS_EmptySet
      DEF OptimizerMatches, EmptyLedger, FirstCheckpoint, NewOptimizer, Ids
    <2>8. QED
      BY <2>2, <2>5, <2>6, <2>7 DEF GoodStudy
  <1>3. QED
    BY <1>1, <1>2

\* Begin installs a transaction of fresh candidates under the next revision.
LEMMA BegunStudy ==
  ASSUME NEW l, NEW c, NEW bs, NEW h, NEW acks, GoodStudy(l, c, bs, h, acks),
         l # Absent, c.active = 0, c.revision < MaxRevision, CanBegin(l, c),
         NEW created \in Times,
         NEW t, t = BeginTransaction(l, c, created), ValidTransaction(t),
         NEW new, new = [bs EXCEPT ![t.batch.id] = t.batch]
  PROVE  GoodStudy(t.ledger, t.checkpoint, new, h, acks)
  <1> DEFINE asked == Ask(c.optimizer)
  <1>1. /\ l \in Ledger /\ c \in Checkpoint
        /\ c.revision \in Nat
        /\ c.optimizer \in Optimizer
    BY DEF GoodStudy, StudyTypes, Consistent, Checkpoint
  <1>2. /\ t \in Transaction
        /\ t.ledger.variants = l.variants \cup asked.pending
        /\ t.ledger.evaluations = l.evaluations
        /\ t.checkpoint.revision = c.revision + 1
        /\ t.checkpoint.active = c.revision + 1
        /\ t.checkpoint.optimizer = asked
        /\ t.batch.id = c.revision + 1
        /\ t.batch.status = "pending"
        /\ t.batch.candidates = asked.pending
        /\ Unevaluated(t.batch)
    BY <1>1, BeginType DEF Unevaluated
  <1>3. /\ t.ledger \in Ledger /\ t.checkpoint \in Checkpoint /\ t.batch \in Envelope
        /\ t.batch.id \in BatchIds
    BY <1>1, <1>2, RevisionAssumption DEF Transaction, BatchIds
  <1>4. /\ new = [bs EXCEPT ![t.batch.id] = t.batch]
        /\ ValidTransaction(t)
    OBVIOUS
  <1>5. /\ t.ledger # Absent /\ t.checkpoint # Absent /\ t.batch # Absent
        /\ l # Absent
    BY <1>1, <1>3, <1>4, AbsentAssumption
  <1>6. StudyTypes(t.ledger, t.checkpoint, new, h, acks)
    BY <1>3, <1>4 DEF GoodStudy, StudyTypes
  <1>7. bs[t.batch.id] = Absent
    BY <1>1, <1>2, <1>3, <1>5 DEF GoodStudy, Consistent, StoredBatches, BatchIds
  <1>8. /\ new[t.batch.id] = t.batch
        /\ \A b \in BatchIds : bs[b] # Absent => new[b] = bs[b]
        /\ \A b \in BatchIds : b # t.batch.id => new[b] = bs[b]
    BY <1>3, <1>4, <1>7 DEF GoodStudy, StudyTypes
  <1>9. StoredBatches(t.ledger, t.checkpoint, new)
    <2> SUFFICES ASSUME NEW b \in BatchIds, new[b] # Absent
                 PROVE  /\ new[b].id = b
                        /\ b =< t.checkpoint.revision
                        /\ new[b].candidates \subseteq t.ledger.variants
                        /\ new[b].status = "completed" =>
                             Range(new[b].evaluations) \subseteq t.ledger.evaluations
      BY DEF StoredBatches
    <2>1. CASE b = t.batch.id
      BY <1>1, <1>2, <1>4, <1>8, <2>1
    <2>2. CASE b # t.batch.id
      <3>1. bs[b] = new[b] /\ bs[b] # Absent
        BY <1>8, <2>2
      <3>2. b =< c.revision /\ b \in Nat
        BY <1>5, <3>1 DEF GoodStudy, Consistent, StoredBatches, BatchIds
      <3>3. b =< t.checkpoint.revision
        BY <1>1, <1>2, <1>4, <3>2
      <3>4. QED
        BY <1>2, <1>4, <1>5, <3>1, <3>3 DEF GoodStudy, Consistent, StoredBatches
    <2>3. QED
      BY <2>1, <2>2
  <1>10. ActiveBatch(t.checkpoint, new)
    BY <1>1, <1>2, <1>3, <1>4, <1>5, <1>8 DEF ActiveBatch
  <1>11. DisjointBatches(new)
    <2> SUFFICES ASSUME NEW x \in BatchIds, NEW y \in BatchIds,
                        new[x] # Absent, new[y] # Absent, x # y
                 PROVE  Ids(new[x].candidates) \cap Ids(new[y].candidates) = {}
      BY DEF DisjointBatches
    <2>1. DisjointBatches(bs)
      BY <1>5 DEF GoodStudy, Consistent
    <2>2. Ids(asked.pending) \cap Ids(l.variants) = {}
      BY DEF CanBegin
    <2>3. ASSUME NEW z \in BatchIds, z # t.batch.id, new[z] # Absent
          PROVE  Ids(new[z].candidates) \cap Ids(asked.pending) = {}
      <3>1. new[z].candidates \subseteq l.variants
        BY <1>5, <1>8, <2>3 DEF GoodStudy, Consistent, StoredBatches
      <3>2. Ids(new[z].candidates) \subseteq Ids(l.variants)
        BY <3>1 DEF Ids
      <3>3. QED
        BY <2>2, <3>2
    <2>4. new[t.batch.id].candidates = asked.pending
      BY <1>2, <1>8
    <2>5. CASE x = t.batch.id \/ y = t.batch.id
      BY <2>3, <2>4, <2>5
    <2>6. CASE x # t.batch.id /\ y # t.batch.id
      BY <1>8, <2>1, <2>6 DEF DisjointBatches
    <2>7. QED
      BY <2>5, <2>6
  <1>12. /\ \A envelope \in h : envelope.id \in BatchIds /\ Unevaluated(envelope)
         /\ ValidLedger(t.ledger) /\ IsFiniteSet(t.ledger.evaluations)
    BY <1>2, <1>4, <1>5 DEF GoodStudy, Consistent, ValidTransaction
  <1>13. Consistent(t.ledger, t.checkpoint, new, h, acks)
    BY <1>5, <1>9, <1>10, <1>11, <1>12 DEF Consistent
  <1>14. HandedOutKept(t.ledger, new, h)
    BY <1>2, <1>4, <1>8 DEF GoodStudy, Consistent, HandedOutKept
  <1>15. AcknowledgedKept(t.ledger, new, acks)
    BY <1>2, <1>4, <1>8 DEF GoodStudy, AcknowledgedKept, StudyTypes
  <1>16. OptimizerMatches(t.ledger, t.checkpoint)
    <2>1. /\ asked.told = c.optimizer.told
          /\ asked.evaluationCount = c.optimizer.evaluationCount
      BY <1>1, AskType
    <2>2. Ids(asked.pending) \cap Ids(l.variants) = {}
          /\ c.optimizer.pending = {}
      BY DEF CanBegin
    <2>3. Ids(l.evaluations) \subseteq Ids(l.variants)
      BY <1>5 DEF GoodStudy, Consistent, ValidLedger
    <2>4. \A v \in asked.pending : v.id \notin Ids(l.evaluations)
      BY <2>2, <2>3 DEF Ids
    <2>5. \A v \in l.variants : v.id \in Ids(l.evaluations)
      BY <1>5, <2>2 DEF GoodStudy, OptimizerMatches
    <2>6. asked.pending = {v \in l.variants \cup asked.pending :
                             v.id \notin Ids(l.evaluations)}
      BY <2>4, <2>5
    <2>7. QED
      BY <1>2, <1>4, <1>5, <2>1, <2>6 DEF GoodStudy, OptimizerMatches
  <1>17. QED
    BY <1>6, <1>13, <1>14, <1>15, <1>16 DEF GoodStudy

\* Commit installs rows for the candidates of the active batch.
LEMMA CommittedStudy ==
  ASSUME NEW l, NEW c, NEW bs, NEW h, NEW acks, GoodStudy(l, c, bs, h, acks),
         l # Absent, NEW b \in BatchIds, NEW rows \in Submissions,
         bs[b] # Absent, bs[b].status = "pending", Accepts(l, c, bs[b], rows),
         NEW t, t = CommitTransaction(l, c, bs[b], rows), ValidTransaction(t),
         NEW new, new = [bs EXCEPT ![t.batch.id] = t.batch]
  PROVE  GoodStudy(t.ledger, t.checkpoint, new, h, acks)
  <1> DEFINE e == bs[b]
  <1>1. /\ l \in Ledger /\ c \in Checkpoint /\ e \in Envelope
        /\ rows \in Seq(Row) /\ l # Absent
        /\ c.revision \in Nat
        /\ c.optimizer \in Optimizer
    BY SubmissionAssumption DEF GoodStudy, StudyTypes, Consistent, Checkpoint
  <1>2. /\ t \in Transaction
        /\ t.ledger.variants = l.variants
        /\ t.ledger.evaluations = l.evaluations \cup Range(rows)
        /\ t.checkpoint.revision = c.revision + 1
        /\ t.checkpoint.active = 0
        /\ t.checkpoint.optimizer = Tell(c.optimizer, rows)
        /\ t.batch.id = e.id
        /\ t.batch.status = "completed"
        /\ t.batch.created = e.created
        /\ t.batch.candidates = e.candidates
        /\ t.batch.evaluations = rows
    BY <1>1, CommitType
  <1>3. /\ e.id = b /\ e.status = "pending" /\ b =< c.revision
        /\ e.candidates \subseteq l.variants /\ e # Absent
    BY <1>1 DEF GoodStudy, Consistent, StoredBatches
  <1>4. /\ new = [bs EXCEPT ![b] = t.batch]
        /\ ValidTransaction(t)
    BY <1>2, <1>3
  <1>5. t.ledger \in Ledger /\ t.checkpoint \in Checkpoint /\ t.batch \in Envelope
    BY <1>2 DEF Transaction
  <1>6. t.ledger # Absent /\ t.checkpoint # Absent /\ t.batch # Absent
    BY <1>4, <1>5, AbsentAssumption
  <1>7. StudyTypes(t.ledger, t.checkpoint, new, h, acks)
    BY <1>4, <1>5 DEF GoodStudy, StudyTypes
  <1>8. /\ new[b] = t.batch
        /\ \A x \in BatchIds : x # b => new[x] = bs[x]
    BY <1>4 DEF GoodStudy, StudyTypes
  <1>9. Range(rows) \cap l.evaluations = {}
    BY DEF Accepts, Ids
  <1>10. /\ IsFiniteSet(Range(rows)) /\ Cardinality(Range(rows)) = Len(rows)
    BY <1>1, DistinctRows DEF Accepts
  <1>11. IsFiniteSet(l.evaluations)
    BY <1>1 DEF GoodStudy, Consistent
  <1>12. /\ IsFiniteSet(t.ledger.evaluations)
         /\ Cardinality(t.ledger.evaluations) = Cardinality(l.evaluations) + Len(rows)
    <2>1. Cardinality(l.evaluations) \in Nat /\ Len(rows) \in Nat
      BY <1>1, <1>11, FS_CardinalityType
    <2>2. Cardinality(l.evaluations \cap Range(rows)) = 0
      BY <1>9, FS_EmptySet
    <2>3. /\ IsFiniteSet(l.evaluations \cup Range(rows))
          /\ Cardinality(l.evaluations \cup Range(rows))
               = Cardinality(l.evaluations) + Len(rows) - 0
      BY <1>10, <1>11, <2>2, FS_Union
    <2>4. t.ledger.evaluations = l.evaluations \cup Range(rows)
      BY <1>2, <1>4
    <2>5. Cardinality(l.evaluations) + Len(rows) - 0
            = Cardinality(l.evaluations) + Len(rows)
      BY <2>1
    <2>6. QED
      BY <2>3, <2>4, <2>5
  <1>13. StoredBatches(t.ledger, t.checkpoint, new)
    <2> SUFFICES ASSUME NEW x \in BatchIds, new[x] # Absent
                 PROVE  /\ new[x].id = x
                        /\ x =< t.checkpoint.revision
                        /\ new[x].candidates \subseteq t.ledger.variants
                        /\ new[x].status = "completed" =>
                             Range(new[x].evaluations) \subseteq t.ledger.evaluations
      BY DEF StoredBatches
    <2>1. x =< c.revision /\ x \in Nat
      BY <1>1, <1>3, <1>8 DEF GoodStudy, Consistent, StoredBatches, BatchIds
    <2>2. x =< t.checkpoint.revision
      BY <1>1, <1>2, <1>4, <2>1
    <2>3. CASE x = b
      BY <1>2, <1>3, <1>4, <1>8, <2>2, <2>3
    <2>4. CASE x # b
      BY <1>1, <1>2, <1>4, <1>8, <2>2, <2>4 DEF GoodStudy, Consistent, StoredBatches
    <2>5. QED
      BY <2>3, <2>4
  <1>14. ActiveBatch(t.checkpoint, new)
    BY <1>1, <1>2, <1>4, TellType DEF ActiveBatch
  <1>15. DisjointBatches(new)
    <2>1. /\ DisjointBatches(bs)
          /\ \A x \in BatchIds : new[x] # Absent =>
               bs[x] # Absent /\ new[x].candidates = bs[x].candidates
      BY <1>1, <1>2, <1>3, <1>8 DEF GoodStudy, Consistent
    <2>2. QED
      BY <2>1 DEF DisjointBatches
  <1>16. /\ \A envelope \in h : envelope.id \in BatchIds /\ Unevaluated(envelope)
         /\ ValidLedger(t.ledger)
    BY <1>4 DEF GoodStudy, Consistent, ValidTransaction
  <1>17. Consistent(t.ledger, t.checkpoint, new, h, acks)
    BY <1>6, <1>12, <1>13, <1>14, <1>15, <1>16 DEF Consistent
  <1>18. HandedOutKept(t.ledger, new, h)
    BY <1>2, <1>3, <1>4, <1>6, <1>8 DEF GoodStudy, Consistent, HandedOutKept
  <1>19. AcknowledgedKept(t.ledger, new, acks)
    BY <1>2, <1>3, <1>4, <1>8 DEF GoodStudy, StudyTypes, AcknowledgedKept
  <1>20. OptimizerMatches(t.ledger, t.checkpoint)
    <2>1. /\ t.checkpoint.optimizer.told = c.optimizer.told \cup Range(rows)
          /\ t.checkpoint.optimizer.pending = {}
          /\ t.checkpoint.optimizer.evaluationCount
               = c.optimizer.evaluationCount + Len(rows)
      BY <1>1, <1>2, <1>4, TellType
    <2>2. e.candidates = c.optimizer.pending
      BY <1>1, <1>3 DEF Accepts, GoodStudy, Consistent, ActiveBatch, BatchIds
    <2>3. \A v \in l.variants :
            v.id \in Ids(l.evaluations) \/ v \in e.candidates
      BY <1>1, <2>2 DEF GoodStudy, OptimizerMatches
    <2>4. \A v \in e.candidates : v.id \in Ids(Range(rows))
      BY DEF Accepts, Ids
    <2>5. \A v \in t.ledger.variants : v.id \in Ids(t.ledger.evaluations)
      BY <1>2, <1>4, <2>3, <2>4 DEF Ids
    <2>6. {v \in t.ledger.variants : v.id \notin Ids(t.ledger.evaluations)} = {}
      BY <2>5
    <2>7. QED
      BY <1>1, <1>2, <1>4, <1>12, <2>1, <2>6 DEF GoodStudy, OptimizerMatches
  <1>21. QED
    BY <1>7, <1>17, <1>18, <1>19, <1>20 DEF GoodStudy

\* The active batch goes to an evaluator.
LEMMA HandedOutStudy ==
  ASSUME NEW l, NEW c, NEW bs, NEW h, NEW acks, GoodStudy(l, c, bs, h, acks),
         l # Absent, NEW b \in BatchIds, c.active = b, bs[b] # Absent
  PROVE  GoodStudy(l, c, bs, h \cup {bs[b]}, acks)
  <1>1. /\ bs[b] \in Envelope /\ bs[b].id = b
        /\ bs[b].candidates \subseteq l.variants
    BY DEF GoodStudy, StudyTypes, Consistent, StoredBatches
  <1>2. StudyTypes(l, c, bs, h \cup {bs[b]}, acks)
    BY <1>1 DEF GoodStudy, StudyTypes
  <1>3. Unevaluated(bs[b])
    BY DEF GoodStudy, Consistent, ActiveBatch, BatchIds
  <1>4. Consistent(l, c, bs, h \cup {bs[b]}, acks)
    BY <1>1, <1>3 DEF GoodStudy, Consistent
  <1>5. HandedOutKept(l, bs, h \cup {bs[b]})
    BY <1>1 DEF GoodStudy, HandedOutKept
  <1>6. QED
    BY <1>2, <1>4, <1>5 DEF GoodStudy

\* A commit whose rows are stored is acknowledged.
LEMMA AcknowledgedStudy ==
  ASSUME NEW l, NEW c, NEW bs, NEW h, NEW acks, GoodStudy(l, c, bs, h, acks),
         NEW b \in BatchIds, NEW rows \in Submissions,
         bs[b] # Absent, bs[b].status = "completed", bs[b].evaluations = rows
  PROVE  GoodStudy(l, c, bs, h, acks \cup {[batch |-> b, rows |-> rows]})
  <1> DEFINE more == acks \cup {[batch |-> b, rows |-> rows]}
  <1>1. l # Absent /\ Range(rows) \subseteq l.evaluations
    BY DEF GoodStudy, Consistent, StoredBatches
  <1>2. StudyTypes(l, c, bs, h, more)
    BY SubmissionAssumption DEF GoodStudy, StudyTypes
  <1>3. Consistent(l, c, bs, h, more)
    BY <1>1 DEF GoodStudy, Consistent
  <1>4. AcknowledgedKept(l, bs, more)
    BY <1>1 DEF GoodStudy, AcknowledgedKept
  <1>5. QED
    BY <1>2, <1>3, <1>4 DEF GoodStudy

\* All that an evaluator ever saw of a batch is still stored, and a new batch has only
\* ids that the ledger lacks.
LEMMA GoodStudyResumes ==
  ASSUME NEW l, NEW c, NEW bs, NEW h, NEW acks, GoodStudy(l, c, bs, h, acks)
  PROVE  ResumesExactly(h)
  <1> SUFFICES ASSUME NEW e \in h, NEW f \in h
               PROVE  /\ e.id = f.id => e = f
                      /\ Ids(e.candidates) \cap Ids(f.candidates) # {} => e = f
    BY DEF ResumesExactly
  <1>1. l # Absent
    BY DEF GoodStudy, Consistent
  <1>2. /\ e \in Envelope /\ e.id \in BatchIds /\ Unevaluated(e)
        /\ f \in Envelope /\ f.id \in BatchIds /\ Unevaluated(f)
    BY DEF GoodStudy, StudyTypes, Consistent
  <1>3. /\ bs[e.id] # Absent /\ bs[f.id] # Absent
        /\ bs[e.id].candidates = e.candidates /\ bs[e.id].created = e.created
        /\ bs[f.id].candidates = f.candidates /\ bs[f.id].created = f.created
    BY DEF GoodStudy, HandedOutKept
  <1>4. e.id = f.id => e = f
    BY <1>2, <1>3 DEF Envelope, Unevaluated
  <1>5. e.id # f.id => Ids(e.candidates) \cap Ids(f.candidates) = {}
    BY <1>1, <1>2, <1>3 DEF GoodStudy, Consistent, DisjointBatches
  <1>6. QED
    BY <1>4, <1>5

-----------------------------------------------------------------------------
(* The contract alone: a study of any implementation.                      *)

VARIABLES anyLedger, anyCheckpoint, anyBatches, anyHanded, anyAcked
AnyStudy ==
  INSTANCE StudyContract
    WITH ledger <- anyLedger, checkpoint <- anyCheckpoint, batches <- anyBatches,
         handed <- anyHanded, acked <- anyAcked

AnyGoodStudy == GoodStudy(anyLedger, anyCheckpoint, anyBatches, anyHanded, anyAcked)

\* The contract computes its transactions with the same functions.
LEMMA AnyFunctions ==
  /\ AnyStudy!BatchIds = BatchIds
  /\ AnyStudy!EmptyLedger = EmptyLedger /\ AnyStudy!FirstCheckpoint = FirstCheckpoint
  /\ \A t : AnyStudy!ValidTransaction(t) <=> ValidTransaction(t)
  /\ \A l, c : AnyStudy!CanBegin(l, c) <=> CanBegin(l, c)
  /\ \A l, c, created :
       AnyStudy!BeginTransaction(l, c, created) = BeginTransaction(l, c, created)
  /\ \A l, c, e, rows :
       /\ AnyStudy!Accepts(l, c, e, rows) <=> Accepts(l, c, e, rows)
       /\ AnyStudy!CommitTransaction(l, c, e, rows) = CommitTransaction(l, c, e, rows)
  <1>1. AnyStudy!BatchIds = BatchIds /\ AnyStudy!EmptyLedger = EmptyLedger
        /\ AnyStudy!FirstCheckpoint = FirstCheckpoint
    BY DEF AnyStudy!BatchIds, BatchIds, AnyStudy!EmptyLedger, EmptyLedger,
           AnyStudy!FirstCheckpoint, FirstCheckpoint, AnyStudy!NewOptimizer,
           NewOptimizer
  <1>2. \A t : AnyStudy!ValidTransaction(t) <=> ValidTransaction(t)
    <2>1. \A rows : /\ AnyStudy!Ids(rows) = Ids(rows)
                    /\ AnyStudy!NoDuplicateIds(rows) <=> NoDuplicateIds(rows)
      BY DEF AnyStudy!Ids, Ids, AnyStudy!NoDuplicateIds, NoDuplicateIds
    <2>2. \A l : AnyStudy!ValidLedger(l) <=> ValidLedger(l)
      BY <2>1 DEF AnyStudy!ValidLedger, ValidLedger
    <2>3. \A o : AnyStudy!ValidOptimizer(o) <=> ValidOptimizer(o)
      BY <2>1 DEF AnyStudy!ValidOptimizer, ValidOptimizer
    <2>4. \A l, c : AnyStudy!ValidCheckpoint(c, l) <=> ValidCheckpoint(c, l)
      BY <2>3 DEF AnyStudy!ValidCheckpoint, ValidCheckpoint
    <2>5. \A S : AnyStudy!Cardinality(S) = Cardinality(S)
      BY DEF AnyStudy!Cardinality, Cardinality, AnyStudy!IsFiniteSet, IsFiniteSet
    <2>6. QED
      BY <2>2, <2>4, <2>5 DEF AnyStudy!ValidTransaction, ValidTransaction
  <1>3. \A l, c : AnyStudy!CanBegin(l, c) <=> CanBegin(l, c)
    BY DEF AnyStudy!CanBegin, CanBegin, AnyStudy!Ask, Ask, AnyStudy!RequestedSize,
           RequestedSize, AnyStudy!Ids, Ids
  <1>4. \A l, c, created :
          AnyStudy!BeginTransaction(l, c, created) = BeginTransaction(l, c, created)
    BY DEF AnyStudy!BeginTransaction, BeginTransaction, AnyStudy!Ask, Ask,
           AnyStudy!RequestedSize, RequestedSize
  <1>5. \A l, c, e, rows :
          /\ AnyStudy!Accepts(l, c, e, rows) <=> Accepts(l, c, e, rows)
          /\ AnyStudy!CommitTransaction(l, c, e, rows) = CommitTransaction(l, c, e, rows)
    BY DEF AnyStudy!Accepts, Accepts, AnyStudy!CommitTransaction, CommitTransaction,
           AnyStudy!Tell, Tell, AnyStudy!Ids, Ids, AnyStudy!Range, Range
  <1>6. QED
    BY <1>1, <1>2, <1>3, <1>4, <1>5

\* The contract states its promises with the same functions.
LEMMA AnyStatements ==
  /\ \A S : AnyStudy!Ids(S) = Ids(S) /\ AnyStudy!Cardinality(S) = Cardinality(S)
  /\ \A f : AnyStudy!Range(f) = Range(f)
  BY DEF AnyStudy!Ids, Ids, AnyStudy!Range, Range, AnyStudy!Cardinality, Cardinality,
         AnyStudy!IsFiniteSet, IsFiniteSet

LEMMA AnyNextGood == AnyGoodStudy /\ [AnyStudy!Next]_AnyStudy!vars => AnyGoodStudy'
  <1> SUFFICES ASSUME AnyGoodStudy, [AnyStudy!Next]_AnyStudy!vars PROVE AnyGoodStudy'
    OBVIOUS
  <1>1. CASE UNCHANGED AnyStudy!vars
    BY <1>1 DEF AnyStudy!vars, AnyGoodStudy
  <1>2. CASE AnyStudy!Create
    BY <1>2, NewStudy, AnyFunctions DEF AnyStudy!Create, AnyGoodStudy
  <1>3. ASSUME NEW created \in Times, AnyStudy!Begin(created) PROVE AnyGoodStudy'
    BY <1>3, BegunStudy, AnyFunctions DEF AnyStudy!Begin, AnyStudy!Install, AnyGoodStudy
  <1>4. ASSUME NEW b \in BatchIds, NEW rows \in Submissions, AnyStudy!Commit(b, rows)
        PROVE  AnyGoodStudy'
    BY <1>4, CommittedStudy, AnyFunctions DEF AnyStudy!Commit, AnyStudy!Install, AnyGoodStudy
  <1>5. ASSUME NEW b \in BatchIds, AnyStudy!HandOut(b) PROVE AnyGoodStudy'
    BY <1>5, HandedOutStudy DEF AnyStudy!HandOut, AnyGoodStudy
  <1>6. ASSUME NEW b \in BatchIds, NEW rows \in Submissions, AnyStudy!Acknowledge(b, rows)
        PROVE  AnyGoodStudy'
    BY <1>6, AcknowledgedStudy DEF AnyStudy!Acknowledge, AnyGoodStudy
  <1>7. QED
    BY <1>1, <1>2, <1>3, <1>4, <1>5, <1>6, AnyFunctions DEF AnyStudy!Next

\* The contract's invariant holds for every batch size, payload set and bound.
THEOREM ContractInvariant == AnyStudy!Spec => []AnyGoodStudy
  <1>1. AnyStudy!Init => AnyGoodStudy
    BY NewStudy, AnyFunctions DEF AnyStudy!Init, AnyGoodStudy
  <1>2. QED
    BY <1>1, AnyNextGood, PTL DEF AnyStudy!Spec

\* No acknowledged commit is ever altered or dropped by a later operation.
THEOREM ContractKeepsAcknowledged == AnyStudy!Spec => []AnyStudy!AcknowledgedIsDurable
  <1>1. AnyGoodStudy => AnyStudy!AcknowledgedIsDurable
    BY AnyStatements
    DEF AnyGoodStudy, GoodStudy, AcknowledgedKept, AnyStudy!AcknowledgedIsDurable
  <1>2. QED
    BY ContractInvariant, <1>1, PTL

\* No batch that went to an evaluator is ever replaced.
THEOREM ContractKeepsHandedOut == AnyStudy!Spec => []AnyStudy!HandedOutIsDurable
  <1>1. AnyGoodStudy => AnyStudy!HandedOutIsDurable
    BY DEF AnyGoodStudy, GoodStudy, HandedOutKept, AnyStudy!HandedOutIsDurable
  <1>2. QED
    BY ContractInvariant, <1>1, PTL

\* What the optimizer was told, counts and waits for is what the ledger says.
THEOREM ContractMatchesLedger == AnyStudy!Spec => []AnyStudy!OptimizerMatchesLedger
  <1>1. AnyGoodStudy => AnyStudy!OptimizerMatchesLedger
    BY AnyStatements
    DEF AnyGoodStudy, GoodStudy, OptimizerMatches, AnyStudy!OptimizerMatchesLedger
  <1>2. QED
    BY ContractInvariant, <1>1, PTL

\* A batch that is asked for again is the same envelope, and no candidate id is in two
\* of them (begin_batch, workspace.rs).
THEOREM ContractResumesExactly == AnyStudy!Spec => []AnyStudy!ResumedExactly
  <1>1. AnyGoodStudy => AnyStudy!ResumedExactly
    BY GoodStudyResumes, AnyStatements DEF AnyGoodStudy, ResumesExactly, AnyStudy!ResumedExactly
  <1>2. QED
    BY ContractInvariant, <1>1, PTL

-----------------------------------------------------------------------------
(* Types.                                                                  *)

LEMMA FileKinds ==
  /\ {ManifestFile, LedgerFile, CheckpointFile, JournalFile} \subseteq Files
  /\ Contents(ManifestFile) = {"manifest"}
  /\ Contents(LedgerFile) = Ledger
  /\ Contents(CheckpointFile) = StoredCheckpoint
  /\ Contents(JournalFile) = Transaction
  /\ \A b \in BatchIds : BatchFile(b) \in Files /\ Contents(BatchFile(b)) = Envelope
  BY DEF Contents, Files, ManifestFile, LedgerFile, CheckpointFile, JournalFile,
         BatchFile

\* A file that can be read holds a value of its kind.
LEMMA ReadType ==
  ASSUME TypeOK, NEW f \in Files, Read(f) # Absent
  PROVE  Read(f) \in Contents(f)
  BY DEF TypeOK, Read

\* The active batch of a valid transaction is its own batch, or none.
LEMMA GoodTransactionType ==
  ASSUME NEW t, GoodTransaction(t)
  PROVE  /\ t \in Transaction /\ t.ledger \in Ledger
         /\ t.checkpoint \in StoredCheckpoint
         /\ t.batch \in Envelope /\ t.batch.id \in BatchIds
  BY DEF GoodTransaction, ValidTransaction, Transaction, StoredCheckpoint

\* The values create writes.
LEMMA FirstValues ==
  EmptyLedger \in Ledger /\ FirstCheckpoint \in StoredCheckpoint
  BY DEF EmptyLedger, FirstCheckpoint, NewOptimizer, Ledger, Checkpoint, Optimizer,
         StoredCheckpoint

\* A call that writes has a file to write and a value of that file's kind.
LEMMA TargetType ==
  ASSUME TypeInv, Writing
  PROVE  Target \in Files /\ Value \in Contents(Target) /\ Value # Absent
  <1>1. op \in {"create", "open", "begin", "commit"}
    BY DEF TypeInv, TypeOK, CallShape, Writing
  <1>2. op # "create" => GoodTransaction(tx)
    BY <1>1 DEF TypeInv, CallShape, Writing
  <1>3. op = "create" => tx.ledger = EmptyLedger /\ tx.checkpoint = FirstCheckpoint
    BY DEF TypeInv, CallShape
  <1>4. tx.ledger \in Ledger /\ tx.checkpoint \in StoredCheckpoint
    BY <1>2, <1>3, FirstValues, GoodTransactionType
  <1>5. stage \in {"batch", "journal"} => op # "create"
    BY DEF TypeInv, CallShape
  <1>6. stage \in {"batch", "journal"} =>
          tx \in Transaction /\ tx.batch \in Envelope /\ tx.batch.id \in BatchIds
    BY <1>2, <1>5, GoodTransactionType
  <1>7. StoredCheckpoint \subseteq Checkpoint
    BY DEF StoredCheckpoint
  <1>8. QED
    BY <1>4, <1>6, <1>7, FileKinds, AbsentAssumption DEF Writing, Target, Value

LEMMA InitTypeInv == Init => TypeInv
  <1> SUFFICES ASSUME Init PROVE TypeInv
    OBVIOUS
  <1>1. TypeOK
    BY WorkspaceAssumption DEF Init, TypeOK
  <1>2. CallShape
    BY FileKinds DEF Init, CallShape, Writing
  <1>3. QED
    BY <1>1, <1>2 DEF TypeInv

\* The four steps of atomic_json keep every slot well typed.
LEMMA FileStepType ==
  ASSUME TypeInv, FileStep
  PROVE  TypeInv'
  <1> USE DEF TypeInv, FileStep
  <1>1. CASE WriteTemporary
    <2>1. Target \in Files /\ JournalFile \in Files
      BY <1>1, TargetType, FileKinds DEF WriteTemporary
    <2>2. TypeOK'
      BY <1>1, <2>1 DEF WriteTemporary, TypeOK, Enter, Writing
    <2>3. CallShape'
      BY <1>1, <2>1 DEF WriteTemporary, TypeOK, CallShape, Enter, Writing
    <2>4. QED
      BY <2>2, <2>3
  <1>2. CASE Stash
    <2>1. Target \in Files /\ JournalFile \in Files
      BY <1>2, TargetType, FileKinds DEF Stash
    <2>2. TypeOK'
      BY <1>2, <2>1 DEF Stash, TypeOK, Enter, Writing
    <2>3. CallShape'
      BY <1>2, <2>1 DEF Stash, TypeOK, CallShape, Enter, Writing
    <2>4. QED
      BY <2>2, <2>3
  <1>3. CASE Publish
    <2>1. /\ Target \in Files /\ Value \in Contents(Target) /\ JournalFile \in Files
      BY <1>3, TargetType, FileKinds DEF Publish
    <2>2. TypeOK'
      BY <1>3, <2>1 DEF Publish, TypeOK, Enter, Writing
    <2>3. Target = JournalFile => GoodTransaction(Value)
      <3>1. Target = JournalFile => stage = "journal"
        BY <1>3 DEF Publish, Writing, Target, ManifestFile, LedgerFile,
                    CheckpointFile, JournalFile, BatchFile
      <3>2. stage = "journal" => Value = tx /\ GoodTransaction(tx)
        BY DEF Value, CallShape, TypeOK
      <3>3. QED
        BY <3>1, <3>2
    <2>4. CallShape'
      BY <1>3, <2>1, <2>3 DEF Publish, TypeOK, CallShape, Enter, Writing
    <2>5. QED
      BY <2>2, <2>4
  <1>4. CASE Clean
    <2>1. Target \in Files /\ JournalFile \in Files
      BY <1>4, TargetType, FileKinds DEF Clean
    <2>2. /\ NextStage \in {"ledger", "checkpoint", "batch", "return", "unlink"}
          /\ NextStage = "return" => op = "create"
          /\ NextStage \in {"batch", "unlink"} => op # "create"
      BY <1>4 DEF Clean, NextStage, Writing, CallShape
    <2>3. TypeOK'
      BY <1>4, <2>1, <2>2 DEF Clean, TypeOK, Enter
    <2>4. CallShape'
      BY <1>4, <2>1, <2>2 DEF Clean, TypeOK, CallShape, Enter, Writing
    <2>5. QED
      BY <2>3, <2>4
  <1>5. CASE Unlink
    <2>1. JournalFile \in Files
      BY FileKinds
    <2>2. TypeOK'
      BY <1>5, <2>1 DEF Unlink, TypeOK, Enter
    <2>3. CallShape'
      BY <1>5, <2>1 DEF Unlink, TypeOK, CallShape, Enter, Writing
    <2>4. QED
      BY <2>2, <2>3
  <1>6. CASE UnlinkBackup
    <2>1. JournalFile \in Files
      BY FileKinds
    <2>2. TypeOK'
      BY <1>6, <2>1 DEF UnlinkBackup, TypeOK, Enter
    <2>3. CallShape'
      BY <1>6, <2>1 DEF UnlinkBackup, TypeOK, CallShape, Enter, Writing
    <2>4. QED
      BY <2>2, <2>3
  <1>7. QED
    BY <1>1, <1>2, <1>3, <1>4, <1>5, <1>6

\* The transactions a call may start from an open object.
LEMMA StartedTransaction ==
  ASSUME TypeInv, op = "idle", ws # Absent
  PROVE  /\ \A created \in Times :
              /\ ws.checkpoint.revision < MaxRevision
              /\ ValidTransaction(BeginTransaction(ws.ledger, ws.checkpoint, created))
              => /\ GoodTransaction(BeginTransaction(ws.ledger, ws.checkpoint, created))
                 /\ BeginTransaction(ws.ledger, ws.checkpoint, created).batch.status
                      = "pending"
         /\ \A b \in BatchIds, rows \in Submissions :
              LET t == CommitTransaction(ws.ledger, ws.checkpoint, Read(BatchFile(b)), rows)
              IN BatchReadable(b) /\ ValidTransaction(t)
                   => /\ GoodTransaction(t)
                      /\ t.batch.status = "completed"
                      /\ t.batch.evaluations = rows
  <1>1. ws.ledger \in Ledger /\ ws.checkpoint \in Checkpoint
        /\ ws.checkpoint.revision \in Nat
    BY DEF TypeInv, TypeOK, StoredCheckpoint, Checkpoint
  <1>2. ASSUME NEW created \in Times, ws.checkpoint.revision < MaxRevision,
               ValidTransaction(BeginTransaction(ws.ledger, ws.checkpoint, created))
        PROVE  /\ GoodTransaction(BeginTransaction(ws.ledger, ws.checkpoint, created))
               /\ BeginTransaction(ws.ledger, ws.checkpoint, created).batch.status
                    = "pending"
    <2>1. ws.checkpoint.revision + 1 \in BatchIds
      BY <1>1, <1>2, RevisionAssumption DEF BatchIds
    <2>2. QED
      BY <1>1, <1>2, <2>1, BeginType DEF GoodTransaction
  <1>3. ASSUME NEW b \in BatchIds, NEW rows \in Submissions, BatchReadable(b),
               ValidTransaction(CommitTransaction(ws.ledger, ws.checkpoint,
                                                  Read(BatchFile(b)), rows))
        PROVE  LET t == CommitTransaction(ws.ledger, ws.checkpoint,
                                          Read(BatchFile(b)), rows)
               IN /\ GoodTransaction(t)
                  /\ t.batch.status = "completed"
                  /\ t.batch.evaluations = rows
    <2>1. Read(BatchFile(b)) \in Envelope /\ Read(BatchFile(b)).id = b
      BY <1>3, ReadType, FileKinds DEF TypeInv, BatchReadable
    <2>2. rows \in Seq(Row)
      BY SubmissionAssumption
    <2>3. QED
      BY <1>1, <1>3, <2>1, <2>2, CommitType DEF GoodTransaction
  <1>4. QED
    BY <1>2, <1>3

\* Every client call keeps every slot, the object and the answers well typed.
LEMMA ClientStepType ==
  ASSUME TypeInv,
         \/ Create \/ Open \/ Load \/ Resume \/ Return \/ Close
         \/ \E created \in Times : Begin(created)
         \/ \E b \in BatchIds, rows \in Submissions : Commit(b, rows) \/ Retry(b, rows)
  PROVE  TypeInv'
  <1> USE DEF TypeInv
  <1>0. JournalFile \in Files /\ CheckpointFile \in Files /\ LedgerFile \in Files
    BY FileKinds
  <1>1. CASE Create
    BY <1>0, <1>1 DEF Create, TypeOK, CallShape, Enter, Writing
  <1>2. CASE Open
    <2>1. Read(JournalFile) # Absent => GoodTransaction(Read(JournalFile))
      BY <1>0, <1>2 DEF CallShape, Read
    <2>2. TypeOK'
      BY <1>2 DEF Open, TypeOK, Enter
    <2>3. CallShape'
      BY <1>2, <2>1 DEF Open, TypeOK, CallShape, Enter, Writing
    <2>4. QED
      BY <2>2, <2>3
  <1>3. CASE Load
    <2>1. Loadable => /\ Read(LedgerFile) \in Ledger
                      /\ Read(CheckpointFile) \in StoredCheckpoint
      BY <1>0, ReadType, FileKinds DEF Loadable
    <2>2. TypeOK'
      BY <1>3, <2>1 DEF Load, Leave, TypeOK, Enter
    <2>3. CallShape'
      BY <1>3 DEF Load, Leave, TypeOK, CallShape, Enter, Writing
    <2>4. QED
      BY <2>2, <2>3
  <1>4. CASE Resume
    <2>1. ws.checkpoint.active \in BatchIds
      BY <1>4 DEF Resume, TypeOK, StoredCheckpoint
    <2>2. Read(BatchFile(ws.checkpoint.active)) \in Envelope
      BY <1>4, <2>1, ReadType, FileKinds DEF Resume, BatchReadable
    <2>3. TypeOK'
      BY <1>4, <2>2 DEF Resume, TypeOK
    <2>4. CallShape'
      BY <1>4 DEF Resume, CallShape, Writing
    <2>5. QED
      BY <2>3, <2>4
  <1>5. CASE Return
    <2>1. /\ op \in {"create", "begin", "commit"}
          /\ op # "create" => GoodTransaction(tx)
          /\ op = "create" => tx.ledger = EmptyLedger /\ tx.checkpoint = FirstCheckpoint
      BY <1>5 DEF Return, TypeOK, CallShape
    <2>2. tx.ledger \in Ledger /\ tx.checkpoint \in StoredCheckpoint
      BY <2>1, GoodTransactionType, FirstValues
    <2>3. op # "create" => tx.batch \in Envelope /\ tx.batch.id \in BatchIds
      BY <2>1, GoodTransactionType
    <2>4. op # "create" =>
            Report(tx.batch.id, tx.batch.evaluations, tx.checkpoint)
              \in [batch : Nat, rows : Seq(Row), revision : Nat]
      BY <2>2, <2>3 DEF Report, Envelope, StoredCheckpoint, Checkpoint
    <2>5. TypeOK'
      BY <1>5, <2>2, <2>3, <2>4 DEF Return, Leave, Enter, TypeOK
    <2>6. CallShape'
      BY <1>5 DEF Return, Leave, Enter, CallShape, Writing
    <2>7. QED
      BY <2>5, <2>6
  <1>6. CASE Close
    BY <1>6 DEF Close, TypeOK, CallShape, Writing
  <1>7. ASSUME NEW created \in Times, Begin(created)
        PROVE  TypeInv'
    <2>1. /\ GoodTransaction(tx') /\ tx'.batch.status = "pending"
          /\ op' = "begin" /\ stage' = "journal" /\ phase' = "write"
      BY <1>7, StartedTransaction DEF Begin, Enter
    <2>2. QED
      BY <1>7, <2>1 DEF Begin, TypeOK, CallShape, Writing
  <1>8. ASSUME NEW b \in BatchIds, NEW rows \in Submissions, Commit(b, rows)
        PROVE  TypeInv'
    <2>1. /\ GoodTransaction(tx')
          /\ tx'.batch.status = "completed" /\ tx'.batch.evaluations = rows
          /\ op' = "commit" /\ stage' = "journal" /\ phase' = "write"
      BY <1>8, StartedTransaction DEF Commit, Enter
    <2>2. QED
      BY <1>8, <2>1 DEF Commit, TypeOK, CallShape, Writing
  <1>9. ASSUME NEW b \in BatchIds, NEW rows \in Submissions, Retry(b, rows)
        PROVE  TypeInv'
    <2>1. Report(b, rows, ws.checkpoint)
            \in [batch : Nat, rows : Seq(Row), revision : Nat]
      BY <1>9, RevisionAssumption, SubmissionAssumption
      DEF Retry, Report, TypeOK, StoredCheckpoint, Checkpoint, BatchIds
    <2>2. QED
      BY <1>9, <2>1 DEF Retry, TypeOK, CallShape, Writing
  <1>10. QED
    BY <1>1, <1>2, <1>3, <1>4, <1>5, <1>6, <1>7, <1>8, <1>9

\* Crashes and I/O errors leave every slot well typed.
LEMMA FaultType ==
  ASSUME TypeInv, Crash \/ IoError
  PROVE  TypeInv'
  <1> USE DEF TypeInv
  <1>0. JournalFile \in Files
    BY FileKinds
  <1>1. CASE Crash
    BY <1>0, <1>1 DEF Crash, Leave, Enter, TypeOK, CallShape, Writing
  <1>2. CASE IoError
    <2>1. op \in {"create", "open"} \/ ws # Absent
      BY <1>2 DEF IoError, TypeOK, CallShape, Writing
    <2>2. faults' \in 0 .. MaxFaults
      BY <1>2, WorkspaceAssumption DEF IoError, TypeOK
    <2>3. /\ DOMAIN main' = Files /\ DOMAIN prev' = Files
          /\ \A f \in Files : main'[f] # Absent => main'[f] \in Contents(f)
          /\ \A f \in Files : prev'[f] # Absent => prev'[f] \in Contents(f)
          /\ main'[JournalFile] # Absent => GoodTransaction(main'[JournalFile])
          /\ prev'[JournalFile] # Absent => GoodTransaction(prev'[JournalFile])
      BY <1>0, <1>2 DEF IoError, disk, TypeOK, CallShape
    <2>4. QED
      BY <1>2, <2>2, <2>3 DEF IoError, Leave, Enter, TypeOK, CallShape, Writing
  <1>3. QED
    BY <1>1, <1>2

\* Every slot, the open object and every answer are well typed, whatever
\* crashes and I/O errors happen.
THEOREM WorkspaceTypes == Spec => []TypeOK
  <1>1. TypeInv /\ UNCHANGED vars => TypeInv'
    BY DEF vars, TypeInv, TypeOK, CallShape, Writing
  <1>2. TypeInv /\ [Next]_vars => TypeInv'
    BY <1>1, FileStepType, ClientStepType, FaultType DEF Next
  <1>3. TypeInv => TypeOK
    BY DEF TypeInv
  <1>4. QED
    BY InitTypeInv, <1>2, <1>3, PTL DEF Spec

-----------------------------------------------------------------------------
(* The directory.  From here on the object is dropped after an I/O error,  *)
(* as the C ABI and the command line do.                                   *)

LEMMA FilesDiffer ==
  /\ ManifestFile # LedgerFile /\ ManifestFile # CheckpointFile
  /\ ManifestFile # JournalFile /\ LedgerFile # CheckpointFile
  /\ LedgerFile # JournalFile /\ CheckpointFile # JournalFile
  /\ \A b : /\ BatchFile(b) # ManifestFile /\ BatchFile(b) # LedgerFile
            /\ BatchFile(b) # CheckpointFile /\ BatchFile(b) # JournalFile
  /\ \A a, b : BatchFile(a) = BatchFile(b) => a = b
  BY DEF ManifestFile, LedgerFile, CheckpointFile, JournalFile, BatchFile

LEMMA TargetOfStage ==
  /\ stage = "manifest" => Target = ManifestFile /\ Value = "manifest"
  /\ stage = "ledger" => Target = LedgerFile /\ Value = tx.ledger
  /\ stage = "checkpoint" => Target = CheckpointFile /\ Value = tx.checkpoint
  /\ stage = "journal" => Target = JournalFile /\ Value = tx
  /\ stage = "batch" => Target = BatchFile(tx.batch.id) /\ Value = tx.batch
  BY DEF Target, Value

LEMMA TargetKept ==
  ASSUME stage' = stage, tx' = tx, Writing
  PROVE  Target' = Target /\ Value' = Value
  BY DEF Target, Value, Writing

\* The journal's target slot is empty while it is being written, so its file is
\* never stashed and never restored.
LEMMA JournalIsFresh ==
  ASSUME DiskInv, Journaling
  PROVE  main[JournalFile] = Absent /\ prev[JournalFile] = Absent
  BY DEF DiskInv, JournalInv, Settled

\* Of the steps of atomic_json only the rename into place changes what is read.
LEMMA ReadKept ==
  ASSUME TypeInv, DiskInv,
         WriteTemporary \/ Stash \/ Clean \/ IoError \/ Crash \/ UnlinkBackup,
         NEW f \in Files
  PROVE  Read(f)' = Read(f)
  <1> USE DEF TypeInv, TypeOK, Read
  <1>1. CASE WriteTemporary
    BY <1>1, TargetType DEF WriteTemporary
  <1>2. CASE Stash
    <2>1. main[Target] # Absent
      BY <1>2 DEF Stash, DiskInv, PhaseInv
    <2>2. QED
      BY <1>2, <2>1, TargetType DEF Stash
  <1>3. CASE Clean
    <2>1. main[Target] # Absent
      BY <1>3, TargetType DEF Clean, DiskInv, PhaseInv
    <2>2. QED
      BY <1>3, <2>1, TargetType DEF Clean
  <1>4. CASE IoError
    <2>1. CASE UNCHANGED disk
      BY <2>1 DEF disk
    <2>2. CASE /\ phase = "publish" /\ prev[Target] # Absent /\ main[Target] = Absent
               /\ main' = [main EXCEPT ![Target] = prev[Target]]
               /\ prev' = [prev EXCEPT ![Target] = Absent]
      <3>1. Writing
        BY <2>2 DEF CallShape
      <3>2. QED
        BY <2>2, <3>1, TargetType
    <2>3. QED
      BY <1>4, <2>1, <2>2 DEF IoError
  <1>5. CASE Crash
    BY <1>5 DEF Crash
  <1>6. CASE UnlinkBackup
    BY <1>6 DEF UnlinkBackup, DiskInv, JournalInv
  <1>7. QED
    BY <1>1, <1>2, <1>3, <1>4, <1>5, <1>6

\* What recovery concludes depends on the files only through Read.
LEMMA ViewKept ==
  ASSUME TypeInv, \A f \in Files : Read(f)' = Read(f)
  PROVE  /\ HasJournal' = HasJournal /\ Initialised' = Initialised
         /\ Read(LedgerFile)' = Read(LedgerFile)
         /\ Read(CheckpointFile)' = Read(CheckpointFile)
         /\ Read(JournalFile)' = Read(JournalFile)
         /\ \A b \in BatchIds : /\ Read(BatchFile(b))' = Read(BatchFile(b))
                                /\ BatchReadable(b)' = BatchReadable(b)
         /\ Loadable => Loadable'
  <1>1. /\ Read(LedgerFile)' = Read(LedgerFile)
        /\ Read(CheckpointFile)' = Read(CheckpointFile)
        /\ Read(JournalFile)' = Read(JournalFile)
        /\ \A b \in BatchIds : Read(BatchFile(b))' = Read(BatchFile(b))
    BY FileKinds
  <1>2. \A b \in BatchIds : BatchReadable(b)' = BatchReadable(b)
    BY <1>1 DEF BatchReadable
  <1>3. HasJournal' = HasJournal /\ Initialised' = Initialised
    BY <1>1 DEF HasJournal, Initialised
  <1>4. ASSUME Loadable PROVE Loadable'
    <2>1. Read(CheckpointFile).active \in BatchIds \cup {0}
      BY <1>4, ReadType, FileKinds DEF Loadable, TypeInv, StoredCheckpoint
    <2>2. QED
      BY <1>1, <1>2, <1>4, <2>1 DEF Loadable
  <1>5. QED
    BY <1>1, <1>2, <1>3, <1>4

\* The conjuncts of DiskInv that a step of atomic_json before the rename keeps.
LEMMA BeforeRenameDisk ==
  ASSUME TypeInv, DiskInv, WriteTemporary \/ Stash
  PROVE  DiskInv'
  <1> USE DEF TypeInv
  <1>1. /\ Writing /\ stage' = stage /\ op' = op /\ tx' = tx /\ ws' = ws
        /\ phase \in {"write", "stash"} /\ phase' \in {"stash", "publish"}
    BY DEF WriteTemporary, Stash, Enter
  <1>2. Target' = Target /\ Value' = Value /\ Target \in Files
    BY <1>1, TargetKept, TargetType
  <1>3. \A f \in Files : Read(f)' = Read(f)
    BY ReadKept
  <1>4. \A f \in Files : f # Target => main'[f] = main[f]
    BY <1>2 DEF WriteTemporary, Stash, TypeOK
  <1>5. Journaling' = Journaling /\ Settled' = Settled
    BY <1>1 DEF Journaling, Settled
  <1>6. PhaseInv'
    <2>1. CASE WriteTemporary
      BY <1>2, <2>1 DEF PhaseInv, WriteTemporary, Enter
    <2>2. CASE Stash
      BY <1>2, <2>2 DEF PhaseInv, Stash, Enter, TypeOK
    <2>3. QED
      BY <2>1, <2>2
  <1>7. stage = "journal" => main'[JournalFile] = Absent /\ prev'[JournalFile] = Absent
    <2> SUFFICES ASSUME stage = "journal"
                 PROVE  main'[JournalFile] = Absent /\ prev'[JournalFile] = Absent
      OBVIOUS
    <2>1. Journaling /\ Target = JournalFile
      BY <1>1, TargetOfStage DEF Journaling
    <2>2. main[Target] = Absent /\ prev[JournalFile] = Absent
      BY <2>1, JournalIsFresh
    <2>3. ~Stash
      BY <2>2 DEF DiskInv, PhaseInv, Stash
    <2>4. QED
      BY <2>2, <2>3, <2>1 DEF WriteTemporary
  <1>8. stage # "journal" => Target # JournalFile
    BY <1>1, TargetOfStage, FilesDiffer DEF Writing
  <1>9. stage # "journal" => main'[JournalFile] = main[JournalFile]
                             /\ prev'[JournalFile] = prev[JournalFile]
    BY <1>2, <1>8, FileKinds DEF WriteTemporary, Stash, TypeOK
  <1>10. JournalInv'
    <2>1. HasJournal' => Initialised'
      BY <1>3, ViewKept DEF DiskInv, JournalInv
    <2>2. QED
      BY <1>1, <1>5, <1>7, <1>9, <2>1 DEF DiskInv, JournalInv
  <1>11. AppliedInv'
    <2>1. stage \in {"checkpoint", "batch"} => main'[LedgerFile] = main[LedgerFile]
      BY <1>4, FileKinds, FilesDiffer, TargetOfStage
    <2>2. stage = "batch" => main'[CheckpointFile] = main[CheckpointFile]
      BY <1>4, FileKinds, FilesDiffer, TargetOfStage
    <2>3. QED
      BY <1>1, <2>1, <2>2 DEF DiskInv, AppliedInv, Writing
  <1>12. CreationInv'
    <2>1. stage # "manifest" => main'[ManifestFile] = main[ManifestFile]
      BY <1>1, <1>4, FileKinds, FilesDiffer, TargetOfStage DEF Writing
    <2>2. stage = "manifest" => op = "create" /\ ~Initialised
      BY <1>1 DEF DiskInv, CreationInv, CallShape, TypeOK
    <2>3. Initialised' = Initialised
      BY <1>3, ViewKept
    <2>4. Initialised => op # "create"
      BY <1>1 DEF DiskInv, CreationInv, Writing
    <2>5. QED
      BY <1>1, <2>1, <2>2, <2>3, <2>4 DEF DiskInv, CreationInv
  <1>13. StableInv'
    BY <1>1, <1>3, <1>5, ViewKept DEF DiskInv, StableInv
  <1>14. PendingInv'
    BY <1>1, <1>3, <1>5, ViewKept DEF DiskInv, PendingInv
  <1>15. QED
    BY <1>6, <1>10, <1>11, <1>12, <1>13, <1>14 DEF DiskInv

LEMMA CleanDisk ==
  ASSUME TypeInv, DiskInv, Clean
  PROVE  DiskInv'
  <1> USE DEF TypeInv
  <1>1. /\ Writing /\ op' = op /\ tx' = tx /\ ws' = ws /\ main' = main
        /\ phase = "clean" /\ main[Target] = Value
        /\ stage' = NextStage
    BY DEF Clean, Enter, DiskInv, PhaseInv
  <1>2. \A f \in Files : Read(f)' = Read(f)
    BY ReadKept
  <1>3. /\ stage \in {"manifest", "journal"} => stage' = "ledger"
        /\ stage = "ledger" => stage' = "checkpoint"
        /\ stage = "checkpoint" /\ op = "create" => stage' = "return"
        /\ stage = "checkpoint" /\ op # "create" => stage' = "batch"
        /\ stage = "batch" => stage' = "unlink"
        /\ op # "idle"
    BY <1>1 DEF NextStage, Writing, CallShape
  <1>4. phase' \in {"none", "write"} /\ ~Journaling'
    BY <1>1, <1>3 DEF Clean, Enter, Journaling, Writing
  <1>5. PhaseInv'
    BY <1>4 DEF PhaseInv
  <1>6. JournalInv'
    <2>1. prev'[JournalFile] = Absent
      BY TargetType, FileKinds DEF Clean, DiskInv, JournalInv, TypeOK
    <2>2. HasJournal' => Initialised'
      BY <1>2, ViewKept DEF DiskInv, JournalInv
    <2>3. Settled' => op = "create"
      BY <1>1, <1>3, <1>4 DEF Settled, Writing
    <2>4. stage = "journal" => main[JournalFile] = tx
      BY <1>1, TargetOfStage
    <2>5. stage = "manifest" => op = "create"
      BY DEF CallShape, TypeOK
    <2>6. QED
      BY <1>1, <1>3, <2>1, <2>2, <2>3, <2>4, <2>5
      DEF DiskInv, JournalInv, Settled, Writing
  <1>7. AppliedInv'
    <2>1. /\ stage = "ledger" => main[LedgerFile] = tx.ledger
          /\ stage = "checkpoint" => main[CheckpointFile] = tx.checkpoint
          /\ stage = "batch" => main[BatchFile(tx.batch.id)] = tx.batch
      BY <1>1, TargetOfStage
    <2>2. QED
      BY <1>1, <1>3, <2>1 DEF DiskInv, AppliedInv, Writing
  <1>8. CreationInv'
    <2>1. stage = "manifest" => main[ManifestFile] # Absent
      BY <1>1, TargetOfStage, TargetType
    <2>2. Initialised' = Initialised
      BY <1>2, ViewKept
    <2>3. QED
      BY <1>1, <1>3, <2>1, <2>2 DEF DiskInv, CreationInv, Writing
  <1>9. StableInv'
    BY <1>1, <1>2, <1>3, <1>4, ViewKept DEF DiskInv, StableInv
  <1>10. PendingInv'
    BY <1>4 DEF PendingInv
  <1>11. QED
    BY <1>5, <1>6, <1>7, <1>8, <1>9, <1>10 DEF DiskInv

\* The rename into place changes what is read of one file.
LEMMA PublishRead ==
  ASSUME TypeInv, DiskInv, Publish
  PROVE  /\ Writing /\ stage' = stage /\ op' = op /\ tx' = tx /\ ws' = ws
         /\ phase = "publish" /\ phase' = "clean"
         /\ Target \in Files /\ Target' = Target /\ Value' = Value /\ Value # Absent
         /\ main'[Target] = Value
         /\ \A f \in Files : f # Target => main'[f] = main[f] /\ Read(f)' = Read(f)
         /\ prev' = prev
         /\ Read(Target)' = Value
  BY TargetType, TargetKept DEF Publish, Enter, TypeInv, TypeOK, Read

LEMMA PublishDisk ==
  ASSUME TypeInv, DiskInv, Publish
  PROVE  DiskInv'
  <1> USE PublishRead DEF TypeInv
  <1>1. /\ stage = "manifest" => op = "create"
        /\ op = "create" => stage # "journal" /\ stage # "batch"
        /\ op # "idle"
        /\ stage = "journal" => op \in {"begin", "commit"}
    BY DEF CallShape, TypeOK, Writing
  <1>2. ~Journaling' /\ (stage = "journal" => Journaling)
    BY DEF Journaling
  <1>3. PhaseInv'
    BY DEF PhaseInv
  <1>4. stage # "journal" => /\ main'[JournalFile] = main[JournalFile]
                             /\ Read(JournalFile)' = Read(JournalFile)
    BY FileKinds, FilesDiffer, TargetOfStage DEF Writing
  <1>5. stage # "checkpoint" => Initialised' = Initialised
    <2>1. stage # "checkpoint" => Target # CheckpointFile
      BY FilesDiffer, TargetOfStage DEF Writing
    <2>2. QED
      BY <2>1, FileKinds DEF Initialised
  <1>6. stage = "checkpoint" => Initialised'
    BY TargetOfStage DEF Initialised
  <1>7. JournalInv'
    <2>1. HasJournal' => Initialised'
      <3>1. CASE stage = "journal"
        <4>1. Initialised
          BY <1>1, <1>2, <3>1 DEF DiskInv, StableInv, CallShape
        <4>2. QED
          BY <4>1, <1>5, <3>1
      <3>2. CASE stage # "journal"
        <4>1. HasJournal' = HasJournal
          BY <3>2, <1>4 DEF HasJournal
        <4>2. QED
          BY <4>1, <1>5, <1>6 DEF DiskInv, JournalInv
      <3>3. QED
        BY <3>1, <3>2
    <2>2. Settled' => op = "create"
      BY <1>1, <1>2 DEF Settled, Writing
    <2>3. QED
      BY <1>1, <1>4, <2>1, <2>2 DEF DiskInv, JournalInv, Settled
  <1>8. AppliedInv'
    <2>1. stage \in {"checkpoint", "batch"} => main'[LedgerFile] = main[LedgerFile]
      BY FileKinds, FilesDiffer, TargetOfStage
    <2>2. stage = "batch" => main'[CheckpointFile] = main[CheckpointFile]
      BY FileKinds, FilesDiffer, TargetOfStage
    <2>3. QED
      BY <2>1, <2>2 DEF DiskInv, AppliedInv, Writing
  <1>9. main[ManifestFile] # Absent => main'[ManifestFile] # Absent
    BY FileKinds
  <1>10. stage = "manifest" => main'[ManifestFile] # Absent
    BY TargetOfStage
  <1>11. op # "create" => Initialised
    <2>1. CASE stage = "journal"
      BY <1>1, <1>2, <2>1 DEF DiskInv, StableInv, CallShape
    <2>2. CASE op # "create" /\ stage # "journal"
      <3>1. main[JournalFile] = tx /\ GoodTransaction(tx)
        BY <1>1, <2>2 DEF DiskInv, JournalInv, Writing, CallShape, TypeOK
      <3>2. HasJournal
        BY <3>1, AbsentAssumption DEF HasJournal, Read, GoodTransaction
      <3>3. QED
        BY <3>2 DEF DiskInv, JournalInv
    <2>3. QED
      BY <2>1, <2>2
  <1>12. CreationInv'
    BY <1>1, <1>5, <1>9, <1>10, <1>11 DEF DiskInv, CreationInv, Writing
  <1>13. StableInv'
    <2>1. op # "create" => HasJournal'
      <3>1. CASE stage = "journal"
        BY <3>1, TargetOfStage DEF HasJournal
      <3>2. CASE op # "create" /\ stage # "journal"
        <4>1. main[JournalFile] = tx /\ GoodTransaction(tx)
          BY <1>1, <3>2 DEF DiskInv, JournalInv, Writing, CallShape, TypeOK
        <4>2. QED
          BY <1>4, <3>2, <4>1, AbsentAssumption DEF HasJournal, Read, GoodTransaction
      <3>3. QED
        BY <3>1, <3>2
    <2>2. op = "create" /\ Initialised' => Loadable'
      <3> SUFFICES ASSUME op = "create", Initialised' PROVE Loadable'
        OBVIOUS
      <3>1. stage = "checkpoint"
        BY <1>1, <1>5 DEF DiskInv, CreationInv, Writing
      <3>2. /\ Read(CheckpointFile)' = FirstCheckpoint
            /\ main[LedgerFile] = EmptyLedger
        BY <3>1, TargetOfStage DEF CallShape, DiskInv, AppliedInv
      <3>3. Read(LedgerFile)' = EmptyLedger
        <4>1. Read(LedgerFile) = EmptyLedger
          BY <3>2, FirstValues, AbsentAssumption DEF Read
        <4>2. QED
          BY <4>1, <3>1, TargetOfStage, FileKinds, FilesDiffer
      <3>4. ValidLedger(EmptyLedger)
        BY DEF EmptyLedger, ValidLedger, NoDuplicateIds, Ids
      <3>5. /\ ValidCheckpoint(FirstCheckpoint, EmptyLedger)
            /\ FirstCheckpoint.active = 0
            /\ FirstCheckpoint.optimizer.pending = {}
        BY DEF ValidCheckpoint, FirstCheckpoint, ValidOptimizer, NewOptimizer,
               NoDuplicateIds, Ids
      <3>6. EmptyLedger # Absent /\ FirstCheckpoint # Absent
        BY FirstValues, AbsentAssumption DEF StoredCheckpoint
      <3>7. QED
        BY <3>2, <3>3, <3>4, <3>5, <3>6 DEF Loadable
    <2>3. QED
      BY <1>1, <1>2, <2>1, <2>2 DEF StableInv
  <1>14. PendingInv'
    BY <1>2 DEF PendingInv
  <1>15. QED
    BY <1>3, <1>7, <1>8, <1>12, <1>13, <1>14 DEF DiskInv

\* Once a transaction is applied, the files are what it carries, and they load.
LEMMA AppliedLoads ==
  ASSUME TypeInv, DiskInv, op # "create",
         stage \in {"unlink", "unlinkBackup", "return"}, GoodTransaction(tx)
  PROVE  /\ Read(LedgerFile) = tx.ledger /\ Read(CheckpointFile) = tx.checkpoint
         /\ Read(BatchFile(tx.batch.id)) = tx.batch
         /\ Initialised /\ Loadable
  <1>1. /\ tx.ledger \in Ledger /\ tx.checkpoint \in StoredCheckpoint
        /\ tx.batch \in Envelope /\ tx.batch.id \in BatchIds /\ ValidTransaction(tx)
    BY GoodTransactionType DEF GoodTransaction
  <1>2. tx.ledger # Absent /\ tx.checkpoint # Absent /\ tx.batch # Absent
    BY <1>1, AbsentAssumption DEF StoredCheckpoint
  <1>3. /\ Read(LedgerFile) = tx.ledger /\ Read(CheckpointFile) = tx.checkpoint
        /\ Read(BatchFile(tx.batch.id)) = tx.batch
    BY <1>2 DEF DiskInv, AppliedInv, Read
  <1>4. /\ ValidLedger(tx.ledger) /\ ValidCheckpoint(tx.checkpoint, tx.ledger)
        /\ \/ /\ tx.batch.status = "pending"
              /\ tx.checkpoint.active = tx.batch.id
              /\ tx.checkpoint.optimizer.pending = tx.batch.candidates
           \/ /\ tx.checkpoint.active = 0
              /\ tx.checkpoint.optimizer.pending = {}
    BY <1>1 DEF ValidTransaction
  <1>5. tx.batch.id # 0
    BY <1>1 DEF BatchIds
  <1>6. QED
    BY <1>2, <1>3, <1>4, <1>5 DEF Initialised, Loadable, BatchReadable

LEMMA UnlinkDisk ==
  ASSUME TypeInv, DiskInv, Unlink \/ UnlinkBackup
  PROVE  DiskInv'
  <1> USE DEF TypeInv
  <1>1. CASE Unlink
    <2>1. /\ stage = "unlink" /\ op \in {"open", "begin", "commit"} /\ GoodTransaction(tx)
          /\ stage' \in {"unlinkBackup", "return"} /\ phase' = "none"
          /\ op' = op /\ tx' = tx /\ ws' = ws /\ prev' = prev
      BY <1>1 DEF Unlink, Enter, CallShape, TypeOK
    <2>2. /\ main'[JournalFile] = Absent /\ prev'[JournalFile] = Absent
          /\ \A f \in Files : f # JournalFile =>
               main'[f] = main[f] /\ Read(f)' = Read(f)
      BY <1>1, <2>1, FileKinds DEF Unlink, TypeOK, DiskInv, JournalInv, Read
    <2>3. ~HasJournal' /\ ~Journaling'
      BY <2>1, <2>2 DEF HasJournal, Read, Journaling
    <2>4. PhaseInv' /\ JournalInv' /\ PendingInv'
      BY <2>1, <2>2, <2>3 DEF PhaseInv, JournalInv, PendingInv
    <2>5. /\ main'[LedgerFile] = main[LedgerFile]
          /\ main'[CheckpointFile] = main[CheckpointFile]
          /\ main'[ManifestFile] = main[ManifestFile]
          /\ Read(LedgerFile)' = Read(LedgerFile)
          /\ Read(CheckpointFile)' = Read(CheckpointFile)
          /\ \A b \in BatchIds : /\ main'[BatchFile(b)] = main[BatchFile(b)]
                                 /\ Read(BatchFile(b))' = Read(BatchFile(b))
      BY <2>2, FileKinds, FilesDiffer
    <2>6. tx.batch.id \in BatchIds
      BY <2>1, GoodTransactionType
    <2>7. AppliedInv'
      BY <2>1, <2>5, <2>6 DEF DiskInv, AppliedInv
    <2>8. CreationInv'
      BY <2>1, <2>5 DEF DiskInv, CreationInv, Initialised
    <2>9. Loadable /\ Initialised
      BY <2>1, AppliedLoads
    <2>10. Read(CheckpointFile).active \in BatchIds \cup {0}
      BY <2>9, ReadType, FileKinds DEF Loadable, StoredCheckpoint
    <2>11. Loadable'
      BY <2>5, <2>9, <2>10 DEF Loadable, BatchReadable
    <2>12. StableInv'
      BY <2>1, <2>3, <2>11 DEF StableInv
    <2>13. QED
      BY <2>4, <2>7, <2>8, <2>12 DEF DiskInv
  <1>2. CASE UnlinkBackup
    <2>1. /\ stage = "unlinkBackup" /\ op' = "open" /\ stage' = "load"
          /\ phase' = "none" /\ main' = main /\ ws' = ws
      BY <1>2 DEF UnlinkBackup, Enter
    <2>2. \A f \in Files : Read(f)' = Read(f)
      BY <1>2, ReadKept
    <2>3. /\ main'[JournalFile] = Absent /\ prev'[JournalFile] = Absent
      BY <1>2, <2>1, FileKinds DEF UnlinkBackup, TypeOK, DiskInv, JournalInv, Settled
    <2>4. ~Journaling'
      BY <2>1 DEF Journaling
    <2>5. PhaseInv' /\ PendingInv' /\ AppliedInv'
      BY <2>1, <2>4 DEF PhaseInv, PendingInv, AppliedInv
    <2>6. JournalInv'
      BY <2>1, <2>2, <2>3, ViewKept DEF DiskInv, JournalInv
    <2>7. CreationInv'
      BY <2>1, <2>2, ViewKept DEF DiskInv, CreationInv
    <2>8. StableInv'
      BY <2>1, <2>2, <2>4, ViewKept DEF DiskInv, StableInv
    <2>9. QED
      BY <2>5, <2>6, <2>7, <2>8 DEF DiskInv
  <1>3. QED
    BY <1>1, <1>2

LEMMA FileStepDisk ==
  ASSUME TypeInv, DiskInv, FileStep
  PROVE  DiskInv'
  BY BeforeRenameDisk, PublishDisk, CleanDisk, UnlinkDisk DEF FileStep

\* A step that leaves the directory alone is judged by the call it enters.
LEMMA DiskKept ==
  ASSUME TypeInv, main' = main, prev' = prev
  PROVE  /\ \A f \in Files : Read(f)' = Read(f)
         /\ HasJournal' = HasJournal /\ Initialised' = Initialised
         /\ Read(LedgerFile)' = Read(LedgerFile)
         /\ Read(CheckpointFile)' = Read(CheckpointFile)
         /\ Read(JournalFile)' = Read(JournalFile)
         /\ \A b \in BatchIds : /\ Read(BatchFile(b))' = Read(BatchFile(b))
                                /\ BatchReadable(b)' = BatchReadable(b)
         /\ Loadable => Loadable'
  <1>1. \A f \in Files : Read(f)' = Read(f)
    BY DEF Read
  <1>2. QED
    BY <1>1, ViewKept

LEMMA ClientStepDisk ==
  ASSUME TypeInv, DiskInv,
         \/ Create \/ Open \/ Load \/ Resume \/ Return \/ Close
         \/ \E created \in Times : Begin(created)
         \/ \E b \in BatchIds, rows \in Submissions : Commit(b, rows) \/ Retry(b, rows)
  PROVE  DiskInv'
  <1> USE DEF TypeInv
  <1>0. main' = main /\ prev' = prev
    BY DEF Create, Open, Load, Resume, Return, Close, Begin, Commit, Retry
  <1> USE DiskKept
  <1>1. CASE Create
    <2>1. /\ op' = "create" /\ stage' = "manifest" /\ phase' = "write" /\ ws' = Absent
          /\ main[ManifestFile] = Absent
      BY <1>1 DEF Create, Enter
    <2>2. ~Initialised /\ ~HasJournal /\ main[JournalFile] = Absent
      BY <2>1 DEF DiskInv, CreationInv, JournalInv, HasJournal, Read
    <2>3. ~Journaling' /\ PhaseInv' /\ PendingInv' /\ AppliedInv'
      BY <2>1 DEF Journaling, PhaseInv, PendingInv, AppliedInv
    <2>4. JournalInv' /\ CreationInv' /\ StableInv'
      BY <1>0, <2>1, <2>2, <2>3 DEF DiskInv, JournalInv, CreationInv, StableInv
    <2>5. QED
      BY <2>3, <2>4 DEF DiskInv
  <1>2. CASE Open
    <2>1. /\ op' = "open" /\ ws' = Absent
          /\ \/ /\ stage' = "ledger" /\ phase' = "write"
                /\ HasJournal /\ tx' = Read(JournalFile)
             \/ stage' = "load" /\ phase' = "none" /\ ~HasJournal
      BY <1>2 DEF Open, Enter, HasJournal
    <2>2. Read(JournalFile) = main[JournalFile]
      BY DEF DiskInv, JournalInv, Read
    <2>3. ~Journaling' /\ PhaseInv' /\ PendingInv' /\ AppliedInv'
      BY <2>1 DEF Journaling, PhaseInv, PendingInv, AppliedInv
    <2>4. JournalInv' /\ CreationInv' /\ StableInv'
      BY <1>0, <2>1, <2>2, <2>3
      DEF DiskInv, JournalInv, CreationInv, StableInv, Settled, HasJournal
    <2>5. QED
      BY <2>3, <2>4 DEF DiskInv
  <1>3. CASE Load
    <2>1. /\ op' = "idle" /\ stage' = "none" /\ phase' = "none"
          /\ main[JournalFile] = Absent
      BY <1>3 DEF Load, Leave, Enter, DiskInv, JournalInv, Settled
    <2>2. ws' # Absent =>
            /\ Initialised
            /\ ws' = [ledger |-> Read(LedgerFile), checkpoint |-> Read(CheckpointFile)]
      BY <1>3 DEF Load, Loadable, Initialised
    <2>3. ~Journaling' /\ PhaseInv' /\ PendingInv' /\ AppliedInv'
      BY <2>1 DEF Journaling, PhaseInv, PendingInv, AppliedInv
    <2>4. JournalInv' /\ CreationInv'
      BY <1>0, <2>1 DEF DiskInv, JournalInv, CreationInv
    <2>5. StableInv'
      BY <1>0, <2>2 DEF DiskInv, StableInv
    <2>6. QED
      BY <2>3, <2>4, <2>5 DEF DiskInv
  <1>4. ASSUME /\ op' = op /\ stage' = stage /\ phase' = phase /\ tx' = tx
               /\ ws' \in {ws, Absent} /\ op = "idle"
        PROVE  DiskInv'
    <2>1. stage = "none" /\ phase = "none" /\ ~Journaling'
      BY <1>4 DEF CallShape, Writing, Journaling
    <2>2. PhaseInv' /\ PendingInv' /\ AppliedInv'
      BY <1>4, <2>1 DEF PhaseInv, PendingInv, AppliedInv
    <2>3. JournalInv' /\ CreationInv' /\ StableInv'
      BY <1>0, <1>4, <2>1
      DEF DiskInv, JournalInv, CreationInv, StableInv, Settled, Journaling
    <2>4. QED
      BY <2>2, <2>3 DEF DiskInv
  <1>5. CASE Resume
    BY <1>4, <1>5 DEF Resume
  <1>6. CASE Close
    BY <1>4, <1>6 DEF Close
  <1>7. ASSUME NEW b \in BatchIds, NEW rows \in Submissions, Retry(b, rows)
        PROVE  DiskInv'
    BY <1>4, <1>7 DEF Retry
  <1>8. CASE Return
    <2>1. /\ stage = "return" /\ op' = "idle" /\ stage' = "none" /\ phase' = "none"
          /\ ws' = [ledger |-> tx.ledger, checkpoint |-> tx.checkpoint]
          /\ main[JournalFile] = Absent
      BY <1>8 DEF Return, Leave, Enter, DiskInv, JournalInv, Settled
    <2>2. tx.ledger \in Ledger /\ tx.checkpoint \in StoredCheckpoint
      BY <1>8, GoodTransactionType, FirstValues DEF Return, CallShape, TypeOK
    <2>3. /\ Read(LedgerFile) = tx.ledger /\ Read(CheckpointFile) = tx.checkpoint
          /\ Initialised
      BY <2>1, <2>2, AbsentAssumption
      DEF DiskInv, AppliedInv, Read, Initialised, StoredCheckpoint
    <2>4. ~Journaling' /\ PhaseInv' /\ PendingInv' /\ AppliedInv'
      BY <2>1 DEF Journaling, PhaseInv, PendingInv, AppliedInv
    <2>5. JournalInv' /\ CreationInv'
      BY <1>0, <2>1 DEF DiskInv, JournalInv, CreationInv
    <2>6. StableInv'
      BY <1>0, <2>1, <2>3 DEF DiskInv, StableInv
    <2>7. QED
      BY <2>4, <2>5, <2>6 DEF DiskInv
  <1>9. ASSUME /\ op = "idle" /\ ws # Absent /\ ws' = ws
               /\ op' \in {"begin", "commit"} /\ stage' = "journal" /\ phase' = "write"
               /\ PendingInv'
        PROVE  DiskInv'
    <2>1. Journaling' /\ Settled /\ main[JournalFile] = Absent
      BY <1>9 DEF Journaling, Settled, DiskInv, JournalInv
    <2>2. PhaseInv' /\ AppliedInv'
      BY <1>9 DEF PhaseInv, AppliedInv
    <2>3. JournalInv' /\ CreationInv' /\ StableInv'
      BY <1>0, <1>9, <2>1 DEF DiskInv, JournalInv, CreationInv, StableInv
    <2>4. QED
      BY <1>9, <2>2, <2>3 DEF DiskInv
  <1>10. ASSUME NEW created \in Times, Begin(created)
         PROVE  DiskInv'
    <2>1. PendingInv'
      BY <1>10 DEF Begin, Enter, PendingInv
    <2>2. QED
      BY <1>9, <1>10, <2>1 DEF Begin, Enter
  <1>11. ASSUME NEW b \in BatchIds, NEW rows \in Submissions, Commit(b, rows)
         PROVE  DiskInv'
    <2>1. PendingInv'
      BY <1>11 DEF Commit, Enter, PendingInv
    <2>2. QED
      BY <1>9, <1>11, <2>1 DEF Commit, Enter
  <1>12. QED
    BY <1>1, <1>2, <1>3, <1>5, <1>6, <1>7, <1>8, <1>10, <1>11

LEMMA FaultDisk ==
  ASSUME ~RetainsHandle, TypeInv, DiskInv, Crash \/ IoError
  PROVE  DiskInv'
  <1> USE DEF TypeInv
  <1>1. op' = "idle" /\ stage' = "none" /\ phase' = "none" /\ ws' = Absent
    BY DEF Crash, IoError, Leave, Enter
  <1>2. \A f \in Files : Read(f)' = Read(f)
    BY ReadKept
  <1>3. \A f \in Files : main[f] # Absent => main'[f] = main[f]
    BY DEF Crash, IoError, disk, TypeOK
  <1>4. prev'[JournalFile] = Absent
    BY FileKinds DEF Crash, IoError, disk, TypeOK, DiskInv, JournalInv
  <1>5. ~Journaling' /\ ~Settled'
    BY <1>1 DEF Journaling, Settled
  <1>6. PhaseInv' /\ AppliedInv' /\ PendingInv'
    BY <1>1, <1>5 DEF PhaseInv, AppliedInv, PendingInv
  <1>7. JournalInv'
    BY <1>1, <1>2, <1>4, <1>5, ViewKept DEF DiskInv, JournalInv
  <1>8. CreationInv'
    BY <1>1, <1>2, <1>3, ViewKept, FileKinds DEF DiskInv, CreationInv
  <1>9. StableInv'
    BY <1>1, <1>2, ViewKept DEF DiskInv, StableInv
  <1>10. QED
    BY <1>6, <1>7, <1>8, <1>9 DEF DiskInv

LEMMA InitDisk == Init => DiskInv
  <1> SUFFICES ASSUME Init PROVE DiskInv
    OBVIOUS
  <1>1. ~HasJournal /\ ~Initialised
    BY FileKinds DEF Init, HasJournal, Initialised, Read
  <1>2. main[JournalFile] = Absent /\ prev[JournalFile] = Absent
    BY FileKinds DEF Init
  <1>3. ~Journaling
    BY DEF Init, Journaling
  <1>4. QED
    BY <1>1, <1>2, <1>3
    DEF Init, DiskInv, PhaseInv, JournalInv, AppliedInv, CreationInv, StableInv,
        PendingInv

LEMMA NextDisk == ~RetainsHandle /\ IInv /\ [Next]_vars => IInv'
  <1> SUFFICES ASSUME ~RetainsHandle, IInv, [Next]_vars
               PROVE  IInv'
    OBVIOUS
  <1>1. TypeInv /\ DiskInv
    BY DEF IInv
  <1>2. TypeInv'
    <2>1. CASE UNCHANGED vars
      BY <1>1, <2>1 DEF vars, TypeInv, TypeOK, CallShape, Writing
    <2>2. CASE Next
      BY <1>1, <2>2, FileStepType, ClientStepType, FaultType DEF Next
    <2>3. QED
      BY <2>1, <2>2
  <1>3. DiskInv'
    <2>1. CASE UNCHANGED vars
      <3>1. main' = main /\ prev' = prev /\ ws' = ws /\ op' = op /\ stage' = stage
            /\ phase' = phase /\ tx' = tx
        BY <2>1 DEF vars
      <3>2. Target' = Target /\ Value' = Value
        BY <3>1 DEF Target, Value
      <3>3. Journaling' = Journaling /\ Settled' = Settled
        BY <3>1 DEF Journaling, Settled
      <3>4. QED
        BY <1>1, <3>1, <3>2, <3>3, DiskKept
        DEF DiskInv, PhaseInv, JournalInv, AppliedInv, CreationInv, StableInv, PendingInv
    <2>2. CASE Next
      BY <1>1, <2>2, FileStepDisk, ClientStepDisk, FaultDisk DEF Next
    <2>3. QED
      BY <2>1, <2>2
  <1>4. QED
    BY <1>2, <1>3 DEF IInv

\* The inductive invariant of the directory.
THEOREM WorkspaceInvariant ==
  ASSUME ~RetainsHandle
  PROVE  Spec => []IInv
  <1>1. Init => IInv
    BY InitTypeInv, InitDisk DEF IInv
  <1>2. IInv /\ [Next]_vars => IInv'
    BY NextDisk
  <1>3. QED
    BY <1>1, <1>2, PTL DEF Spec

\* However often the process dies or the file system refuses a step, and
\* wherever it does, a study directory whose creation is complete can be opened.
THEOREM WorkspaceRecovers ==
  ASSUME ~RetainsHandle
  PROVE  Spec => []AlwaysRecoverable
  <1>1. IInv => AlwaysRecoverable
    <2> SUFFICES ASSUME IInv, Initialised PROVE AlwaysRecoverable
      BY DEF AlwaysRecoverable
    <2>1. HasJournal => GoodTransaction(Read(JournalFile))
      BY DEF IInv, TypeInv, CallShape, HasJournal, Read
    <2>2. QED
      BY <2>1 DEF AlwaysRecoverable, GoodTransaction, IInv, DiskInv, StableInv
  <1>2. QED
    BY WorkspaceInvariant, <1>1, PTL

-----------------------------------------------------------------------------
(* The directory, seen through recovery, is an atomic study workspace.     *)

\* The contract computes its transactions with the same functions.
LEMMA SameFunctions ==
  /\ Contract!BatchIds = BatchIds
  /\ Contract!EmptyLedger = EmptyLedger /\ Contract!FirstCheckpoint = FirstCheckpoint
  /\ \A t : Contract!ValidTransaction(t) <=> ValidTransaction(t)
  /\ \A l, c : Contract!CanBegin(l, c) <=> CanBegin(l, c)
  /\ \A l, c, created :
       Contract!BeginTransaction(l, c, created) = BeginTransaction(l, c, created)
  /\ \A l, c, e, rows :
       /\ Contract!Accepts(l, c, e, rows) <=> Accepts(l, c, e, rows)
       /\ Contract!CommitTransaction(l, c, e, rows) = CommitTransaction(l, c, e, rows)
  <1>1. Contract!BatchIds = BatchIds /\ Contract!EmptyLedger = EmptyLedger
        /\ Contract!FirstCheckpoint = FirstCheckpoint
    BY DEF Contract!BatchIds, BatchIds, Contract!EmptyLedger, EmptyLedger,
           Contract!FirstCheckpoint, FirstCheckpoint, Contract!NewOptimizer,
           NewOptimizer
  <1>2. \A t : Contract!ValidTransaction(t) <=> ValidTransaction(t)
    <2>1. \A rows : /\ Contract!Ids(rows) = Ids(rows)
                    /\ Contract!NoDuplicateIds(rows) <=> NoDuplicateIds(rows)
      BY DEF Contract!Ids, Ids, Contract!NoDuplicateIds, NoDuplicateIds
    <2>2. \A l : Contract!ValidLedger(l) <=> ValidLedger(l)
      BY <2>1 DEF Contract!ValidLedger, ValidLedger
    <2>3. \A o : Contract!ValidOptimizer(o) <=> ValidOptimizer(o)
      BY <2>1 DEF Contract!ValidOptimizer, ValidOptimizer
    <2>4. \A l, c : Contract!ValidCheckpoint(c, l) <=> ValidCheckpoint(c, l)
      BY <2>3 DEF Contract!ValidCheckpoint, ValidCheckpoint
    <2>5. \A S : Contract!Cardinality(S) = Cardinality(S)
      BY DEF Contract!Cardinality, Cardinality, Contract!IsFiniteSet, IsFiniteSet
    <2>6. QED
      BY <2>2, <2>4, <2>5 DEF Contract!ValidTransaction, ValidTransaction
  <1>3. \A l, c : Contract!CanBegin(l, c) <=> CanBegin(l, c)
    BY DEF Contract!CanBegin, CanBegin, Contract!Ask, Ask, Contract!RequestedSize,
           RequestedSize, Contract!Ids, Ids
  <1>4. \A l, c, created :
          Contract!BeginTransaction(l, c, created) = BeginTransaction(l, c, created)
    BY DEF Contract!BeginTransaction, BeginTransaction, Contract!Ask, Ask,
           Contract!RequestedSize, RequestedSize
  <1>5. \A l, c, e, rows :
          /\ Contract!Accepts(l, c, e, rows) <=> Accepts(l, c, e, rows)
          /\ Contract!CommitTransaction(l, c, e, rows) = CommitTransaction(l, c, e, rows)
    BY DEF Contract!Accepts, Accepts, Contract!CommitTransaction, CommitTransaction,
           Contract!Tell, Tell, Contract!Ids, Ids, Contract!Range, Range
  <1>6. QED
    BY <1>1, <1>2, <1>3, <1>4, <1>5

\* The study changes only when what is read changes.
LEMMA StudyKept ==
  ASSUME TypeInv, \A f \in Files : Read(f)' = Read(f)
  PROVE  /\ StudyLedger' = StudyLedger /\ StudyCheckpoint' = StudyCheckpoint
         /\ StudyBatches' = StudyBatches
  BY ViewKept DEF StudyLedger, StudyCheckpoint, StudyBatches

\* The states in which the study is what ledger, checkpoint and batch files say.
LEMMA StudyIsDisk ==
  ASSUME ~HasJournal, Initialised
  PROVE  /\ StudyLedger = Read(LedgerFile) /\ StudyCheckpoint = Read(CheckpointFile)
         /\ \A b \in BatchIds : StudyBatches[b] = Read(BatchFile(b))
  BY DEF StudyLedger, StudyCheckpoint, StudyBatches

\* A new report is one more acknowledgement.
LEMMA ReportSeen ==
  ASSUME NEW A, NEW b, NEW rows, NEW c
  PROVE  {[batch |-> a.batch, rows |-> a.rows] : a \in A \cup {Report(b, rows, c)}}
           = {[batch |-> a.batch, rows |-> a.rows] : a \in A}
               \cup {[batch |-> b, rows |-> rows]}
  <1> DEFINE seen(a) == [batch |-> a.batch, rows |-> a.rows]
  <1>1. seen(Report(b, rows, c)) = [batch |-> b, rows |-> rows]
    BY DEF Report
  <1>2. \A r : {seen(a) : a \in A \cup {r}} = {seen(a) : a \in A} \cup {seen(r)}
    <2> HIDE DEF seen
    <2>1. QED
      OBVIOUS
  <1>3. QED
    BY <1>1, <1>2

\* A client's calls that answer without writing.
LEMMA ResumeRefines ==
  ASSUME IInv, Resume
  PROVE  Contract!Next
  <1>1. TypeInv /\ DiskInv /\ op = "idle" /\ ws # Absent
    BY DEF IInv, Resume
  <1>2. /\ ~HasJournal /\ Initialised /\ Loadable
        /\ ws = [ledger |-> Read(LedgerFile), checkpoint |-> Read(CheckpointFile)]
    BY <1>1 DEF DiskInv, StableInv, JournalInv, Settled, HasJournal, Read
  <1>3. DEFINE b == ws.checkpoint.active
  <1>4. b \in BatchIds /\ b \in Contract!BatchIds
    BY <1>1, SameFunctions DEF Resume, TypeInv, TypeOK, StoredCheckpoint
  <1>5. /\ StudyLedger # Absent /\ StudyCheckpoint.active = b
        /\ StudyBatches[b] = Read(BatchFile(b)) /\ StudyBatches[b] # Absent
        /\ handed' = handed \cup {StudyBatches[b]}
    BY <1>2, <1>4, StudyIsDisk DEF Resume, BatchReadable, Loadable
  <1>6. \A f \in Files : Read(f)' = Read(f)
    BY DEF Resume, Read
  <1>7. Contract!HandOut(b)
    BY <1>1, <1>5, <1>6, StudyKept DEF Contract!HandOut, Resume
  <1>8. QED
    BY <1>4, <1>7 DEF Contract!Next

LEMMA RetryRefines ==
  ASSUME IInv, NEW b \in BatchIds, NEW rows \in Submissions, Retry(b, rows)
  PROVE  Contract!Next
  <1>1. TypeInv /\ DiskInv /\ op = "idle" /\ ws # Absent
    BY DEF IInv, Retry
  <1>2. ~HasJournal /\ Initialised
    BY <1>1 DEF DiskInv, StableInv, JournalInv, Settled, HasJournal, Read
  <1>3. /\ StudyBatches[b] = Read(BatchFile(b)) /\ StudyBatches[b] # Absent
        /\ StudyBatches[b].status = "completed"
        /\ StudyBatches[b].evaluations = rows
    BY <1>2, StudyIsDisk DEF Retry, BatchReadable
  <1>4. \A f \in Files : Read(f)' = Read(f)
    BY DEF Retry, Read
  <1>5. {[batch |-> a.batch, rows |-> a.rows] : a \in acked'}
          = {[batch |-> a.batch, rows |-> a.rows] : a \in acked}
              \cup {[batch |-> b, rows |-> rows]}
    BY ReportSeen DEF Retry
  <1>6. Contract!Acknowledge(b, rows)
    BY <1>1, <1>3, <1>4, <1>5, StudyKept DEF Contract!Acknowledge, Retry
  <1>7. QED
    BY <1>6, SameFunctions DEF Contract!Next

\* begin answers with the active batch, commit with an acknowledgement.
LEMMA ReturnRefines ==
  ASSUME IInv, Return
  PROVE  Contract!Next \/ UNCHANGED Contract!vars
  <1>1. /\ TypeInv /\ DiskInv /\ stage = "return"
        /\ op \in {"create", "begin", "commit"}
    BY DEF IInv, Return, TypeInv, TypeOK, CallShape
  <1>2. \A f \in Files : Read(f)' = Read(f)
    BY DEF Return, Read
  <1>3. /\ StudyLedger' = StudyLedger /\ StudyCheckpoint' = StudyCheckpoint
        /\ StudyBatches' = StudyBatches
    BY <1>1, <1>2, StudyKept
  <1>4. CASE op = "create"
    BY <1>3, <1>4 DEF Return, Contract!vars
  <1>5. ASSUME op # "create"
        PROVE  /\ ~HasJournal /\ GoodTransaction(tx)
               /\ tx.batch.id \in BatchIds /\ tx.batch # Absent
               /\ StudyLedger # Absent /\ StudyCheckpoint = tx.checkpoint
               /\ StudyBatches[tx.batch.id] = tx.batch
    <2>1. GoodTransaction(tx) /\ tx.batch.id \in BatchIds
          /\ tx.batch \in Envelope /\ tx.ledger \in Ledger
      BY <1>1, <1>5, GoodTransactionType DEF TypeInv, CallShape
    <2>2. ~HasJournal
      BY <1>1 DEF DiskInv, JournalInv, Settled, HasJournal, Read
    <2>3. QED
      BY <1>1, <1>5, <2>1, <2>2, AppliedLoads, StudyIsDisk, AbsentAssumption
  <1>6. CASE op = "begin"
    <2>1. tx.batch.status = "pending"
      BY <1>1, <1>6 DEF TypeInv, CallShape
    <2>2. tx.checkpoint.active = tx.batch.id
      BY <1>5, <1>6, <2>1 DEF GoodTransaction, ValidTransaction
    <2>3. acked' = acked /\ handed' = handed \cup {tx.batch}
      BY <1>6 DEF Return
    <2>4. Contract!HandOut(tx.batch.id)
      BY <1>3, <1>5, <1>6, <2>2, <2>3 DEF Contract!HandOut
    <2>5. QED
      BY <1>5, <1>6, <2>4, SameFunctions DEF Contract!Next
  <1>7. CASE op = "commit"
    <2>1. /\ tx.batch.status = "completed"
          /\ tx.batch.evaluations \in Submissions
      BY <1>1, <1>7 DEF TypeInv, CallShape
    <2>2. /\ handed' = handed
          /\ acked' = acked \cup {Report(tx.batch.id, tx.batch.evaluations, tx.checkpoint)}
      BY <1>7 DEF Return
    <2>3. {[batch |-> a.batch, rows |-> a.rows] : a \in acked'}
            = {[batch |-> a.batch, rows |-> a.rows] : a \in acked}
                \cup {[batch |-> tx.batch.id, rows |-> tx.batch.evaluations]}
      BY <2>2, ReportSeen
    <2>4. PICK b \in BatchIds, rows \in Submissions :
            b = tx.batch.id /\ rows = tx.batch.evaluations
      BY <1>5, <1>7, <2>1
    <2>5. Contract!Acknowledge(b, rows)
      BY <1>3, <1>5, <1>7, <2>1, <2>2, <2>3, <2>4 DEF Contract!Acknowledge
    <2>6. QED
      BY <2>5, SameFunctions DEF Contract!Next
  <1>8. QED
    BY <1>1, <1>4, <1>6, <1>7

\* Renaming a file into place is the moment a call takes effect: the journal's
\* for begin and commit, the checkpoint's for create.  Renaming any other file
\* only applies what the journal already says.
LEMMA PublishRefines ==
  ASSUME IInv, Publish
  PROVE  Contract!Next \/ UNCHANGED Contract!vars
  <1>1. TypeInv /\ DiskInv
    BY DEF IInv
  <1> USE <1>1, PublishRead
  <1>2. handed' = handed /\ acked' = acked
    BY DEF Publish
  <1>3. CASE stage = "manifest"
    <2>1. /\ Read(LedgerFile)' = Read(LedgerFile)
          /\ Read(CheckpointFile)' = Read(CheckpointFile)
          /\ Read(JournalFile)' = Read(JournalFile)
          /\ \A b \in BatchIds : Read(BatchFile(b))' = Read(BatchFile(b))
      BY <1>3, TargetOfStage, FileKinds, FilesDiffer
    <2>2. QED
      BY <1>2, <2>1
      DEF Contract!vars, StudyLedger, StudyCheckpoint, StudyBatches, HasJournal,
          Initialised
  <1>4. CASE op = "create" /\ stage = "ledger"
    <2>1. /\ Read(CheckpointFile)' = Read(CheckpointFile)
          /\ Read(JournalFile)' = Read(JournalFile)
          /\ \A b \in BatchIds : Read(BatchFile(b))' = Read(BatchFile(b))
      BY <1>4, TargetOfStage, FileKinds, FilesDiffer
    <2>2. ~Initialised /\ ~HasJournal
      BY <1>4 DEF DiskInv, CreationInv, JournalInv
    <2>3. QED
      BY <1>2, <2>1, <2>2
      DEF Contract!vars, StudyLedger, StudyCheckpoint, StudyBatches, HasJournal,
          Initialised
  <1>5. CASE op = "create" /\ stage = "checkpoint"
    <2>1. /\ Read(LedgerFile)' = Read(LedgerFile)
          /\ Read(CheckpointFile)' = tx.checkpoint
          /\ Read(JournalFile)' = Read(JournalFile)
          /\ \A b \in BatchIds : Read(BatchFile(b))' = Read(BatchFile(b))
      BY <1>5, TargetOfStage, FileKinds, FilesDiffer
    <2>2. ~Initialised /\ ~HasJournal
      BY <1>5 DEF DiskInv, CreationInv, JournalInv
    <2>3. /\ tx.checkpoint = FirstCheckpoint /\ main[LedgerFile] = EmptyLedger
      BY <1>5 DEF TypeInv, CallShape, DiskInv, AppliedInv
    <2>4. Read(LedgerFile) = EmptyLedger /\ FirstCheckpoint # Absent
      BY <2>3, FirstValues, AbsentAssumption DEF Read, StoredCheckpoint
    <2>5. /\ StudyLedger = Absent /\ StudyLedger' = EmptyLedger
          /\ StudyCheckpoint' = FirstCheckpoint /\ StudyBatches' = StudyBatches
      BY <2>1, <2>2, <2>3, <2>4
      DEF StudyLedger, StudyCheckpoint, StudyBatches, HasJournal, Initialised
    <2>6. Contract!Create
      BY <1>2, <2>5, SameFunctions DEF Contract!Create
    <2>7. QED
      BY <2>6 DEF Contract!Next
  <1>6. CASE op # "create" /\ stage \in {"ledger", "checkpoint", "batch"}
    <2>1. main[JournalFile] = tx /\ GoodTransaction(tx)
      BY <1>6 DEF DiskInv, JournalInv, TypeInv, TypeOK, CallShape
    <2>2. Read(JournalFile) = tx /\ HasJournal
      BY <2>1, AbsentAssumption DEF Read, HasJournal, GoodTransaction
    <2>3. Read(JournalFile)' = Read(JournalFile)
      BY <1>6, TargetOfStage, FileKinds, FilesDiffer
    <2>4. \A b \in BatchIds : b # tx.batch.id =>
            Read(BatchFile(b))' = Read(BatchFile(b))
      BY <1>6, TargetOfStage, FileKinds, FilesDiffer
    <2>5. /\ StudyLedger' = StudyLedger /\ StudyCheckpoint' = StudyCheckpoint
          /\ StudyBatches' = StudyBatches
      BY <2>2, <2>3, <2>4 DEF StudyLedger, StudyCheckpoint, StudyBatches, HasJournal
    <2>6. QED
      BY <1>2, <2>5 DEF Contract!vars
  <1>7. CASE stage = "journal"
    <2>1. /\ Journaling /\ op \in {"begin", "commit"} /\ ws # Absent
          /\ GoodTransaction(tx) /\ tx.batch.id \in BatchIds /\ tx # Absent
      BY <1>7, GoodTransactionType, AbsentAssumption
      DEF Journaling, TypeInv, TypeOK, CallShape
    <2>2. ~HasJournal
      BY <2>1, JournalIsFresh DEF HasJournal, Read
    <2>3. /\ Initialised
          /\ ws = [ledger |-> Read(LedgerFile), checkpoint |-> Read(CheckpointFile)]
      BY <2>1 DEF DiskInv, StableInv
    <2>4. /\ StudyLedger = ws.ledger /\ StudyCheckpoint = ws.checkpoint
          /\ \A b \in BatchIds : StudyBatches[b] = Read(BatchFile(b))
      BY <2>2, <2>3, StudyIsDisk
    <2>5. StudyLedger # Absent
      BY <2>2, <2>3, <2>4 DEF DiskInv, StableInv, Loadable
    <2>6. Read(JournalFile)' = tx
      BY <1>7, TargetOfStage
    <2>7. \A b \in BatchIds : Read(BatchFile(b))' = Read(BatchFile(b))
      BY <1>7, TargetOfStage, FileKinds, FilesDiffer
    <2>8. /\ StudyLedger' = tx.ledger /\ StudyCheckpoint' = tx.checkpoint
          /\ StudyBatches' = [StudyBatches EXCEPT ![tx.batch.id] = tx.batch]
      BY <2>1, <2>2, <2>6, <2>7 DEF StudyLedger, StudyCheckpoint, StudyBatches, HasJournal
    <2>9. Contract!Install(tx)
      BY <1>2, <2>1, <2>8, SameFunctions DEF Contract!Install, GoodTransaction
    <2>10. ASSUME NEW created \in Times,
                  ws.checkpoint.active = 0,
                  ws.checkpoint.revision < MaxRevision,
                  CanBegin(ws.ledger, ws.checkpoint),
                  tx = BeginTransaction(ws.ledger, ws.checkpoint, created)
           PROVE  Contract!Next
      <3>1. Contract!Install(Contract!BeginTransaction(StudyLedger, StudyCheckpoint,
                                                       created))
        BY <2>4, <2>9, <2>10, SameFunctions
      <3>2. Contract!Begin(created)
        BY <2>4, <2>5, <2>10, <3>1, SameFunctions DEF Contract!Begin
      <3>3. QED
        BY <3>2 DEF Contract!Next
    <2>11. ASSUME NEW b \in BatchIds, NEW rows \in Submissions,
                  BatchReadable(b),
                  Read(BatchFile(b)).status = "pending",
                  Accepts(ws.ledger, ws.checkpoint, Read(BatchFile(b)), rows),
                  tx = CommitTransaction(ws.ledger, ws.checkpoint,
                                         Read(BatchFile(b)), rows)
           PROVE  Contract!Next
      <3>1. Contract!Install(Contract!CommitTransaction(StudyLedger, StudyCheckpoint,
                                                        StudyBatches[b], rows))
        BY <2>4, <2>9, <2>11, SameFunctions
      <3>2. Contract!Commit(b, rows)
        BY <2>4, <2>5, <2>11, <3>1, SameFunctions DEF Contract!Commit, BatchReadable
      <3>3. QED
        BY <3>2, SameFunctions DEF Contract!Next
    <2>12. QED
      BY <2>1, <2>10, <2>11 DEF DiskInv, PendingInv
  <1>8. /\ stage \in {"manifest", "ledger", "checkpoint", "journal", "batch"}
        /\ stage = "batch" => op # "create"
    BY DEF Writing, TypeInv, CallShape
  <1>9. QED
    BY <1>3, <1>4, <1>5, <1>6, <1>7, <1>8

\* Every other step leaves the study as it is.
LEMMA QuietRefines ==
  ASSUME IInv,
         \/ WriteTemporary \/ Stash \/ Clean \/ UnlinkBackup \/ Crash \/ IoError
         \/ Create \/ Open \/ Load \/ Close
         \/ \E created \in Times : Begin(created)
         \/ \E b \in BatchIds, rows \in Submissions : Commit(b, rows)
  PROVE  UNCHANGED Contract!vars
  <1>1. TypeInv /\ DiskInv
    BY DEF IInv
  <1>2. \A f \in Files : Read(f)' = Read(f)
    <2>1. CASE WriteTemporary \/ Stash \/ Clean \/ UnlinkBackup \/ Crash \/ IoError
      BY <1>1, <2>1, ReadKept
    <2>2. CASE \/ Create \/ Open \/ Load \/ Close
               \/ \E created \in Times : Begin(created)
               \/ \E b \in BatchIds, rows \in Submissions : Commit(b, rows)
      <3>1. main' = main /\ prev' = prev
        BY <2>2 DEF Create, Open, Load, Close, Begin, Commit
      <3>2. QED
        BY <3>1 DEF Read
    <2>3. QED
      BY <2>1, <2>2
  <1>3. handed' = handed /\ acked' = acked
    BY DEF WriteTemporary, Stash, Clean, UnlinkBackup, Crash, IoError, Create, Open,
           Load, Close, Begin, Commit
  <1>4. QED
    BY <1>1, <1>2, <1>3, StudyKept DEF Contract!vars

\* Removing the journal of an applied transaction changes nothing either.
LEMMA UnlinkRefines ==
  ASSUME IInv, Unlink
  PROVE  UNCHANGED Contract!vars
  <1>1. TypeInv /\ DiskInv /\ stage = "unlink"
    BY DEF IInv, Unlink
  <1>2. /\ op # "create" /\ GoodTransaction(tx) /\ main[JournalFile] = tx
        /\ tx.batch.id \in BatchIds /\ tx # Absent
    BY <1>1, GoodTransactionType, AbsentAssumption
    DEF TypeInv, TypeOK, CallShape, DiskInv, JournalInv
  <1>3. /\ main'[JournalFile] = Absent /\ prev'[JournalFile] = Absent
        /\ \A f \in Files : f # JournalFile => Read(f)' = Read(f)
    BY <1>1, FileKinds DEF Unlink, TypeInv, TypeOK, DiskInv, JournalInv, Read
  <1>4. /\ HasJournal /\ Read(JournalFile) = tx /\ ~HasJournal'
    BY <1>2, <1>3 DEF HasJournal, Read
  <1>5. /\ Read(LedgerFile) = tx.ledger /\ Read(CheckpointFile) = tx.checkpoint
        /\ Read(BatchFile(tx.batch.id)) = tx.batch /\ Initialised
    BY <1>1, <1>2, AppliedLoads
  <1>6. /\ Read(LedgerFile)' = Read(LedgerFile)
        /\ Read(CheckpointFile)' = Read(CheckpointFile)
        /\ \A b \in BatchIds : Read(BatchFile(b))' = Read(BatchFile(b))
    BY <1>3, FileKinds, FilesDiffer
  <1>7. /\ StudyLedger' = StudyLedger /\ StudyCheckpoint' = StudyCheckpoint
    BY <1>4, <1>5, <1>6 DEF StudyLedger, StudyCheckpoint, Initialised
  <1>8. StudyBatches' = StudyBatches
    BY <1>4, <1>5, <1>6 DEF StudyBatches
  <1>9. QED
    BY <1>7, <1>8 DEF Contract!vars, Unlink

LEMMA InitRefines == Init => Contract!Init
  <1> SUFFICES ASSUME Init PROVE Contract!Init
    OBVIOUS
  <1>1. \A f \in Files : Read(f) = Absent
    BY DEF Init, Read
  <1>2. ~HasJournal /\ ~Initialised
    BY <1>1, FileKinds DEF HasJournal, Initialised
  <1>3. /\ StudyLedger = Absent /\ StudyCheckpoint = Absent
        /\ StudyBatches = [b \in BatchIds |-> Absent]
    BY <1>1, <1>2, FileKinds DEF StudyLedger, StudyCheckpoint, StudyBatches
  <1>4. QED
    BY <1>3, SameFunctions DEF Init, Contract!Init

LEMMA NextRefines ==
  ASSUME IInv, [Next]_vars
  PROVE  [Contract!Next]_Contract!vars
  <1>1. CASE UNCHANGED vars
    <2>1. TypeInv /\ main' = main /\ prev' = prev /\ handed' = handed /\ acked' = acked
      BY <1>1 DEF vars, IInv
    <2>2. \A f \in Files : Read(f)' = Read(f)
      BY <2>1 DEF Read
    <2>3. QED
      BY <2>1, <2>2, StudyKept DEF Contract!vars
  <1>2. CASE Next
    BY <1>2, QuietRefines, UnlinkRefines, PublishRefines, ResumeRefines, RetryRefines,
       ReturnRefines DEF Next, FileStep
  <1>3. QED
    BY <1>1, <1>2

\* Seen through recovery, the directory is an atomic study workspace: a call
\* takes effect at one rename or not at all, wherever it is interrupted.
THEOREM WorkspaceImplementsContract ==
  ASSUME ~RetainsHandle
  PROVE  Spec => ImplementsContract
  <1>1. IInv /\ [Next]_vars => [Contract!Next]_Contract!vars
    BY NextRefines
  <1>2. QED
    BY WorkspaceInvariant, InitRefines, <1>1, PTL
    DEF ImplementsContract, Contract!Spec, Spec

\* The recovered study never loses a variant or an evaluation and never goes back to an
\* earlier revision, at no file step, crash, I/O error or recovery (workspace.rs).
THEOREM WorkspaceOnlyGrows ==
  ASSUME ~RetainsHandle
  PROVE  Spec => StudyOnlyGrows
  <1> DEFINE Grows == StudyLedger # Absent =>
               /\ StudyLedger.variants \subseteq StudyLedger'.variants
               /\ StudyLedger.evaluations \subseteq StudyLedger'.evaluations
               /\ StudyCheckpoint'.revision \in
                    {StudyCheckpoint.revision, StudyCheckpoint.revision + 1}
  <1>1. ASSUME NEW created \in Times, Contract!Begin(created) PROVE Grows
    BY <1>1, SameFunctions
    DEF Contract!Begin, Contract!Install, BeginTransaction
  <1>2. ASSUME NEW b \in BatchIds, NEW rows \in Submissions, Contract!Commit(b, rows)
        PROVE  Grows
    BY <1>2, SameFunctions
    DEF Contract!Commit, Contract!Install, CommitTransaction
  <1>3. ASSUME IInv, [Next]_vars PROVE Grows
    <2>1. [Contract!Next]_Contract!vars
      BY <1>3, NextRefines
    <2>2. CASE UNCHANGED Contract!vars
      BY <2>2 DEF Contract!vars
    <2>3. CASE Contract!Create
      BY <2>3 DEF Contract!Create
    <2>4. CASE \E b \in BatchIds : \/ Contract!HandOut(b)
                                   \/ \E rows \in Submissions : Contract!Acknowledge(b, rows)
      BY <2>4 DEF Contract!HandOut, Contract!Acknowledge
    <2>5. QED
      BY <1>1, <1>2, <2>1, <2>2, <2>3, <2>4, SameFunctions DEF Contract!Next
  <1>4. IInv /\ [Next]_vars => [Grows]_vars
    BY <1>3
  <1>5. QED
    BY WorkspaceInvariant, <1>4, PTL DEF Spec, StudyOnlyGrows

-----------------------------------------------------------------------------
(* What the contract keeps, the directory keeps.                           *)

\* The study a recovery would find is a good one: what was handed out and what was
\* acknowledged, whatever became of the process since, is in it.
RecoveredStudy ==
  GoodStudy(StudyLedger, StudyCheckpoint, StudyBatches, handed,
            {[batch |-> a.batch, rows |-> a.rows] : a \in acked})

LEMMA ContractStepKeepsStudy ==
  ASSUME RecoveredStudy, [Contract!Next]_Contract!vars
  PROVE  RecoveredStudy'
  <1> DEFINE acks == {[batch |-> a.batch, rows |-> a.rows] : a \in acked}
  <1>1. GoodStudy(StudyLedger, StudyCheckpoint, StudyBatches, handed, acks)
    BY DEF RecoveredStudy
  <1>2. GoodStudy(StudyLedger', StudyCheckpoint', StudyBatches', handed', acks') =>
          RecoveredStudy'
    BY DEF RecoveredStudy
  <1>3. CASE UNCHANGED Contract!vars
    BY <1>1, <1>2, <1>3 DEF Contract!vars
  <1>4. CASE Contract!Create
    BY <1>1, <1>2, <1>4, NewStudy, SameFunctions DEF Contract!Create
  <1>5. ASSUME NEW created \in Times, Contract!Begin(created) PROVE RecoveredStudy'
    <2> DEFINE t == BeginTransaction(StudyLedger, StudyCheckpoint, created)
    <2>1. /\ StudyLedger # Absent /\ StudyCheckpoint.active = 0
          /\ StudyCheckpoint.revision < MaxRevision
          /\ CanBegin(StudyLedger, StudyCheckpoint)
          /\ Contract!Install(t)
      BY <1>5, SameFunctions DEF Contract!Begin
    <2>2. /\ ValidTransaction(t)
          /\ StudyLedger' = t.ledger /\ StudyCheckpoint' = t.checkpoint
          /\ StudyBatches' = [StudyBatches EXCEPT ![t.batch.id] = t.batch]
          /\ handed' = handed /\ acks' = acks
      BY <2>1, SameFunctions DEF Contract!Install
    <2> HIDE DEF acks
    <2>3. GoodStudy(t.ledger, t.checkpoint,
                    [StudyBatches EXCEPT ![t.batch.id] = t.batch], handed, acks)
      BY <1>1, <2>1, <2>2, BegunStudy
    <2>4. QED
      BY <1>2, <2>2, <2>3
  <1>6. ASSUME NEW b \in BatchIds, NEW rows \in Submissions, Contract!Commit(b, rows)
        PROVE  RecoveredStudy'
    <2> DEFINE t == CommitTransaction(StudyLedger, StudyCheckpoint, StudyBatches[b], rows)
    <2>1. /\ StudyLedger # Absent
          /\ StudyBatches[b] # Absent /\ StudyBatches[b].status = "pending"
          /\ Accepts(StudyLedger, StudyCheckpoint, StudyBatches[b], rows)
          /\ Contract!Install(t)
      BY <1>6, SameFunctions DEF Contract!Commit
    <2>2. /\ ValidTransaction(t)
          /\ StudyLedger' = t.ledger /\ StudyCheckpoint' = t.checkpoint
          /\ StudyBatches' = [StudyBatches EXCEPT ![t.batch.id] = t.batch]
          /\ handed' = handed /\ acks' = acks
      BY <2>1, SameFunctions DEF Contract!Install
    <2> HIDE DEF acks
    <2>3. GoodStudy(t.ledger, t.checkpoint,
                    [StudyBatches EXCEPT ![t.batch.id] = t.batch], handed, acks)
      BY <1>1, <2>1, <2>2, CommittedStudy
    <2>4. QED
      BY <1>2, <2>2, <2>3
  <1>7. ASSUME NEW b \in BatchIds, Contract!HandOut(b) PROVE RecoveredStudy'
    <2>1. /\ StudyLedger # Absent /\ StudyCheckpoint.active = b /\ StudyBatches[b] # Absent
          /\ handed' = handed \cup {StudyBatches[b]}
          /\ StudyLedger' = StudyLedger /\ StudyCheckpoint' = StudyCheckpoint
          /\ StudyBatches' = StudyBatches /\ acks' = acks
      BY <1>7 DEF Contract!HandOut
    <2> HIDE DEF acks
    <2>2. GoodStudy(StudyLedger, StudyCheckpoint, StudyBatches,
                    handed \cup {StudyBatches[b]}, acks)
      BY <1>1, <2>1, HandedOutStudy
    <2>3. QED
      BY <1>2, <2>1, <2>2
  <1>8. ASSUME NEW b \in BatchIds, NEW rows \in Submissions, Contract!Acknowledge(b, rows)
        PROVE  RecoveredStudy'
    <2>1. /\ StudyBatches[b] # Absent /\ StudyBatches[b].status = "completed"
          /\ StudyBatches[b].evaluations = rows
          /\ acks' = acks \cup {[batch |-> b, rows |-> rows]}
          /\ StudyLedger' = StudyLedger /\ StudyCheckpoint' = StudyCheckpoint
          /\ StudyBatches' = StudyBatches /\ handed' = handed
      BY <1>8 DEF Contract!Acknowledge
    <2> HIDE DEF acks
    <2>2. GoodStudy(StudyLedger, StudyCheckpoint, StudyBatches, handed,
                    acks \cup {[batch |-> b, rows |-> rows]})
      BY <1>1, <2>1, AcknowledgedStudy
    <2>3. QED
      BY <1>2, <2>1, <2>2
  <1>9. QED
    BY <1>3, <1>4, <1>5, <1>6, <1>7, <1>8, SameFunctions DEF Contract!Next

\* The invariant of the contract, of the study the directory stands for.
LEMMA WorkspaceStudy ==
  ASSUME ~RetainsHandle
  PROVE  Spec => []RecoveredStudy
  <1>1. Init => RecoveredStudy
    <2> SUFFICES ASSUME Init PROVE RecoveredStudy
      OBVIOUS
    <2>1. /\ StudyLedger = Absent /\ StudyCheckpoint = Absent
          /\ StudyBatches = [b \in BatchIds |-> Absent] /\ handed = {}
          /\ {[batch |-> a.batch, rows |-> a.rows] : a \in acked} = {}
      BY InitRefines, SameFunctions DEF Contract!Init
    <2>2. QED
      BY <2>1, NewStudy DEF RecoveredStudy
  <1>2. IInv /\ RecoveredStudy /\ [Next]_vars => RecoveredStudy'
    BY NextRefines, ContractStepKeepsStudy
  <1>3. QED
    BY WorkspaceInvariant, <1>1, <1>2, PTL DEF Spec

\* The contract states its promises with the same functions.
LEMMA SameStatements ==
  /\ \A S : Contract!Ids(S) = Ids(S) /\ Contract!Cardinality(S) = Cardinality(S)
  /\ \A f : Contract!Range(f) = Range(f)
  BY DEF Contract!Ids, Ids, Contract!Range, Range, Contract!Cardinality, Cardinality,
         Contract!IsFiniteSet, IsFiniteSet

\* No candidate leaves the engine before it, its batch and the optimizer state behind
\* it are durable, and none of it is ever replaced (begin_batch, install_transaction,
\* recover, workspace.rs).
THEOREM WorkspaceKeepsHandedOut ==
  ASSUME ~RetainsHandle
  PROVE  Spec => []HandedOutIsDurable
  <1>1. RecoveredStudy => HandedOutIsDurable
    BY DEF RecoveredStudy, GoodStudy, HandedOutKept, HandedOutIsDurable,
           Contract!HandedOutIsDurable
  <1>2. QED
    BY WorkspaceStudy, <1>1, PTL

\* No crash, I/O error, recovery or retry undoes or alters an acknowledged commit
\* (commit_batch, recover, workspace.rs).
THEOREM WorkspaceKeepsAcknowledged ==
  ASSUME ~RetainsHandle
  PROVE  Spec => []AcknowledgedIsDurable
  <1>1. RecoveredStudy => AcknowledgedIsDurable
    BY SameStatements
    DEF RecoveredStudy, GoodStudy, AcknowledgedKept, AcknowledgedIsDurable,
        Contract!AcknowledgedIsDurable
  <1>2. QED
    BY WorkspaceStudy, <1>1, PTL

\* Optimizer checkpoint and ledger, two files, describe the same study at every crash
\* point (install_transaction, recover, workspace.rs).
THEOREM WorkspaceMatchesLedger ==
  ASSUME ~RetainsHandle
  PROVE  Spec => []OptimizerMatchesLedger
  <1>1. RecoveredStudy => OptimizerMatchesLedger
    BY SameStatements
    DEF RecoveredStudy, GoodStudy, OptimizerMatches, OptimizerMatchesLedger,
        Contract!OptimizerMatchesLedger
  <1>2. QED
    BY WorkspaceStudy, <1>1, PTL

\* A begin that is repeated after any number of crashes returns the same envelope, and
\* no candidate id is ever issued twice (begin_batch, workspace.rs).
THEOREM WorkspaceResumesExactly ==
  ASSUME ~RetainsHandle
  PROVE  Spec => []ResumedExactly
  <1>1. RecoveredStudy => ResumedExactly
    BY GoodStudyResumes, SameStatements
    DEF RecoveredStudy, ResumesExactly, ResumedExactly, Contract!ResumedExactly
  <1>2. QED
    BY WorkspaceStudy, <1>1, PTL

=============================================================================
