---------------------------- MODULE Scenes_proofs ----------------------------
(***************************************************************************)
(* The scenes of the engine, for any number of threads, handles and edits,  *)
(* and of occurrences, meshes and transactions of any length.               *)
(*                                                                          *)
(* Around a scene: the table of scenes keeps every acknowledged edit and no *)
(* released handle.                                                         *)
(*                                                                          *)
(* Inside it: its queries see every occurrence however its hierarchies came *)
(* about, no hierarchy is refitted too often, and what a transaction        *)
(* reports is true.  The argument: a layer whose topology a transaction did *)
(* not mark has the occurrences it had, in their order: some increasing map *)
(* takes each to its new index.  The stable sort of compile_scene undoes    *)
(* whatever shifted them, so that the indices the old hierarchy stores mean *)
(* what they meant.                                                         *)
(***************************************************************************)
EXTENDS SceneRegistry, SceneLifecycle, FiniteSetTheorems, SequenceTheorems, TLAPS

-----------------------------------------------------------------------------
(* The table of scenes.                                                    *)

\* A handle that was not handed out yet has no slot and no history.
FreshHandles ==
  \A h \in Handles : h >= nextHandle => slots[h] = Vacant /\ serial[h] = Empty

\* The builder a build took is the only trace of its handle.
BuildsHoldTheScene ==
  \A t \in Threads :
    InFlight(t, "build") =>
      /\ slots[call[t].handle] = Vacant
      /\ call[t].handle \notin released
      /\ call[t].content = serial[call[t].handle]
      /\ \A u \in Threads : InFlight(u, "build") /\ call[u].handle = call[t].handle => u = t

\* The snapshot an update read is current until an edit is acknowledged.
UpdatesKnowTheirAge ==
  \A t \in Threads :
    InFlight(t, "update") =>
      /\ Is(call[t].handle, "ready") \/ call[t].handle \in released
      /\ edits[call[t].handle] >= call[t].edits
      /\ Is(call[t].handle, "ready") /\ edits[call[t].handle] = call[t].edits =>
           slots[call[t].handle].content = call[t].content

ReleasedSlots == \A h \in released : slots[h] = Vacant

HandlesInv ==
  /\ RegistryTypeOK
  /\ FreshHandles
  /\ SerialUpdates
  /\ BuildsHoldTheScene
  /\ UpdatesKnowTheirAge
  /\ ReleasedSlots

-----------------------------------------------------------------------------

LEMMA EmptyContent == Empty \in Contents
  BY DEF Empty, Contents

LEMMA ApplyContent ==
  ASSUME NEW content \in Contents, NEW edit \in Edits
  PROVE  Apply(content, edit) \in Contents
  <1>1. PICK S \in SUBSET Occurrences : content \in [S -> Values]
    BY DEF Contents
  <1>2. CASE edit.value = Vacant
    <2>1. Apply(content, edit) \in [S \ {edit.occurrence} -> Values]
      BY <1>1, <1>2 DEF Apply
    <2>2. QED
      BY <2>1 DEF Contents
  <1>3. CASE edit.value # Vacant
    <2>1. edit.occurrence \in Occurrences /\ edit.value \in Values
      BY <1>3 DEF Edits
    <2>2. Apply(content, edit) \in [S \cup {edit.occurrence} -> Values]
      BY <1>1, <1>3, <2>1 DEF Apply
    <2>3. QED
      BY <2>1, <2>2 DEF Contents
  <1>4. QED
    BY <1>2, <1>3

LEMMA SlotShape == Vacant \notin Slots /\ Vacant \notin Calls
  BY VacantAssumption

LEMMA HandleInitInv == RegistryInit => HandlesInv
  <1> SUFFICES ASSUME RegistryInit PROVE HandlesInv
    OBVIOUS
  <1>1. RegistryTypeOK
    BY EmptyContent, BoundAssumption DEF RegistryInit, RegistryTypeOK, Handles, Idle
  <1>2. QED
    BY <1>1
    DEF RegistryInit, HandlesInv, FreshHandles, SerialUpdates, BuildsHoldTheScene, UpdatesKnowTheirAge,
        ReleasedSlots, InFlight, Idle

LEMMA CreateInv ==
  ASSUME HandlesInv, NEW t \in Threads, Create(t)
  PROVE  HandlesInv'
  <1> USE EmptyContent, ApplyContent, SlotShape, BoundAssumption
      DEF HandlesInv, Create, Idle, Enter, Leave, Is, Acknowledge, InFlight
  <1>1. RegistryTypeOK'
    <2>1. nextHandle' \in 1..(MaxHandles + 1) /\ nextHandle \in Handles
      BY DEF RegistryTypeOK, Handles
    <2>2. Building(Empty) \in Slots
      BY DEF Slots, Building
    <2>3. slots' \in [Handles -> Slots \cup {Vacant}]
      BY <2>1, <2>2 DEF RegistryTypeOK
    <2>4. \A u \in Threads : ~Idle(u)' => call[u].handle < nextHandle'
      BY DEF RegistryTypeOK, Calls, Handles
    <2>5. QED
      BY <2>1, <2>3, <2>4 DEF RegistryTypeOK
  <1>2. FreshHandles'
    BY DEF RegistryTypeOK, FreshHandles, Handles, Slots, Calls
  <1>3. SerialUpdates'
    BY DEF RegistryTypeOK, SerialUpdates, FreshHandles, BuildsHoldTheScene, Slots, Calls, Building, Ready, Handles
  <1>4. BuildsHoldTheScene'
    BY DEF RegistryTypeOK, BuildsHoldTheScene, SerialUpdates, ReleasedSlots, FreshHandles, Slots, Calls, Handles
  <1>5. UpdatesKnowTheirAge'
    BY DEF RegistryTypeOK, UpdatesKnowTheirAge, ReleasedSlots, FreshHandles, Slots, Calls, Building, Ready, Handles
  <1>6. ReleasedSlots'
    BY DEF RegistryTypeOK, ReleasedSlots, BuildsHoldTheScene, FreshHandles, Slots, Calls, Handles
  <1>7. QED
    BY <1>1, <1>2, <1>3, <1>4, <1>5, <1>6

LEMMA FillInv ==
  ASSUME HandlesInv, NEW t \in Threads, NEW handle \in Handles, Fill(t, handle)
  PROVE  HandlesInv'
  <1> USE EmptyContent, ApplyContent, SlotShape, BoundAssumption
      DEF HandlesInv, Fill, Idle, Enter, Leave, Is, Acknowledge, InFlight
  <1>1. RegistryTypeOK'
    <2>1. PICK o \in Occurrences \ DOMAIN slots[handle].content, v \in Values :
            LET edit == [occurrence |-> o, value |-> v]
            IN  /\ slots' = [slots EXCEPT ![handle].content = Apply(@, edit)]
                /\ Acknowledge(handle, edit)
      OBVIOUS
    <2> DEFINE edit == [occurrence |-> o, value |-> v]
    <2>2. edit \in Edits /\ slots[handle] \in Slots /\ serial[handle] \in Contents
      BY DEF RegistryTypeOK, Edits
    <2>3. /\ Apply(slots[handle].content, edit) \in Contents
          /\ Apply(serial[handle], edit) \in Contents
      BY <2>2 DEF Slots
    <2> HIDE DEF edit
    <2>4. slots' \in [Handles -> Slots \cup {Vacant}]
      BY <2>1, <2>2, <2>3 DEF RegistryTypeOK, Slots, edit
    <2>5. edits' \in [Handles -> Nat] /\ serial' \in [Handles -> Contents]
      BY <2>1, <2>3 DEF RegistryTypeOK, edit
    <2>6. QED
      BY <2>4, <2>5 DEF RegistryTypeOK
  <1>2. FreshHandles'
    BY DEF RegistryTypeOK, FreshHandles, Handles, Slots, Calls
  <1>3. SerialUpdates'
    BY DEF RegistryTypeOK, SerialUpdates, FreshHandles, BuildsHoldTheScene, Slots, Calls, Building, Ready, Handles
  <1>4. BuildsHoldTheScene'
    BY DEF RegistryTypeOK, BuildsHoldTheScene, SerialUpdates, ReleasedSlots, FreshHandles, Slots, Calls, Handles
  <1>5. UpdatesKnowTheirAge'
    BY DEF RegistryTypeOK, UpdatesKnowTheirAge, ReleasedSlots, FreshHandles, Slots, Calls, Building, Ready, Handles
  <1>6. ReleasedSlots'
    BY DEF RegistryTypeOK, ReleasedSlots, BuildsHoldTheScene, FreshHandles, Slots, Calls, Handles
  <1>7. QED
    BY <1>1, <1>2, <1>3, <1>4, <1>5, <1>6

LEMMA TakeBuilderInv ==
  ASSUME HandlesInv, NEW t \in Threads, NEW handle \in Handles, TakeBuilder(t, handle)
  PROVE  HandlesInv'
  <1> USE EmptyContent, ApplyContent, SlotShape, BoundAssumption
      DEF HandlesInv, TakeBuilder, Idle, Enter, Leave, Is, Acknowledge, InFlight
  <1>1. RegistryTypeOK'
    <2>1. /\ slots[handle] \in Slots /\ handle < nextHandle /\ handle \in Int
      BY DEF RegistryTypeOK, FreshHandles, Handles
    <2>2. [op |-> "build", handle |-> handle, content |-> slots[handle].content] \in Calls
      BY <2>1 DEF Slots, Calls
    <2>3. call' \in [Threads -> Calls \cup {Vacant}]
      BY <2>2 DEF RegistryTypeOK
    <2>4. slots' \in [Handles -> Slots \cup {Vacant}]
      BY DEF RegistryTypeOK
    <2>5. \A u \in Threads : ~Idle(u)' => call'[u].handle < nextHandle'
      BY <2>1 DEF RegistryTypeOK
    <2>6. QED
      BY <2>3, <2>4, <2>5 DEF RegistryTypeOK
  <1>2. FreshHandles'
    BY DEF RegistryTypeOK, FreshHandles, Handles, Slots, Calls
  <1>3. SerialUpdates'
    BY DEF RegistryTypeOK, SerialUpdates, FreshHandles, BuildsHoldTheScene, Slots, Calls, Building, Ready, Handles
  <1>4. BuildsHoldTheScene'
    BY DEF RegistryTypeOK, BuildsHoldTheScene, SerialUpdates, ReleasedSlots, FreshHandles, Slots, Calls, Handles
  <1>5. UpdatesKnowTheirAge'
    BY DEF RegistryTypeOK, UpdatesKnowTheirAge, ReleasedSlots, FreshHandles, Slots, Calls, Building, Ready, Handles
  <1>6. ReleasedSlots'
    BY DEF RegistryTypeOK, ReleasedSlots, BuildsHoldTheScene, FreshHandles, Slots, Calls, Handles
  <1>7. QED
    BY <1>1, <1>2, <1>3, <1>4, <1>5, <1>6

LEMMA PublishBuildInv ==
  ASSUME HandlesInv, NEW t \in Threads, PublishBuild(t)
  PROVE  HandlesInv'
  <1> USE EmptyContent, ApplyContent, SlotShape, BoundAssumption
      DEF HandlesInv, PublishBuild, Idle, Enter, Leave, Is, Acknowledge, InFlight
  <1>1. RegistryTypeOK'
    BY DEF RegistryTypeOK, Handles, Slots, Calls, Building, Ready
  <1>2. FreshHandles'
    BY DEF RegistryTypeOK, FreshHandles, Handles, Slots, Calls
  <1>3. SerialUpdates'
    BY DEF RegistryTypeOK, SerialUpdates, FreshHandles, BuildsHoldTheScene, Slots, Calls, Building, Ready, Handles
  <1>4. BuildsHoldTheScene'
    BY DEF RegistryTypeOK, BuildsHoldTheScene, SerialUpdates, ReleasedSlots, FreshHandles, Slots, Calls, Handles
  <1>5. UpdatesKnowTheirAge'
    BY DEF RegistryTypeOK, UpdatesKnowTheirAge, BuildsHoldTheScene, FreshHandles, Slots, Calls, Building, Ready, Handles
  <1>6. ReleasedSlots'
    BY DEF RegistryTypeOK, ReleasedSlots, BuildsHoldTheScene, FreshHandles, Slots, Calls, Handles
  <1>7. QED
    BY <1>1, <1>2, <1>3, <1>4, <1>5, <1>6

LEMMA FailBuildInv ==
  ASSUME HandlesInv, NEW t \in Threads, FailBuild(t)
  PROVE  HandlesInv'
  <1> USE EmptyContent, ApplyContent, SlotShape, BoundAssumption
      DEF HandlesInv, FailBuild, Idle, Enter, Leave, Is, Acknowledge, InFlight
  <1>1. RegistryTypeOK'
    BY DEF RegistryTypeOK, Handles, Slots, Calls, Building, Ready
  <1>2. FreshHandles'
    BY DEF RegistryTypeOK, FreshHandles, Handles, Slots, Calls
  <1>3. SerialUpdates'
    BY DEF RegistryTypeOK, SerialUpdates, FreshHandles, BuildsHoldTheScene, Slots, Calls, Building, Ready, Handles
  <1>4. BuildsHoldTheScene'
    BY DEF RegistryTypeOK, BuildsHoldTheScene, SerialUpdates, ReleasedSlots, FreshHandles, Slots, Calls, Handles
  <1>5. UpdatesKnowTheirAge'
    BY DEF RegistryTypeOK, UpdatesKnowTheirAge, ReleasedSlots, FreshHandles, Slots, Calls, Building, Ready, Handles
  <1>6. ReleasedSlots'
    BY DEF RegistryTypeOK, ReleasedSlots, BuildsHoldTheScene, FreshHandles, Slots, Calls, Handles
  <1>7. QED
    BY <1>1, <1>2, <1>3, <1>4, <1>5, <1>6

LEMMA ReadForUpdateInv ==
  ASSUME HandlesInv, NEW t \in Threads, NEW handle \in Handles, ReadForUpdate(t, handle)
  PROVE  HandlesInv'
  <1> USE EmptyContent, ApplyContent, SlotShape, BoundAssumption
      DEF HandlesInv, ReadForUpdate, Idle, Enter, Leave, Is, Acknowledge, InFlight
  <1>1. RegistryTypeOK'
    <2>1. /\ slots[handle] \in Slots /\ handle < nextHandle /\ edits[handle] \in Nat
      BY DEF RegistryTypeOK, FreshHandles, Handles
    <2>2. PICK edit \in Edits :
            call' = [call EXCEPT ![t] =
                       [op |-> "update", handle |-> handle, edit |-> edit,
                        content |-> slots[handle].content, edits |-> edits[handle]]]
      OBVIOUS
    <2>3. [op |-> "update", handle |-> handle, edit |-> edit,
           content |-> slots[handle].content, edits |-> edits[handle]] \in Calls
      BY <2>1 DEF Slots, Calls
    <2>4. call' \in [Threads -> Calls \cup {Vacant}]
      BY <2>2, <2>3 DEF RegistryTypeOK
    <2>5. \A u \in Threads : ~Idle(u)' => call'[u].handle < nextHandle'
      BY <2>1, <2>2 DEF RegistryTypeOK
    <2>6. QED
      BY <2>4, <2>5 DEF RegistryTypeOK
  <1>2. FreshHandles'
    BY DEF RegistryTypeOK, FreshHandles, Handles, Slots, Calls
  <1>3. SerialUpdates'
    BY DEF RegistryTypeOK, SerialUpdates, FreshHandles, BuildsHoldTheScene, Slots, Calls, Building, Ready, Handles
  <1>4. BuildsHoldTheScene'
    BY DEF RegistryTypeOK, BuildsHoldTheScene, SerialUpdates, ReleasedSlots, FreshHandles, Slots, Calls, Handles
  <1>5. UpdatesKnowTheirAge'
    BY DEF RegistryTypeOK, UpdatesKnowTheirAge, ReleasedSlots, FreshHandles, Slots, Calls, Building, Ready, Handles
  <1>6. ReleasedSlots'
    BY DEF RegistryTypeOK, ReleasedSlots, BuildsHoldTheScene, FreshHandles, Slots, Calls, Handles
  <1>7. QED
    BY <1>1, <1>2, <1>3, <1>4, <1>5, <1>6

LEMMA PublishUpdateInv ==
  ASSUME HandlesInv, NEW t \in Threads, PublishUpdate(t)
  PROVE  HandlesInv'
  <1> USE EmptyContent, ApplyContent, SlotShape, BoundAssumption
      DEF HandlesInv, PublishUpdate, Publishable, Idle, Enter, Leave, Is, Acknowledge, InFlight
  <1>1. RegistryTypeOK'
    BY DEF RegistryTypeOK, Handles, Slots, Calls, Building, Ready
  <1>2. FreshHandles'
    BY DEF RegistryTypeOK, FreshHandles, Handles, Slots, Calls
  <1>3. SerialUpdates'
    BY DEF RegistryTypeOK, SerialUpdates, FreshHandles, BuildsHoldTheScene, Slots, Calls, Building, Ready, Handles
  <1>4. BuildsHoldTheScene'
    BY DEF RegistryTypeOK, BuildsHoldTheScene, SerialUpdates, ReleasedSlots, FreshHandles, Slots, Calls, Handles
  <1>5. UpdatesKnowTheirAge'
    BY DEF RegistryTypeOK, UpdatesKnowTheirAge, ReleasedSlots, FreshHandles, Slots, Calls, Building, Ready, Handles
  <1>6. ReleasedSlots'
    BY DEF RegistryTypeOK, ReleasedSlots, BuildsHoldTheScene, FreshHandles, Slots, Calls, Handles
  <1>7. QED
    BY <1>1, <1>2, <1>3, <1>4, <1>5, <1>6

LEMMA RefuseUpdateInv ==
  ASSUME HandlesInv, NEW t \in Threads, RefuseUpdate(t)
  PROVE  HandlesInv'
  <1> USE EmptyContent, ApplyContent, SlotShape, BoundAssumption
      DEF HandlesInv, RefuseUpdate, Idle, Enter, Leave, Is, Acknowledge, InFlight
  <1>1. RegistryTypeOK'
    BY DEF RegistryTypeOK, Handles, Slots, Calls, Building, Ready
  <1>2. FreshHandles'
    BY DEF RegistryTypeOK, FreshHandles, Handles, Slots, Calls
  <1>3. SerialUpdates'
    BY DEF RegistryTypeOK, SerialUpdates, FreshHandles, BuildsHoldTheScene, Slots, Calls, Building, Ready, Handles
  <1>4. BuildsHoldTheScene'
    BY DEF RegistryTypeOK, BuildsHoldTheScene, SerialUpdates, ReleasedSlots, FreshHandles, Slots, Calls, Handles
  <1>5. UpdatesKnowTheirAge'
    BY DEF RegistryTypeOK, UpdatesKnowTheirAge, ReleasedSlots, FreshHandles, Slots, Calls, Building, Ready, Handles
  <1>6. ReleasedSlots'
    BY DEF RegistryTypeOK, ReleasedSlots, BuildsHoldTheScene, FreshHandles, Slots, Calls, Handles
  <1>7. QED
    BY <1>1, <1>2, <1>3, <1>4, <1>5, <1>6

LEMMA ReleaseInv ==
  ASSUME HandlesInv, NEW t \in Threads, NEW handle \in Handles, Release(t, handle)
  PROVE  HandlesInv'
  <1> USE EmptyContent, ApplyContent, SlotShape, BoundAssumption
      DEF HandlesInv, Release, Idle, Enter, Leave, Is, Acknowledge, InFlight
  <1>1. RegistryTypeOK'
    <2>1. handle \in 1..(nextHandle - 1)
      BY DEF RegistryTypeOK, FreshHandles, Handles
    <2>2. released' \subseteq 1..(nextHandle - 1)
      BY <2>1 DEF RegistryTypeOK
    <2>3. slots' \in [Handles -> Slots \cup {Vacant}]
      BY DEF RegistryTypeOK
    <2>4. QED
      BY <2>2, <2>3 DEF RegistryTypeOK
  <1>2. FreshHandles'
    BY DEF RegistryTypeOK, FreshHandles, Handles, Slots, Calls
  <1>3. SerialUpdates'
    BY DEF RegistryTypeOK, SerialUpdates, FreshHandles, BuildsHoldTheScene, Slots, Calls, Building, Ready, Handles
  <1>4. BuildsHoldTheScene'
    BY DEF RegistryTypeOK, BuildsHoldTheScene, SerialUpdates, ReleasedSlots, FreshHandles, Slots, Calls, Handles
  <1>5. UpdatesKnowTheirAge'
    BY DEF RegistryTypeOK, UpdatesKnowTheirAge, ReleasedSlots, FreshHandles, Slots, Calls, Building, Ready, Handles
  <1>6. ReleasedSlots'
    BY DEF RegistryTypeOK, ReleasedSlots, BuildsHoldTheScene, FreshHandles, Slots, Calls, Handles
  <1>7. QED
    BY <1>1, <1>2, <1>3, <1>4, <1>5, <1>6

-----------------------------------------------------------------------------

LEMMA HandleStepInv == HandlesInv /\ [RegistryNext]_registryVars => HandlesInv'
  <1> SUFFICES ASSUME HandlesInv, [RegistryNext]_registryVars PROVE HandlesInv'
    OBVIOUS
  <1>1. CASE UNCHANGED registryVars
    BY <1>1
    DEF registryVars, HandlesInv, RegistryTypeOK, FreshHandles, SerialUpdates, BuildsHoldTheScene,
        UpdatesKnowTheirAge, ReleasedSlots, InFlight, Idle, Is
  <1>2. ASSUME NEW t \in Threads, Create(t) PROVE HandlesInv'
    BY <1>2, CreateInv
  <1>3. ASSUME NEW t \in Threads, NEW handle \in Handles, CallOn(t, handle) PROVE HandlesInv'
    BY <1>3, FillInv, TakeBuilderInv, ReadForUpdateInv, ReleaseInv DEF CallOn
  <1>4. ASSUME NEW t \in Threads, Return(t) PROVE HandlesInv'
    BY <1>4, PublishBuildInv, FailBuildInv, PublishUpdateInv, RefuseUpdateInv DEF Return
  <1>5. QED
    BY <1>1, <1>2, <1>3, <1>4 DEF RegistryNext

\* The inductive invariant: what overlapping calls know of a handle while the
\* lock is free (scene.rs, the critical sections of build and update).
THEOREM RegistryInvariant == RegistrySpec => []HandlesInv
  BY HandleInitInv, HandleStepInv, PTL DEF RegistrySpec

\* No acknowledged edit is lost or applied twice, for any number of threads.
THEOREM UpdatesAreSerial == RegistrySpec => []SerialUpdates
  <1>1. HandlesInv => SerialUpdates
    BY DEF HandlesInv
  <1>2. QED
    BY <1>1, RegistryInvariant, PTL

\* A released handle is never valid again.
THEOREM ReleaseIsFinal == RegistrySpec => []ReleasedStaysReleased
  <1>1. HandlesInv => ReleasedStaysReleased
    BY DEF HandlesInv, ReleasedSlots, BuildsHoldTheScene, ReleasedStaysReleased
  <1>2. QED
    BY <1>1, RegistryInvariant, PTL

\* An update is refused only because another one went through or the handle
\* was released.
THEOREM RefusalsAreConflicts == RegistrySpec => OnlyRealConflicts
  <1> DEFINE Real(t) ==
        InFlight(t, "update") /\ call'[t] = Vacant /\ edits' = edits =>
          edits[call[t].handle] > call[t].edits \/ call[t].handle \in released
  <1>1. ASSUME HandlesInv, [RegistryNext]_registryVars, NEW t \in Threads PROVE Real(t)
    <2> SUFFICES ASSUME InFlight(t, "update"), call'[t] = Vacant, edits' = edits
                 PROVE  edits[call[t].handle] > call[t].edits \/ call[t].handle \in released
      OBVIOUS
    <2>1. /\ call \in [Threads -> Calls \cup {Vacant}]
          /\ edits \in [Handles -> Nat]
          /\ call[t].edits \in Nat /\ call[t].handle \in Handles
      BY <1>1 DEF HandlesInv, RegistryTypeOK, InFlight, Idle, Calls
    <2>2. \A u \in Threads, h \in Handles : ~Create(u) /\ ~CallOn(u, h)
      BY <2>1, SlotShape
      DEF Create, CallOn, Fill, TakeBuilder, ReadForUpdate, Release, Enter, Idle, InFlight,
          Acknowledge, Is
    <2>3. RefuseUpdate(t)
      BY <1>1, <2>1, <2>2
      DEF RegistryNext, Return, registryVars, PublishBuild, FailBuild, PublishUpdate, RefuseUpdate, Leave,
          InFlight, Idle, Acknowledge
    <2>4. QED
      BY <1>1, <2>1, <2>3
      DEF RefuseUpdate, Conflicting, HandlesInv, UpdatesKnowTheirAge, InFlight, Is
  <1>2. HandlesInv /\ [RegistryNext]_registryVars => [\A t \in Threads : Real(t)]_registryVars
    BY <1>1
  <1>3. QED
    BY <1>2, RegistryInvariant, PTL DEF RegistrySpec, OnlyRealConflicts

-----------------------------------------------------------------------------
(* The stable sort.                                                        *)

Layered(drafts) ==
  /\ \E n \in Nat : DOMAIN drafts = 1..n
  /\ \A i \in DOMAIN drafts : drafts[i].layer \in Layers

Statics(drafts) == Cardinality(InLayer(drafts, "static"))

\* The occurrences of its layer up to an index, itself included.
Before(drafts, i) == {j \in 1..i : drafts[j].layer = drafts[i].layer}

LEMMA IndicesAreFinite ==
  ASSUME NEW drafts, Layered(drafts)
  PROVE  /\ \A S \in SUBSET DOMAIN drafts : IsFiniteSet(S) /\ Cardinality(S) \in Nat
         /\ \A i \in DOMAIN drafts : 1..i \subseteq DOMAIN drafts
         /\ DOMAIN drafts \subseteq Nat \ {0}
  <1>1. PICK n \in Nat : DOMAIN drafts = 1..n
    BY DEF Layered
  <1>2. IsFiniteSet(1..n)
    BY FS_Interval
  <1>3. QED
    BY <1>1, <1>2, FS_Subset, FS_CardinalityType

LEMMA LayersPartition ==
  ASSUME NEW drafts, Layered(drafts)
  PROVE  Statics(drafts) + Cardinality(InLayer(drafts, "dynamic")) = Cardinality(DOMAIN drafts)
  <1>1. InLayer(drafts, "static") \cup InLayer(drafts, "dynamic") = DOMAIN drafts
    BY DEF InLayer, Layered, Layers
  <1>2. InLayer(drafts, "static") \cap InLayer(drafts, "dynamic") = {}
    BY DEF InLayer
  <1>3. /\ IsFiniteSet(InLayer(drafts, "static")) /\ IsFiniteSet(InLayer(drafts, "dynamic"))
        /\ Cardinality(InLayer(drafts, "static")) \in Nat
        /\ Cardinality(InLayer(drafts, "dynamic")) \in Nat
    BY IndicesAreFinite DEF InLayer
  <1>4. QED
    BY <1>1, <1>2, <1>3, FS_Union, FS_EmptySet DEF Statics

LEMMA PositionRange ==
  ASSUME NEW drafts, Layered(drafts), NEW i \in DOMAIN drafts
  PROVE  /\ Position(drafts, i) \in DOMAIN drafts
         /\ drafts[i].layer = "static" <=> Position(drafts, i) <= Statics(drafts)
         /\ Position(drafts, i) = IF drafts[i].layer = "static" THEN Cardinality(Before(drafts, i))
                                  ELSE Statics(drafts) + Cardinality(Before(drafts, i))
  <1> DEFINE rank == Cardinality(Before(drafts, i))
             layer == drafts[i].layer
  <1>1. PICK n \in Nat : DOMAIN drafts = 1..n
    BY DEF Layered
  <1>2. Before(drafts, i) \subseteq InLayer(drafts, layer) /\ InLayer(drafts, layer) \subseteq DOMAIN drafts
    BY IndicesAreFinite DEF Before, InLayer
  <1>3. i \in Before(drafts, i)
    BY <1>1 DEF Before
  <1>4. /\ IsFiniteSet(Before(drafts, i)) /\ rank \in Nat
        /\ IsFiniteSet(InLayer(drafts, layer)) /\ Cardinality(InLayer(drafts, layer)) \in Nat
    BY <1>2, IndicesAreFinite
  <1>5. rank # 0
    BY <1>3, <1>4, FS_EmptySet
  <1>6. rank <= Cardinality(InLayer(drafts, layer))
    BY <1>2, <1>4, FS_Subset
  <1>7. Cardinality(DOMAIN drafts) = n
    BY <1>1, FS_Interval
  <1>8. Position(drafts, i) = IF layer = "static" THEN rank ELSE Statics(drafts) + rank
    BY DEF Position, Before, Statics
  <1>9. Statics(drafts) \in Nat /\ Cardinality(InLayer(drafts, "dynamic")) \in Nat
    BY IndicesAreFinite DEF Statics, InLayer
  <1>10. layer \in {"static", "dynamic"}
    BY DEF Layered, Layers
  <1> HIDE DEF rank, layer
  <1>11. CASE layer = "static"
    BY <1>1, <1>4, <1>5, <1>6, <1>7, <1>8, <1>9, <1>11, LayersPartition DEF Statics, rank, layer
  <1>12. CASE layer = "dynamic"
    BY <1>1, <1>4, <1>5, <1>6, <1>7, <1>8, <1>9, <1>12, LayersPartition DEF Statics, rank, layer
  <1>13. QED
    BY <1>10, <1>11, <1>12

\* Within a layer the order stays.
LEMMA PositionGrows ==
  ASSUME NEW drafts, Layered(drafts), NEW i \in DOMAIN drafts, NEW j \in DOMAIN drafts,
         i < j, drafts[i].layer = drafts[j].layer
  PROVE  Position(drafts, i) < Position(drafts, j)
  <1>1. i \in Nat /\ j \in Nat
    BY IndicesAreFinite
  <1>2. Before(drafts, i) \subseteq Before(drafts, j) /\ j \in Before(drafts, j) \ Before(drafts, i)
    BY <1>1, IndicesAreFinite DEF Before
  <1>3. Before(drafts, j) \subseteq DOMAIN drafts
    BY IndicesAreFinite DEF Before
  <1>4. IsFiniteSet(Before(drafts, j)) /\ Cardinality(Before(drafts, j)) \in Nat
        /\ Cardinality(Before(drafts, i)) \in Nat
    BY <1>2, <1>3, IndicesAreFinite
  <1>5. Cardinality(Before(drafts, i)) < Cardinality(Before(drafts, j))
    BY <1>2, <1>4, FS_Subset
  <1>6. Statics(drafts) \in Nat
    BY IndicesAreFinite DEF Statics, InLayer
  <1>7. QED
    BY <1>4, <1>5, <1>6, PositionRange

LEMMA PositionIsInjective ==
  ASSUME NEW drafts, Layered(drafts), NEW i \in DOMAIN drafts, NEW j \in DOMAIN drafts,
         Position(drafts, i) = Position(drafts, j)
  PROVE  i = j
  <1>1. i \in Nat /\ j \in Nat /\ Position(drafts, i) \in Nat /\ Position(drafts, j) \in Nat
    BY IndicesAreFinite, PositionRange
  <1>2. drafts[i].layer = drafts[j].layer
    BY PositionRange DEF Layered, Layers
  <1>3. QED
    BY <1>1, <1>2, PositionGrows

LEMMA PositionIsOnto ==
  ASSUME NEW drafts, Layered(drafts), NEW k \in DOMAIN drafts
  PROVE  \E i \in DOMAIN drafts : Position(drafts, i) = k
  <1> DEFINE D == DOMAIN drafts
             p == [i \in D |-> Position(drafts, i)]
  <1>1. p \in Injection(D, D)
    BY PositionRange, PositionIsInjective DEF Injection, IsInjective
  <1>2. IsFiniteSet(D)
    BY IndicesAreFinite
  <1>3. p \in Surjection(D, D)
    BY <1>1, <1>2, FS_Injection
  <1>4. QED
    BY <1>3 DEF Surjection

LEMMA SortMoves ==
  ASSUME NEW drafts, Layered(drafts)
  PROVE  /\ DOMAIN StaticsFirst(drafts) = DOMAIN drafts
         /\ \A i \in DOMAIN drafts : StaticsFirst(drafts)[Position(drafts, i)] = drafts[i]
         /\ \A k \in DOMAIN drafts : \E i \in DOMAIN drafts :
              Position(drafts, i) = k /\ StaticsFirst(drafts)[k] = drafts[i]
  <1>1. ASSUME NEW i \in DOMAIN drafts
        PROVE  StaticsFirst(drafts)[Position(drafts, i)] = drafts[i]
    <2> DEFINE k == Position(drafts, i)
    <2>1. (CHOOSE m \in DOMAIN drafts : Position(drafts, m) = k) = i
      BY PositionIsInjective
    <2>2. k \in DOMAIN drafts
      BY PositionRange
    <2>3. QED
      BY <2>1, <2>2 DEF StaticsFirst
  <1>2. QED
    BY <1>1, PositionIsOnto DEF StaticsFirst

\* Drafts that have been sorted: the static occurrences are the first ones.
Sorted(drafts) ==
  /\ Layered(drafts)
  /\ \A i \in DOMAIN drafts : drafts[i].layer = "static" <=> i <= Statics(drafts)

LEMMA SortSorts ==
  ASSUME NEW drafts, Layered(drafts)
  PROVE  Sorted(StaticsFirst(drafts)) /\ Statics(StaticsFirst(drafts)) = Statics(drafts)
  <1> DEFINE sorted == StaticsFirst(drafts)
             S == InLayer(drafts, "static")
             T == InLayer(sorted, "static")
             p == [i \in S |-> Position(drafts, i)]
  <1>1. Layered(sorted)
    BY SortMoves DEF Layered
  <1>2. \A i \in S : p[i] \in T
    BY SortMoves, PositionRange DEF InLayer
  <1>3. \A k \in T : \E i \in S : p[i] = k
    BY SortMoves DEF InLayer
  <1>4. \A i, j \in S : p[i] = p[j] => i = j
    BY PositionIsInjective DEF InLayer
  <1> HIDE DEF sorted
  <1>5. p \in Bijection(S, T)
    BY <1>2, <1>3, <1>4 DEF Bijection, Injection, Surjection, IsInjective
  <1>6. Cardinality(T) = Cardinality(S)
    BY <1>5, IndicesAreFinite, FS_Bijection DEF ExistsBijection, InLayer
  <1>7. Statics(sorted) = Statics(drafts)
    BY <1>6 DEF Statics
  <1>8. ASSUME NEW k \in DOMAIN sorted
        PROVE  sorted[k].layer = "static" <=> k <= Statics(drafts)
    BY SortMoves, PositionRange DEF sorted
  <1>9. QED
    BY <1>1, <1>7, <1>8 DEF Sorted, sorted

LEMMA SortedStay ==
  ASSUME NEW drafts, Sorted(drafts), NEW i \in DOMAIN drafts
  PROVE  Position(drafts, i) = i
  <1>1. Layered(drafts) /\ i \in Nat \ {0} /\ Statics(drafts) \in Nat
    BY IndicesAreFinite DEF Sorted, Statics, InLayer
  <1>2. \A j \in 1..i : j \in DOMAIN drafts
    BY <1>1, IndicesAreFinite
  <1>3. CASE drafts[i].layer = "static"
    <2>1. i <= Statics(drafts)
      BY <1>3 DEF Sorted
    <2>2. \A j \in 1..i : drafts[j].layer = "static"
      BY <1>1, <1>2, <2>1 DEF Sorted
    <2>3. Before(drafts, i) = 1..i
      BY <1>3, <2>2 DEF Before
    <2>4. Cardinality(Before(drafts, i)) = i
      BY <1>1, <2>3, FS_Interval
    <2>5. QED
      BY <1>1, <1>3, <2>4, PositionRange
  <1>4. CASE drafts[i].layer # "static"
    <2>1. Statics(drafts) < i
      BY <1>1, <1>4 DEF Sorted
    <2>2. \A j \in 1..i : drafts[j].layer = drafts[i].layer <=> Statics(drafts) < j
      BY <1>1, <1>2, <1>4 DEF Sorted, Layered, Layers
    <2>3. Before(drafts, i) = (Statics(drafts) + 1)..i
      BY <1>1, <2>2 DEF Before
    <2>4. Cardinality(Before(drafts, i)) = i - Statics(drafts)
      BY <1>1, <2>1, <2>3, FS_Interval
    <2>5. QED
      BY <1>1, <1>4, <2>4, PositionRange
  <1>5. QED
    BY <1>3, <1>4

-----------------------------------------------------------------------------
(* Occurrences that kept their order.                                      *)

\* Some increasing map takes the occurrences of a layer to those of new drafts.
Follows(old, new, layer, map) ==
  /\ map \in [InLayer(old, layer) -> InLayer(new, layer)]
  /\ \A k \in InLayer(new, layer) : \E i \in InLayer(old, layer) : map[i] = k
  /\ \A i, j \in InLayer(old, layer) : i < j => map[i] < map[j]

\* The sort gives them the indices they had, if those of the dynamic layer have as
\* many static ones before them as they had.
LEMMA FollowersReturn ==
  ASSUME NEW old, Sorted(old), NEW new, Layered(new), NEW layer \in Layers, NEW map,
         Follows(old, new, layer, map),
         layer = "static" \/ Statics(new) = Statics(old),
         NEW i \in InLayer(old, layer)
  PROVE  Position(new, map[i]) = i
  <1> DEFINE A == Before(old, i)
             B == Before(new, map[i])
             f == [j \in A |-> map[j]]
  <1>1. /\ Layered(old) /\ i \in DOMAIN old /\ old[i].layer = layer
        /\ map[i] \in DOMAIN new /\ new[map[i]].layer = layer
    BY DEF Sorted, Follows, InLayer
  <1>2. /\ \A j \in InLayer(old, layer) : j \in Nat /\ map[j] \in InLayer(new, layer)
        /\ \A j \in InLayer(new, layer) : j \in Nat
    BY <1>1, IndicesAreFinite DEF Follows, InLayer
  <1>3. A = {j \in InLayer(old, layer) : j <= i} /\ B = {k \in InLayer(new, layer) : k <= map[i]}
    BY <1>1, IndicesAreFinite DEF Before, InLayer
  <1> HIDE DEF A, B
  <1>4. \A j \in A : f[j] \in B
    BY <1>2, <1>3 DEF Follows
  <1>5. \A j, k \in A : f[j] = f[k] => j = k
    BY <1>2, <1>3 DEF Follows
  <1>6. \A k \in B : \E j \in A : f[j] = k
    BY <1>2, <1>3 DEF Follows
  <1>7. f \in Bijection(A, B)
    BY <1>4, <1>5, <1>6 DEF Bijection, Injection, Surjection, IsInjective
  <1>8. Cardinality(A) = Cardinality(B)
    <2>1. A \subseteq DOMAIN old
      BY <1>3 DEF InLayer
    <2>2. QED
      BY <1>1, <1>7, <2>1, IndicesAreFinite, FS_Bijection DEF ExistsBijection
  <1>9. Position(new, map[i]) = Position(old, i)
    BY <1>1, <1>8, PositionRange DEF A, B
  <1>10. QED
    BY <1>1, <1>9, SortedStay

\* A layer without occurrences has no followers to lose.
LEMMA FollowersSorted ==
  ASSUME NEW old, Sorted(old), NEW new, Layered(new), NEW layer \in Layers, NEW map,
         Follows(old, new, layer, map),
         layer = "static" \/ Statics(new) = Statics(old) \/ InLayer(new, layer) = {}
  PROVE  /\ InLayer(StaticsFirst(new), layer) = InLayer(old, layer)
         /\ \A i \in InLayer(old, layer) : StaticsFirst(new)[i] = new[map[i]]
  <1>1. CASE InLayer(new, layer) = {}
    <2>1. InLayer(old, layer) = {}
      BY <1>1 DEF Follows
    <2>2. InLayer(StaticsFirst(new), layer) = {}
      BY <1>1, SortMoves DEF InLayer
    <2>3. QED
      BY <2>1, <2>2
  <1>2. CASE layer = "static" \/ Statics(new) = Statics(old)
    <2>1. ASSUME NEW i \in InLayer(old, layer)
          PROVE  StaticsFirst(new)[i] = new[map[i]] /\ i \in InLayer(StaticsFirst(new), layer)
      <3>1. Position(new, map[i]) = i
        BY <1>2, FollowersReturn
      <3>2. map[i] \in DOMAIN new /\ new[map[i]].layer = layer
        BY DEF Follows, InLayer
      <3>3. QED
        BY <3>1, <3>2, SortMoves, PositionRange DEF InLayer
    <2>2. ASSUME NEW k \in InLayer(StaticsFirst(new), layer)
          PROVE  k \in InLayer(old, layer)
      <3>1. PICK m \in DOMAIN new : Position(new, m) = k /\ StaticsFirst(new)[k] = new[m]
        BY SortMoves DEF InLayer
      <3>2. m \in InLayer(new, layer)
        BY <3>1 DEF InLayer
      <3>3. PICK i \in InLayer(old, layer) : map[i] = m
        BY <3>2 DEF Follows
      <3>4. QED
        BY <1>2, <3>1, <3>3, FollowersReturn
    <2>3. QED
      BY <2>1, <2>2
  <1>3. QED
    BY <1>1, <1>2

-----------------------------------------------------------------------------
(* The inductive invariant.                                                *)

Consistent(resources, drafts) ==
  /\ resources \in Seq(Shapes)
  /\ drafts \in Seq(Draft)
  /\ \A i \in DOMAIN drafts : drafts[i].mesh \in DOMAIN resources
  /\ \A i, j \in DOMAIN drafts : drafts[i].id = drafts[j].id => i = j

Tlases == UNION {[S -> Boxes] : S \in SUBSET Nat}

SceneTypes ==
  scene # Absent =>
    /\ scene \in [resources : Seq(Shapes), drafts : Seq(Draft), tlas : [Layers -> Tlases],
                  refits : [Layers -> Nat], kind : [Layers -> Kinds]]
    /\ Consistent(scene.resources, scene.drafts)
    /\ Sorted(scene.drafts)

WorkTypes ==
  work # Absent =>
    /\ work \in [resources : Seq(Shapes), drafts : Seq(Draft), deltas : 0..MaxDeltas,
                 change : [Layers -> LayerChange]]
    /\ Consistent(work.resources, work.drafts)

\* What a transaction did not mark, it did not touch.
KeepsBounds(layer, map) ==
  \A i \in InLayer(scene.drafts, layer) :
    Box(work.resources, work.drafts[map[i]]) = Box(scene.resources, scene.drafts[i])
Keeps(layer, map) ==
  /\ Follows(scene.drafts, work.drafts, layer, map)
  /\ \A i \in InLayer(scene.drafts, layer) : work.drafts[map[i]].id = scene.drafts[i].id
  /\ ~work.change[layer].bounds => KeepsBounds(layer, map)
MarksAreComplete ==
  scene # Absent /\ work # Absent =>
    \A layer \in Layers : ~work.change[layer].topology => \E map : Keeps(layer, map)

\* The history is the counter the scene keeps.
RefitsCounted ==
  /\ age \in [Layers -> Nat]
  /\ \A l \in Layers : age[l] <= MaximumRefits
  /\ scene # Absent => \A l \in Layers : age[l] = scene.refits[l]

HierarchiesDescribe ==
  scene # Absent =>
    \A l \in Layers : scene.tlas[l] = BuiltTlas(scene.resources, scene.drafts, l)

IInv ==
  /\ SceneTypes
  /\ WorkTypes
  /\ MarksAreComplete
  /\ RefitsCounted
  /\ CarefulClient => HierarchiesDescribe

LEMMA DraftsAreLayered ==
  ASSUME NEW drafts \in Seq(Draft)
  PROVE  /\ Layered(drafts) /\ DOMAIN drafts = 1..Len(drafts) /\ Len(drafts) \in Nat
         /\ \A i \in DOMAIN drafts : drafts[i] \in Draft
         /\ \A l \in Layers : InLayer(drafts, l) \subseteq DOMAIN drafts
  <1>1. DOMAIN drafts = 1..Len(drafts) /\ Len(drafts) \in Nat
    OBVIOUS
  <1>2. \A i \in DOMAIN drafts : drafts[i] \in Draft
    BY <1>1, ElementOfSeq
  <1>3. \A i \in DOMAIN drafts : drafts[i].layer \in Layers
    BY <1>2 DEF Draft
  <1>4. QED
    BY <1>1, <1>2, <1>3 DEF Layered, InLayer

LEMMA InitInv ==
  ASSUME LifecycleAssumption, Init
  PROVE  IInv
  <1>1. scene = Absent /\ work = Absent /\ age = [l \in Layers |-> 0]
    BY DEF Init
  <1>2. RefitsCounted
    BY <1>1 DEF RefitsCounted, LifecycleAssumption
  <1>3. QED
    BY <1>1, <1>2 DEF IInv, SceneTypes, WorkTypes, MarksAreComplete, HierarchiesDescribe

LEMMA SortIsConsistent ==
  ASSUME NEW resources, NEW drafts, Consistent(resources, drafts)
  PROVE  Consistent(resources, StaticsFirst(drafts)) /\ Sorted(StaticsFirst(drafts))
  <1> DEFINE sorted == StaticsFirst(drafts)
  <1>1. drafts \in Seq(Draft) /\ Layered(drafts)
    BY DraftsAreLayered DEF Consistent
  <1>2. DOMAIN sorted = 1..Len(drafts) /\ Len(drafts) \in Nat
    BY <1>1, SortMoves, DraftsAreLayered
  <1>3. \A k \in DOMAIN sorted : \E i \in DOMAIN drafts : Position(drafts, i) = k /\ sorted[k] = drafts[i]
    BY <1>1, SortMoves
  <1> HIDE DEF sorted
  <1>4. sorted \in Seq(Draft)
    <2>1. sorted \in [1..Len(drafts) -> Draft]
      <3>1. \A k \in 1..Len(drafts) : sorted[k] \in Draft
        BY <1>1, <1>2, <1>3, DraftsAreLayered
      <3>2. sorted = [k \in 1..Len(drafts) |-> sorted[k]]
        BY <1>2, SortMoves DEF sorted, StaticsFirst
      <3>3. QED
        BY <3>1, <3>2
    <2>2. QED
      BY <1>2, <2>1, SeqDef
  <1>5. \A k \in DOMAIN sorted : sorted[k].mesh \in DOMAIN resources
    BY <1>3 DEF Consistent
  <1>6. \A k, l \in DOMAIN sorted : sorted[k].id = sorted[l].id => k = l
    BY <1>3 DEF Consistent
  <1>7. QED
    BY <1>1, <1>4, <1>5, <1>6, SortSorts DEF Consistent, sorted

\* One more occurrence, with an identifier of its own.
LEMMA AppendIsConsistent ==
  ASSUME NEW resources, NEW drafts, Consistent(resources, drafts),
         NEW id \in Instances \ Ids(drafts), NEW mesh \in DOMAIN resources,
         NEW place \in Places, NEW label \in Labels, NEW layer \in Layers
  PROVE  Consistent(resources, Append(drafts, [id |-> id, mesh |-> mesh, place |-> place,
                                               label |-> label, layer |-> layer]))
  <1> DEFINE new == [id |-> id, mesh |-> mesh, place |-> place, label |-> label, layer |-> layer]
             more == Append(drafts, new)
  <1>1. mesh \in Nat \ {0} /\ resources \in Seq(Shapes) /\ drafts \in Seq(Draft)
    BY DEF Consistent
  <1>2. new \in Draft /\ new.mesh = mesh /\ new.id = id
    BY <1>1 DEF Draft
  <1> HIDE DEF new
  <1>3. /\ more \in Seq(Draft) /\ DOMAIN more = 1..(Len(drafts) + 1) /\ Len(drafts) \in Nat
        /\ DOMAIN drafts = 1..Len(drafts)
        /\ \A i \in DOMAIN drafts : more[i] = drafts[i]
        /\ more[Len(drafts) + 1] = new
    BY <1>1, <1>2, AppendProperties
  <1>4. \A i \in DOMAIN drafts : drafts[i].id # id
    BY DEF Ids
  <1> HIDE DEF more
  <1>5. \A i \in DOMAIN more : i \in DOMAIN drafts \/ i = Len(drafts) + 1
    BY <1>3
  <1>6. \A i \in DOMAIN more : more[i].mesh \in DOMAIN resources
    BY <1>2, <1>3, <1>5 DEF Consistent
  <1>7. \A i, j \in DOMAIN more : more[i].id = more[j].id => i = j
    BY <1>2, <1>3, <1>4, <1>5 DEF Consistent
  <1>8. QED
    BY <1>1, <1>3, <1>6, <1>7 DEF Consistent, more, new

LEMMA BoxesAreBoxes ==
  ASSUME NEW resources, NEW drafts, Consistent(resources, drafts), NEW i \in DOMAIN drafts
  PROVE  Box(resources, drafts[i]) \in Boxes
  <1>1. drafts[i] \in Draft /\ drafts[i].mesh \in DOMAIN resources
    BY DraftsAreLayered DEF Consistent
  <1>2. resources[drafts[i].mesh] \in Shapes
    BY <1>1, ElementOfSeq DEF Consistent
  <1>3. drafts[i].place \in Places
    BY <1>1 DEF Draft
  <1>4. QED
    BY <1>2, <1>3 DEF Box, Boxes

LEMMA BuiltIsTlas ==
  ASSUME NEW resources, NEW drafts, Consistent(resources, drafts), NEW l \in Layers
  PROVE  BuiltTlas(resources, drafts, l) \in Tlases
  <1>1. InLayer(drafts, l) \in SUBSET Nat /\ InLayer(drafts, l) \subseteq DOMAIN drafts
    BY DraftsAreLayered DEF Consistent
  <1>2. BuiltTlas(resources, drafts, l) \in [InLayer(drafts, l) -> Boxes]
    BY <1>1, BoxesAreBoxes DEF BuiltTlas
  <1>3. QED
    BY <1>1, <1>2 DEF Tlases

-----------------------------------------------------------------------------
(* The builder, and the transaction's first and last steps.                *)

LEMMA BuilderInv ==
  ASSUME LifecycleAssumption, IInv, NewBuilder \/ AddMesh \/ PlaceInstance \/ RefuseBuild
  PROVE  IInv'
  <1> USE DEF IInv
  <1>1. scene = Absent /\ scene' = scene /\ age' = age
    BY DEF NewBuilder, AddMesh, PlaceInstance, RefuseBuild
  <1>2. WorkTypes'
    <2>1. CASE NewBuilder
      <3>1. work' = [resources |-> <<>>, drafts |-> <<>>, deltas |-> 0,
                     change |-> [l \in Layers |-> Unchanged]]
        BY <2>1 DEF NewBuilder
      <3>2. /\ <<>> \in Seq(Shapes) /\ <<>> \in Seq(Draft) /\ 0 \in 0..MaxDeltas
            /\ [l \in Layers |-> Unchanged] \in [Layers -> LayerChange]
        BY DEF Unchanged, LayerChange, LifecycleAssumption
      <3>3. Consistent(<<>>, <<>>)
        BY <3>2 DEF Consistent
      <3>4. QED
        BY <3>1, <3>2, <3>3 DEF WorkTypes
    <2>2. CASE AddMesh
      <3>1. PICK shape \in Shapes : work' = [work EXCEPT !.resources = Append(@, shape)]
        BY <2>2 DEF AddMesh
      <3>2. work # Absent
        BY <2>2 DEF AddMesh
      <3>3. /\ Append(work.resources, shape) \in Seq(Shapes)
            /\ DOMAIN work.resources \subseteq DOMAIN Append(work.resources, shape)
        BY <3>2, AppendProperties DEF WorkTypes, Consistent
      <3>4. Consistent(Append(work.resources, shape), work.drafts)
        BY <3>2, <3>3 DEF WorkTypes, Consistent
      <3>5. QED
        BY <3>1, <3>2, <3>3, <3>4 DEF WorkTypes
    <2>3. CASE PlaceInstance
      <3>1. PICK id \in Instances \ Ids(work.drafts), mesh \in DOMAIN work.resources,
                 place \in Places, label \in Labels, layer \in Layers :
              work' = [work EXCEPT !.drafts =
                         Append(@, [id |-> id, mesh |-> mesh, place |-> place,
                                    label |-> label, layer |-> layer])]
        BY <2>3 DEF PlaceInstance
      <3> DEFINE new == [id |-> id, mesh |-> mesh, place |-> place,
                         label |-> label, layer |-> layer]
      <3>2. work # Absent
        BY <2>3 DEF PlaceInstance
      <3>3. Consistent(work.resources, Append(work.drafts, new))
        BY <3>2, AppendIsConsistent DEF WorkTypes
      <3> HIDE DEF new
      <3>4. work' = [work EXCEPT !.drafts = Append(@, new)]
        BY <3>1 DEF new
      <3>5. QED
        BY <3>2, <3>3, <3>4 DEF WorkTypes, Consistent
    <2>4. CASE RefuseBuild
      BY <2>4 DEF RefuseBuild, WorkTypes
    <2>5. QED
      BY <2>1, <2>2, <2>3, <2>4
  <1>3. QED
    BY <1>1, <1>2 DEF SceneTypes, MarksAreComplete, RefitsCounted, HierarchiesDescribe

LEMMA BuildInv ==
  ASSUME LifecycleAssumption, IInv, Build
  PROVE  IInv'
  <1> USE DEF IInv
  <1> DEFINE drafts == StaticsFirst(work.drafts)
             built == [l \in Layers |-> Hierarchy(BuiltTlas(work.resources, drafts, l), "rebuilt", 0)]
  <1>1. work # Absent /\ work' = Absent /\ scene' = Snapshot(work.resources, drafts, built)
        /\ age' = [l \in Layers |-> 0]
    BY DEF Build
  <1>2. Consistent(work.resources, drafts) /\ Sorted(drafts) /\ work.resources \in Seq(Shapes)
    BY <1>1, SortIsConsistent DEF WorkTypes
  <1>3. drafts \in Seq(Draft) /\ \A l \in Layers : BuiltTlas(work.resources, drafts, l) \in Tlases
    BY <1>2, BuiltIsTlas DEF Consistent
  <1> HIDE DEF drafts
  <1>4. SceneTypes' /\ HierarchiesDescribe'
    BY <1>1, <1>2, <1>3 DEF SceneTypes, HierarchiesDescribe, Snapshot, Hierarchy, Kinds
  <1>5. WorkTypes' /\ MarksAreComplete'
    BY <1>1 DEF WorkTypes, MarksAreComplete
  <1>6. RefitsCounted'
    <2>1. \A l \in Layers : scene'.refits[l] = 0
      BY <1>1 DEF Snapshot, Hierarchy
    <2>2. QED
      BY <1>1, <2>1 DEF RefitsCounted, LifecycleAssumption
  <1>7. QED
    BY <1>4, <1>5, <1>6

LEMMA AbandonInv ==
  ASSUME IInv, Abandon
  PROVE  IInv'
  BY DEF Abandon, IInv, SceneTypes, WorkTypes, MarksAreComplete, RefitsCounted, HierarchiesDescribe

LEMMA BeginUpdateInv ==
  ASSUME LifecycleAssumption, IInv, BeginUpdate
  PROVE  IInv'
  <1> USE DEF IInv
  <1>1. /\ scene # Absent /\ scene' = scene /\ age' = age
        /\ work' = [resources |-> scene.resources, drafts |-> scene.drafts, deltas |-> 0,
                    change |-> [l \in Layers |-> Unchanged]]
    BY DEF BeginUpdate
  <1>2. WorkTypes'
    <2>1. 0 \in 0..MaxDeltas /\ [l \in Layers |-> Unchanged] \in [Layers -> LayerChange]
      BY DEF Unchanged, LayerChange, LifecycleAssumption
    <2>2. QED
      BY <1>1, <2>1 DEF WorkTypes, SceneTypes
  <1>3. MarksAreComplete'
    <2>1. SUFFICES ASSUME NEW l \in Layers PROVE \E map : Keeps(l, map)'
      BY DEF MarksAreComplete
    <2> DEFINE map == [i \in InLayer(scene.drafts, l) |-> i]
    <2>2. Keeps(l, map)'
      BY <1>1 DEF Keeps, Follows, KeepsBounds
    <2>3. QED
      BY <2>2
  <1>4. QED
    BY <1>1, <1>2, <1>3 DEF SceneTypes, RefitsCounted, HierarchiesDescribe

-----------------------------------------------------------------------------
(* The deltas.  In a layer whose topology it leaves alone a delta keeps the *)
(* occurrences, their identifiers, and their boxes unless it marks them.    *)

DeltaKeeps(layer, map) ==
  /\ Follows(work.drafts, work'.drafts, layer, map)
  /\ \A i \in InLayer(work.drafts, layer) : work'.drafts[map[i]].id = work.drafts[i].id
  /\ ~work'.change[layer].bounds =>
       /\ ~work.change[layer].bounds
       /\ \A i \in InLayer(work.drafts, layer) :
            Box(work'.resources, work'.drafts[map[i]]) = Box(work.resources, work.drafts[i])

LEMMA DeltaInv ==
  ASSUME IInv, WorkTypes', scene # Absent, work # Absent, scene' = scene, age' = age,
         \A l \in Layers : ~work'.change[l].topology =>
            ~work.change[l].topology /\ \E map : DeltaKeeps(l, map)
  PROVE  IInv'
  <1> USE DEF IInv
  <1>1. ASSUME NEW l \in Layers, ~work'.change[l].topology
        PROVE  \E map : Keeps(l, map)'
    <2>1. PICK f : Keeps(l, f)
      BY <1>1 DEF MarksAreComplete
    <2>2. PICK g : DeltaKeeps(l, g)
      BY <1>1
    <2> DEFINE h == [i \in InLayer(scene.drafts, l) |-> g[f[i]]]
    <2>3. \A i \in InLayer(scene.drafts, l) : f[i] \in InLayer(work.drafts, l)
      BY <2>1 DEF Keeps, Follows
    <2>4. Follows(scene.drafts, work'.drafts, l, h)
      BY <2>1, <2>2, <2>3 DEF Keeps, DeltaKeeps, Follows
    <2>5. \A i \in InLayer(scene.drafts, l) : work'.drafts[h[i]].id = scene.drafts[i].id
      BY <2>1, <2>2, <2>3 DEF Keeps, DeltaKeeps
    <2>6. ASSUME ~work'.change[l].bounds, NEW i \in InLayer(scene.drafts, l)
          PROVE  Box(work'.resources, work'.drafts[h[i]]) = Box(scene.resources, scene.drafts[i])
      BY <2>1, <2>2, <2>3, <2>6 DEF Keeps, KeepsBounds, DeltaKeeps
    <2>7. PICK map : map = h
      OBVIOUS
    <2> HIDE DEF h
    <2>8. Keeps(l, map)'
      BY <2>4, <2>5, <2>6, <2>7 DEF Keeps, KeepsBounds
    <2>9. QED
      BY <2>8
  <1>2. MarksAreComplete'
    BY <1>1 DEF MarksAreComplete
  <1>3. QED
    BY <1>2 DEF SceneTypes, RefitsCounted, HierarchiesDescribe

LEMMA MarkTypes ==
  ASSUME NEW change \in [Layers -> LayerChange], NEW layer \in Layers,
         NEW bounds \in BOOLEAN, NEW topology \in BOOLEAN
  PROVE  /\ Mark(change, layer, bounds, topology) \in [Layers -> LayerChange]
         /\ \A l \in Layers : l # layer => Mark(change, layer, bounds, topology)[l] = change[l]
         /\ Mark(change, layer, bounds, topology)[layer].bounds <=> (change[layer].bounds \/ bounds)
         /\ Mark(change, layer, bounds, topology)[layer].topology <=> (change[layer].topology \/ topology)
  BY DEF Mark, LayerChange

LEMMA InTransactionFacts ==
  ASSUME LifecycleAssumption, IInv, InTransaction
  PROVE  /\ scene # Absent /\ work # Absent /\ work.deltas + 1 \in 0..MaxDeltas
         /\ work \in [resources : Seq(Shapes), drafts : Seq(Draft), deltas : 0..MaxDeltas,
                      change : [Layers -> LayerChange]]
         /\ Consistent(work.resources, work.drafts)
  <1>1. scene # Absent /\ work # Absent /\ work.deltas < MaxDeltas /\ WorkTypes
    BY DEF InTransaction, IInv
  <1>2. /\ work \in [resources : Seq(Shapes), drafts : Seq(Draft), deltas : 0..MaxDeltas,
                      change : [Layers -> LayerChange]]
        /\ Consistent(work.resources, work.drafts)
    BY <1>1 DEF WorkTypes
  <1>3. QED
    BY <1>1, <1>2 DEF LifecycleAssumption

\* The occurrences of the other layer stay where they are when one is appended.
LEMMA AddInstanceInv ==
  ASSUME LifecycleAssumption, IInv, AddInstance
  PROVE  IInv'
  <1> USE DEF IInv
  <1>1. PICK id \in Instances \ Ids(work.drafts), mesh \in DOMAIN work.resources,
             place \in Places, label \in Labels, layer \in Layers :
          work' = [work EXCEPT
                     !.drafts = Append(@, [id |-> id, mesh |-> mesh, place |-> place,
                                           label |-> label, layer |-> layer]),
                     !.change = Mark(@, layer, TRUE, TRUE),
                     !.deltas = @ + 1]
    BY DEF AddInstance
  <1> DEFINE new == [id |-> id, mesh |-> mesh, place |-> place, label |-> label, layer |-> layer]
             more == Append(work.drafts, new)
             marked == Mark(work.change, layer, TRUE, TRUE)
  <1>2. /\ scene # Absent /\ work # Absent /\ scene' = scene /\ age' = age
        /\ work.deltas + 1 \in 0..MaxDeltas
    BY InTransactionFacts DEF AddInstance
  <1>3. /\ work \in [resources : Seq(Shapes), drafts : Seq(Draft), deltas : 0..MaxDeltas,
                     change : [Layers -> LayerChange]]
        /\ Consistent(work.resources, work.drafts)
    BY InTransactionFacts DEF AddInstance
  <1>4. Consistent(work.resources, more) /\ more \in Seq(Draft)
    BY <1>3, AppendIsConsistent DEF Consistent
  <1>5. /\ marked \in [Layers -> LayerChange] /\ marked[layer].topology
        /\ \A l \in Layers : l # layer => marked[l] = work.change[l]
    BY <1>3, MarkTypes
  <1>6. /\ DOMAIN more = 1..(Len(work.drafts) + 1) /\ Len(work.drafts) \in Nat
        /\ DOMAIN work.drafts = 1..Len(work.drafts)
        /\ \A i \in DOMAIN work.drafts : more[i] = work.drafts[i]
        /\ more[Len(work.drafts) + 1].layer = layer
    BY <1>3
  <1> HIDE DEF more, marked
  <1>7. /\ work' = [work EXCEPT !.drafts = more, !.change = marked, !.deltas = @ + 1]
        /\ work'.drafts = more /\ work'.change = marked /\ work'.resources = work.resources
    BY <1>1, <1>3 DEF more, marked
  <1>8. WorkTypes'
    BY <1>2, <1>3, <1>4, <1>5, <1>7 DEF WorkTypes
  <1>9. ASSUME NEW l \in Layers, ~work'.change[l].topology
        PROVE  ~work.change[l].topology /\ \E map : DeltaKeeps(l, map)
    <2>1. l # layer /\ marked[l] = work.change[l]
      BY <1>5, <1>7, <1>9
    <2>2. InLayer(more, l) = InLayer(work.drafts, l)
      BY <1>6, <2>1 DEF InLayer
    <2> DEFINE map == [i \in InLayer(work.drafts, l) |-> i]
    <2>3. Follows(work.drafts, more, l, map)
      BY <2>2 DEF Follows
    <2>4. \A i \in InLayer(work.drafts, l) : more[map[i]] = work.drafts[i]
      BY <1>6 DEF InLayer
    <2>5. DeltaKeeps(l, map)
      BY <1>7, <2>1, <2>3, <2>4 DEF DeltaKeeps
    <2>6. QED
      BY <1>7, <1>9, <2>1, <2>5
  <1>10. QED
    BY <1>2, <1>8, <1>9, DeltaInv

\* What follows a removed occurrence moves up by one, in either layer.
LEMMA RemoveIsConsistent ==
  ASSUME NEW resources, NEW drafts, Consistent(resources, drafts), NEW i \in DOMAIN drafts
  PROVE  /\ Consistent(resources, RemoveIndex(drafts, i))
         /\ \A l \in Layers : l # drafts[i].layer =>
              \E map : /\ Follows(drafts, RemoveIndex(drafts, i), l, map)
                       /\ \A k \in InLayer(drafts, l) : RemoveIndex(drafts, i)[map[k]] = drafts[k]
  <1> DEFINE fewer == RemoveIndex(drafts, i)
  <1>1. /\ drafts \in Seq(Draft) /\ resources \in Seq(Shapes)
        /\ Len(drafts) \in Nat /\ DOMAIN drafts = 1..Len(drafts)
        /\ Len(drafts) - 1 \in Nat /\ i \in Nat
        /\ \A k \in DOMAIN drafts : drafts[k] \in Draft
    BY DraftsAreLayered DEF Consistent
  <1>2. DOMAIN fewer = 1..(Len(drafts) - 1)
    BY DEF RemoveIndex
  <1>3. \A k \in 1..(Len(drafts) - 1) : fewer[k] = IF k < i THEN drafts[k] ELSE drafts[k + 1]
    BY DEF RemoveIndex
  <1>4. \A k \in 1..(Len(drafts) - 1) : k \in DOMAIN drafts /\ k + 1 \in DOMAIN drafts
    BY <1>1
  <1>5. fewer = [k \in 1..(Len(drafts) - 1) |-> fewer[k]]
    BY DEF RemoveIndex
  <1> HIDE DEF fewer
  <1>6. fewer \in Seq(Draft)
    <2>1. fewer \in [1..(Len(drafts) - 1) -> Draft]
      BY <1>1, <1>3, <1>4, <1>5
    <2>2. QED
      BY <1>1, <2>1, SeqDef
  <1>7. \A k \in DOMAIN fewer : fewer[k].mesh \in DOMAIN resources
    BY <1>2, <1>3, <1>4 DEF Consistent
  <1>8. ASSUME NEW k \in DOMAIN fewer, NEW l \in DOMAIN fewer, fewer[k].id = fewer[l].id
        PROVE  k = l
    <2>1. (IF k < i THEN k ELSE k + 1) = (IF l < i THEN l ELSE l + 1)
      BY <1>2, <1>3, <1>4, <1>8 DEF Consistent
    <2>2. k \in Nat /\ l \in Nat
      BY <1>2
    <2>3. QED
      BY <1>1, <2>1, <2>2
  <1>9. ASSUME NEW l \in Layers, l # drafts[i].layer
        PROVE  \E map : /\ Follows(drafts, fewer, l, map)
                        /\ \A k \in InLayer(drafts, l) : fewer[map[k]] = drafts[k]
    <2> DEFINE map == [k \in InLayer(drafts, l) |-> IF k < i THEN k ELSE k - 1]
    <2>1. \A k \in InLayer(drafts, l) : k \in 1..Len(drafts) /\ k # i /\ drafts[k].layer = l
      BY <1>1, <1>9 DEF InLayer
    <2>2. ASSUME NEW k \in InLayer(drafts, l)
          PROVE  map[k] \in 1..(Len(drafts) - 1) /\ fewer[map[k]] = drafts[k]
      <3>1. CASE k < i
        BY <1>1, <1>3, <2>1, <3>1
      <3>2. CASE ~(k < i)
        <4>1. map[k] = k - 1 /\ k - 1 \in 1..(Len(drafts) - 1) /\ ~(k - 1 < i) /\ k - 1 + 1 = k
          BY <1>1, <2>1, <3>2
        <4>2. QED
          BY <1>3, <4>1
      <3>3. QED
        BY <3>1, <3>2
    <2>3. \A k \in InLayer(drafts, l) : map[k] \in InLayer(fewer, l)
      BY <1>2, <2>1, <2>2 DEF InLayer
    <2>4. ASSUME NEW m \in InLayer(fewer, l)
          PROVE  \E k \in InLayer(drafts, l) : map[k] = m
      <3>1. m \in 1..(Len(drafts) - 1) /\ fewer[m].layer = l
        BY <1>2 DEF InLayer
      <3>2. CASE m < i
        <4>1. m \in InLayer(drafts, l)
          BY <1>3, <1>4, <3>1, <3>2 DEF InLayer
        <4>2. map[m] = m
          BY <3>2, <4>1
        <4>3. QED
          BY <4>1, <4>2
      <3>3. CASE ~(m < i)
        <4>1. m + 1 \in InLayer(drafts, l)
          BY <1>3, <1>4, <3>1, <3>3 DEF InLayer
        <4>2. map[m + 1] = m
          BY <1>1, <3>1, <3>3, <4>1
        <4>3. QED
          BY <4>1, <4>2
      <3>4. QED
        BY <3>2, <3>3
    <2>5. \A j, k \in InLayer(drafts, l) : j < k => map[j] < map[k]
      BY <1>1, <2>1
    <2>6. Follows(drafts, fewer, l, map)
      BY <2>3, <2>4, <2>5 DEF Follows
    <2>7. QED
      BY <2>2, <2>6
  <1>10. QED
    BY <1>1, <1>6, <1>7, <1>8, <1>9 DEF Consistent, fewer

LEMMA RemoveInstanceInv ==
  ASSUME LifecycleAssumption, IInv, RemoveInstance
  PROVE  IInv'
  <1>1. PICK i \in DOMAIN work.drafts :
          work' = [work EXCEPT !.drafts = RemoveIndex(@, i),
                               !.change = Mark(@, work.drafts[i].layer, TRUE, TRUE),
                               !.deltas = @ + 1]
    BY DEF RemoveInstance
  <1> DEFINE layer == work.drafts[i].layer
             fewer == RemoveIndex(work.drafts, i)
             marked == Mark(work.change, layer, TRUE, TRUE)
  <1>2. /\ scene # Absent /\ work # Absent /\ scene' = scene /\ age' = age
        /\ work.deltas + 1 \in 0..MaxDeltas
        /\ work \in [resources : Seq(Shapes), drafts : Seq(Draft), deltas : 0..MaxDeltas,
                     change : [Layers -> LayerChange]]
        /\ Consistent(work.resources, work.drafts)
    BY InTransactionFacts DEF RemoveInstance
  <1>3. layer \in Layers
    BY <1>2, DraftsAreLayered DEF Layered
  <1>4. /\ marked \in [Layers -> LayerChange] /\ marked[layer].topology
        /\ \A l \in Layers : l # layer => marked[l] = work.change[l]
    BY <1>2, <1>3, MarkTypes
  <1>5. Consistent(work.resources, fewer) /\ fewer \in Seq(Draft)
    <2>1. Consistent(work.resources, fewer)
      BY <1>2, RemoveIsConsistent
    <2>2. QED
      BY <2>1 DEF Consistent
  <1>6. \A l \in Layers : l # layer =>
          \E map : /\ Follows(work.drafts, fewer, l, map)
                   /\ \A k \in InLayer(work.drafts, l) : fewer[map[k]] = work.drafts[k]
    BY <1>2, RemoveIsConsistent
  <1> HIDE DEF fewer, marked
  <1>7. /\ work' = [work EXCEPT !.drafts = fewer, !.change = marked, !.deltas = @ + 1]
        /\ work'.drafts = fewer /\ work'.change = marked /\ work'.resources = work.resources
    BY <1>1, <1>2 DEF fewer, marked
  <1>8. WorkTypes'
    BY <1>2, <1>4, <1>5, <1>7 DEF WorkTypes
  <1>9. ASSUME NEW l \in Layers, ~work'.change[l].topology
        PROVE  ~work.change[l].topology /\ \E map : DeltaKeeps(l, map)
    <2>1. l # layer /\ marked[l] = work.change[l]
      BY <1>4, <1>7, <1>9
    <2>2. PICK map : /\ Follows(work.drafts, fewer, l, map)
                     /\ \A k \in InLayer(work.drafts, l) : fewer[map[k]] = work.drafts[k]
      BY <1>6, <2>1
    <2>3. DeltaKeeps(l, map)
      BY <1>7, <2>1, <2>2 DEF DeltaKeeps
    <2>4. QED
      BY <1>7, <1>9, <2>1, <2>3
  <1>10. QED
    BY <1>2, <1>8, <1>9, DeltaInv

\* Occurrences that are changed in place.
LEMMA UpdateInstanceInv ==
  ASSUME LifecycleAssumption, IInv, UpdateInstance
  PROVE  IInv'
  <1>1. PICK i \in DOMAIN work.drafts, place \in Places, label \in Labels, layer \in Layers :
          LET old == work.drafts[i]
              new == [old EXCEPT !.place = place, !.label = label, !.layer = layer]
          IN  work' = [work EXCEPT !.drafts[i] = new,
                                   !.change = MarkUpdate(@, old, new),
                                   !.deltas = @ + 1]
    BY DEF UpdateInstance
  <1> DEFINE old == work.drafts[i]
             new == [old EXCEPT !.place = place, !.label = label, !.layer = layer]
             drafts == [work.drafts EXCEPT ![i] = new]
             marked == MarkUpdate(work.change, old, new)
  <1>2. /\ scene # Absent /\ work # Absent /\ scene' = scene /\ age' = age
        /\ work.deltas + 1 \in 0..MaxDeltas
        /\ work \in [resources : Seq(Shapes), drafts : Seq(Draft), deltas : 0..MaxDeltas,
                     change : [Layers -> LayerChange]]
        /\ Consistent(work.resources, work.drafts)
    BY InTransactionFacts DEF UpdateInstance
  <1>3. old \in Draft /\ old.layer \in Layers
    BY <1>2, DraftsAreLayered DEF Layered
  <1>4. /\ new \in Draft /\ new.id = old.id /\ new.mesh = old.mesh
        /\ new.place = place /\ new.layer = layer
    BY <1>3 DEF Draft
  <1> HIDE DEF old, new
  <1>5. /\ drafts \in Seq(Draft) /\ DOMAIN drafts = DOMAIN work.drafts /\ drafts[i] = new
        /\ \A k \in DOMAIN work.drafts : k # i => drafts[k] = work.drafts[k]
    BY <1>2, <1>4, ExceptSeq
  <1>6. Consistent(work.resources, drafts)
    BY <1>2, <1>4, <1>5 DEF Consistent, old
  <1>7. /\ marked \in [Layers -> LayerChange]
        /\ \A l \in Layers :
             /\ ~marked[l].topology => ~work.change[l].topology /\ old.layer = new.layer
             /\ ~marked[l].topology /\ ~marked[l].bounds =>
                  ~work.change[l].bounds /\ (old.layer = l => old.place = new.place)
    <2> DEFINE moved == old.place # new.place
               migrated == old.layer # new.layer
               first == Mark(work.change, old.layer, moved, migrated)
    <2>0. moved \in BOOLEAN /\ migrated \in BOOLEAN
      OBVIOUS
    <2>1. CASE old = new
      BY <1>2, <2>1 DEF MarkUpdate
    <2>2. CASE old # new /\ ~migrated
      <3>1. marked = first
        BY <2>2 DEF MarkUpdate
      <3>2. /\ first \in [Layers -> LayerChange]
            /\ \A l \in Layers : l # old.layer => first[l] = work.change[l]
            /\ first[old.layer].bounds <=> (work.change[old.layer].bounds \/ moved)
            /\ first[old.layer].topology <=> (work.change[old.layer].topology \/ migrated)
        <4> HIDE DEF moved, migrated
        <4>1. QED
          BY <1>2, <1>3, <2>0, MarkTypes
      <3>3. QED
        BY <2>2, <3>1, <3>2
    <2>3. CASE old # new /\ migrated
      <3>1. marked = Mark(first, new.layer, TRUE, TRUE)
        BY <2>3 DEF MarkUpdate
      <3>2. first \in [Layers -> LayerChange] /\ first[old.layer].topology
        <4>1. migrated
          BY <2>3
        <4> HIDE DEF moved, migrated
        <4>2. QED
          BY <1>2, <1>3, <2>0, <4>1, MarkTypes
      <3> HIDE DEF first
      <3>3. /\ marked \in [Layers -> LayerChange] /\ marked[new.layer].topology
            /\ marked[old.layer] = first[old.layer]
        <4> DEFINE second == Mark(first, new.layer, TRUE, TRUE)
        <4>1. new.layer \in Layers /\ old.layer \in Layers /\ old.layer # new.layer
          BY <1>3, <1>4, <2>3
        <4>2. /\ second \in [Layers -> LayerChange] /\ second[new.layer].topology
              /\ second[old.layer] = first[old.layer]
          BY <3>2, <4>1, MarkTypes
        <4>3. QED
          BY <3>1, <4>2
      <3>4. \A l \in Layers : l = old.layer \/ l = new.layer
        BY <1>3, <1>4, <2>3 DEF Layers
      <3>5. QED
        BY <3>2, <3>3, <3>4
    <2>4. QED
      BY <2>1, <2>2, <2>3
  <1> HIDE DEF drafts, marked
  <1>8. /\ work' = [work EXCEPT !.drafts = drafts, !.change = marked, !.deltas = @ + 1]
        /\ work'.drafts = drafts /\ work'.change = marked /\ work'.resources = work.resources
    BY <1>1, <1>2 DEF drafts, marked, old, new
  <1>9. WorkTypes'
    BY <1>2, <1>5, <1>6, <1>7, <1>8 DEF WorkTypes
  <1>10. ASSUME NEW l \in Layers, ~work'.change[l].topology
         PROVE  ~work.change[l].topology /\ \E map : DeltaKeeps(l, map)
    <2>1. old.layer = new.layer /\ ~work.change[l].topology
      BY <1>7, <1>8, <1>10
    <2>2. InLayer(drafts, l) = InLayer(work.drafts, l)
      BY <1>5, <2>1 DEF InLayer, old
    <2> DEFINE map == [k \in InLayer(work.drafts, l) |-> k]
    <2>3. Follows(work.drafts, drafts, l, map)
      BY <2>2 DEF Follows
    <2>4. \A k \in InLayer(work.drafts, l) : drafts[map[k]].id = work.drafts[k].id
      BY <1>4, <1>5 DEF InLayer, old
    <2>5. ASSUME ~marked[l].bounds, NEW k \in InLayer(work.drafts, l)
          PROVE  Box(work.resources, drafts[map[k]]) = Box(work.resources, work.drafts[k])
      <3>1. old.layer = l => old.place = new.place
        BY <1>7, <1>8, <1>10, <2>5
      <3>2. CASE k = i
        BY <1>4, <1>5, <3>1, <3>2 DEF InLayer, Box, old
      <3>3. CASE k # i
        BY <1>5, <3>3 DEF InLayer
      <3>4. QED
        BY <3>2, <3>3
    <2>6. ~marked[l].bounds => ~work.change[l].bounds
      BY <1>7, <1>8, <1>10
    <2>7. DeltaKeeps(l, map)
      BY <1>8, <2>3, <2>4, <2>5, <2>6 DEF DeltaKeeps
    <2>8. QED
      BY <2>1, <2>7
  <1>11. QED
    BY <1>2, <1>9, <1>10, DeltaInv

\* A mesh is replaced under every occurrence that uses it.
LEMMA ReplaceMeshInv ==
  ASSUME LifecycleAssumption, IInv, ReplaceMesh
  PROVE  IInv'
  <1>1. PICK mesh \in DOMAIN work.resources, shape \in Shapes :
          work' = [work EXCEPT
                     !.resources[mesh] = shape,
                     !.change = IF shape = work.resources[mesh] THEN @
                                ELSE MarkReplaced(@, work.drafts, mesh),
                     !.deltas = @ + 1]
    BY DEF ReplaceMesh
  <1> DEFINE resources == [work.resources EXCEPT ![mesh] = shape]
             marked == IF shape = work.resources[mesh] THEN work.change
                       ELSE MarkReplaced(work.change, work.drafts, mesh)
  <1>2. /\ scene # Absent /\ work # Absent /\ scene' = scene /\ age' = age
        /\ work.deltas + 1 \in 0..MaxDeltas
        /\ work \in [resources : Seq(Shapes), drafts : Seq(Draft), deltas : 0..MaxDeltas,
                     change : [Layers -> LayerChange]]
        /\ Consistent(work.resources, work.drafts)
    BY InTransactionFacts DEF ReplaceMesh
  <1>3. /\ resources \in Seq(Shapes) /\ DOMAIN resources = DOMAIN work.resources
        /\ resources[mesh] = shape
        /\ \A m \in DOMAIN work.resources : m # mesh => resources[m] = work.resources[m]
    BY <1>2, ExceptSeq
  <1>4. Consistent(resources, work.drafts)
    BY <1>2, <1>3 DEF Consistent
  <1>5. /\ marked \in [Layers -> LayerChange]
        /\ \A l \in Layers :
             /\ marked[l].topology <=> work.change[l].topology
             /\ ~marked[l].bounds =>
                  /\ ~work.change[l].bounds
                  /\ shape = work.resources[mesh]
                     \/ \A i \in InLayer(work.drafts, l) : work.drafts[i].mesh # mesh
    <2>1. ASSUME NEW l \in Layers
          PROVE  /\ Mark(work.change, l, TRUE, FALSE)[l] \in LayerChange
                 /\ Mark(work.change, l, TRUE, FALSE)[l].bounds
                 /\ Mark(work.change, l, TRUE, FALSE)[l].topology <=> work.change[l].topology
      BY <1>2, MarkTypes
    <2>2. QED
      BY <1>2, <2>1 DEF MarkReplaced
  <1> HIDE DEF resources, marked
  <1>6. /\ work' = [work EXCEPT !.resources = resources, !.change = marked, !.deltas = @ + 1]
        /\ work'.resources = resources /\ work'.change = marked /\ work'.drafts = work.drafts
    BY <1>1, <1>2 DEF resources, marked
  <1>7. WorkTypes'
    BY <1>2, <1>3, <1>4, <1>5, <1>6 DEF WorkTypes
  <1>8. ASSUME NEW l \in Layers, ~work'.change[l].topology
        PROVE  ~work.change[l].topology /\ \E map : DeltaKeeps(l, map)
    <2> DEFINE map == [k \in InLayer(work.drafts, l) |-> k]
    <2>1. Follows(work.drafts, work.drafts, l, map)
      BY DEF Follows
    <2>2. ASSUME ~marked[l].bounds, NEW k \in InLayer(work.drafts, l)
          PROVE  Box(resources, work.drafts[k]) = Box(work.resources, work.drafts[k])
      <3>1. work.drafts[k].mesh \in DOMAIN work.resources
        BY <1>2 DEF Consistent, InLayer
      <3>2. resources[work.drafts[k].mesh] = work.resources[work.drafts[k].mesh]
        BY <1>3, <1>5, <2>2, <3>1
      <3>3. QED
        BY <3>2 DEF Box
    <2>3. ~work.change[l].topology /\ (~marked[l].bounds => ~work.change[l].bounds)
      BY <1>5, <1>6, <1>8
    <2>4. DeltaKeeps(l, map)
      BY <1>6, <2>1, <2>2, <2>3 DEF DeltaKeeps
    <2>5. QED
      BY <2>3, <2>4
  <1>9. QED
    BY <1>2, <1>7, <1>8, DeltaInv

-----------------------------------------------------------------------------
(* The last step: every hierarchy is reused, refitted or rebuilt.          *)

LEMMA RevisionCases ==
  ASSUME NEW old, NEW refits \in Nat, NEW change \in LayerChange, NEW resources, NEW drafts, NEW l,
         NEW r \in Revisions(old, refits, change, resources, drafts, l)
  PROVE  \/ /\ r.kind = "reused" /\ r.refits = refits /\ r.tlas = old
            /\ ~change.bounds /\ ~change.topology
         \/ r.kind = "rebuilt" /\ r.refits = 0 /\ r.tlas = BuiltTlas(resources, drafts, l)
         \/ /\ r.kind = "refit" /\ r.refits = refits + 1 /\ r.tlas = RefitTlas(old, resources, drafts)
            /\ ~change.topology /\ RefitIsValid(old, drafts) /\ ~(refits >= MaximumRefits)
  BY DEF Revisions, Hierarchy

\* What a commit knows of a layer that it reuses or refits.
LEMMA LayerReturns ==
  ASSUME IInv, scene # Absent, work # Absent, StaticCountKept,
         NEW l \in Layers, ~work.change[l].topology
  PROVE  /\ InLayer(StaticsFirst(work.drafts), l) = InLayer(scene.drafts, l)
         /\ \A i \in InLayer(scene.drafts, l) :
              /\ StaticsFirst(work.drafts)[i].id = scene.drafts[i].id
              /\ ~work.change[l].bounds =>
                   Box(work.resources, StaticsFirst(work.drafts)[i]) = Box(scene.resources, scene.drafts[i])
  <1>1. PICK map : Keeps(l, map)
    BY DEF IInv, MarksAreComplete
  <1>2. Sorted(scene.drafts) /\ Layered(work.drafts)
    BY DraftsAreLayered DEF IInv, SceneTypes, WorkTypes, Consistent
  <1>3. l = "static" \/ Statics(work.drafts) = Statics(scene.drafts) \/ InLayer(work.drafts, l) = {}
    BY DEF StaticCountKept, Statics, Layers
  <1>4. Follows(scene.drafts, work.drafts, l, map)
    BY <1>1 DEF Keeps
  <1>5. /\ InLayer(StaticsFirst(work.drafts), l) = InLayer(scene.drafts, l)
        /\ \A i \in InLayer(scene.drafts, l) : StaticsFirst(work.drafts)[i] = work.drafts[map[i]]
    BY <1>2, <1>3, <1>4, FollowersSorted
  <1>6. QED
    BY <1>1, <1>5 DEF Keeps, KeepsBounds

LEMMA RevisionDescribes ==
  ASSUME IInv, scene # Absent, work # Absent, StaticCountKept, HierarchiesDescribe,
         NEW l \in Layers,
         NEW r \in Revisions(scene.tlas[l], scene.refits[l], work.change[l], work.resources,
                             StaticsFirst(work.drafts), l)
  PROVE  r.tlas = BuiltTlas(work.resources, StaticsFirst(work.drafts), l)
  <1> DEFINE drafts == StaticsFirst(work.drafts)
             old == scene.tlas[l]
  <1>1. scene.refits[l] \in Nat /\ work.change[l] \in LayerChange
    BY DEF IInv, SceneTypes, WorkTypes
  <1>2. old = BuiltTlas(scene.resources, scene.drafts, l)
    BY DEF HierarchiesDescribe
  <1> HIDE DEF drafts, old
  <1>3. ASSUME r.tlas = old, ~work.change[l].bounds, ~work.change[l].topology
        PROVE  r.tlas = BuiltTlas(work.resources, drafts, l)
    BY <1>2, <1>3, LayerReturns DEF BuiltTlas, drafts
  <1>4. ASSUME r.tlas = RefitTlas(old, work.resources, drafts), ~work.change[l].topology
        PROVE  r.tlas = BuiltTlas(work.resources, drafts, l)
    <2>1. DOMAIN old = InLayer(drafts, l)
      BY <1>2, <1>4, LayerReturns DEF BuiltTlas, drafts
    <2>2. QED
      BY <1>4, <2>1 DEF RefitTlas, BuiltTlas
  <1>5. QED
    BY <1>1, <1>3, <1>4, RevisionCases DEF drafts, old

LEMMA RevisionTypes ==
  ASSUME LifecycleAssumption, IInv, scene # Absent, work # Absent,
         NEW l \in Layers,
         NEW r \in Revisions(scene.tlas[l], scene.refits[l], work.change[l], work.resources,
                             StaticsFirst(work.drafts), l)
  PROVE  /\ r.tlas \in Tlases /\ r.refits \in Nat /\ r.kind \in Kinds
         /\ r.refits <= MaximumRefits
         /\ Aged(r.kind, age[l]) = r.refits
  <1> DEFINE drafts == StaticsFirst(work.drafts)
             old == scene.tlas[l]
  <1>1. scene.refits[l] \in Nat /\ work.change[l] \in LayerChange /\ old \in Tlases
        /\ age[l] = scene.refits[l] /\ age[l] <= MaximumRefits
    BY DEF IInv, SceneTypes, WorkTypes, RefitsCounted
  <1>2. Consistent(work.resources, drafts)
    BY SortIsConsistent DEF IInv, WorkTypes
  <1> HIDE DEF drafts, old
  <1>3. ASSUME RefitIsValid(old, drafts)
        PROVE  RefitTlas(old, work.resources, drafts) \in Tlases
    <2>1. PICK S \in SUBSET Nat : old \in [S -> Boxes]
      BY <1>1 DEF Tlases
    <2>2. S \subseteq DOMAIN drafts
      BY <1>3, <2>1 DEF RefitIsValid
    <2>3. RefitTlas(old, work.resources, drafts) \in [S -> Boxes]
      BY <1>2, <2>1, <2>2, BoxesAreBoxes DEF RefitTlas
    <2>4. QED
      BY <2>3 DEF Tlases
  <1>4. MaximumRefits \in Nat
    BY DEF LifecycleAssumption
  <1>5. CASE r.kind = "reused" /\ r.refits = scene.refits[l] /\ r.tlas = old
    BY <1>1, <1>5 DEF Kinds, Aged
  <1>6. CASE r.kind = "rebuilt" /\ r.refits = 0 /\ r.tlas = BuiltTlas(work.resources, drafts, l)
    BY <1>2, <1>4, <1>6, BuiltIsTlas DEF Kinds, Aged
  <1>7. CASE /\ r.kind = "refit" /\ r.refits = scene.refits[l] + 1
             /\ r.tlas = RefitTlas(old, work.resources, drafts)
             /\ RefitIsValid(old, drafts) /\ ~(scene.refits[l] >= MaximumRefits)
    BY <1>1, <1>3, <1>4, <1>7 DEF Kinds, Aged
  <1>8. QED
    BY <1>1, <1>5, <1>6, <1>7, RevisionCases DEF drafts, old

LEMMA CommitFacts ==
  ASSUME CommitUpdate
  PROVE  /\ scene # Absent /\ work # Absent /\ work' = Absent
         /\ CarefulClient => StaticCountKept
         /\ \E new : /\ \A l \in Layers :
                          new[l] \in Revisions(scene.tlas[l], scene.refits[l], work.change[l],
                                               work.resources, StaticsFirst(work.drafts), l)
                     /\ scene' = Snapshot(work.resources, StaticsFirst(work.drafts), new)
                     /\ age' = [l \in Layers |-> Aged(new[l].kind, age[l])]
  <1> DEFINE drafts == StaticsFirst(work.drafts)
             revised(l) == Revisions(scene.tlas[l], scene.refits[l], work.change[l],
                                     work.resources, drafts, l)
  <1>1. PICK s \in revised("static"), d \in revised("dynamic") :
          LET new == [l \in Layers |-> IF l = "static" THEN s ELSE d]
          IN  /\ scene' = Snapshot(work.resources, drafts, new)
              /\ age' = [l \in Layers |-> Aged(new[l].kind, age[l])]
    BY DEF CommitUpdate
  <1> DEFINE new == [l \in Layers |-> IF l = "static" THEN s ELSE d]
  <1>2. \A l \in Layers : new[l] \in revised(l)
    BY DEF Layers
  <1>3. QED
    BY <1>1, <1>2 DEF CommitUpdate

LEMMA CommitUpdateInv ==
  ASSUME LifecycleAssumption, IInv, CommitUpdate
  PROVE  IInv'
  <1> DEFINE drafts == StaticsFirst(work.drafts)
  <1>1. PICK new : /\ \A l \in Layers :
                        new[l] \in Revisions(scene.tlas[l], scene.refits[l], work.change[l],
                                             work.resources, drafts, l)
                   /\ scene' = Snapshot(work.resources, drafts, new)
                   /\ age' = [l \in Layers |-> Aged(new[l].kind, age[l])]
    BY CommitFacts
  <1>2. /\ scene # Absent /\ work # Absent /\ work' = Absent
        /\ CarefulClient => StaticCountKept
    BY CommitFacts
  <1>3. Consistent(work.resources, drafts) /\ Sorted(drafts)
    BY <1>2, SortIsConsistent DEF IInv, WorkTypes
  <1>4. \A l \in Layers : /\ new[l].tlas \in Tlases /\ new[l].refits \in Nat /\ new[l].kind \in Kinds
                          /\ new[l].refits <= MaximumRefits /\ Aged(new[l].kind, age[l]) = new[l].refits
    BY <1>1, <1>2, RevisionTypes
  <1>5. ASSUME CarefulClient, NEW l \in Layers
        PROVE  new[l].tlas = BuiltTlas(work.resources, drafts, l)
    BY <1>1, <1>2, <1>5, RevisionDescribes DEF IInv
  <1>6. work.resources \in Seq(Shapes) /\ drafts \in Seq(Draft)
    BY <1>3 DEF Consistent
  <1> HIDE DEF drafts
  <1>7. /\ scene'.resources = work.resources /\ scene'.drafts = drafts
        /\ \A l \in Layers : scene'.tlas[l] = new[l].tlas /\ scene'.refits[l] = new[l].refits
    BY <1>1 DEF Snapshot
  <1>8. scene' \in [resources : Seq(Shapes), drafts : Seq(Draft), tlas : [Layers -> Tlases],
                    refits : [Layers -> Nat], kind : [Layers -> Kinds]]
    BY <1>1, <1>4, <1>6 DEF Snapshot
  <1>9. SceneTypes'
    BY <1>3, <1>7, <1>8 DEF SceneTypes
  <1>10. CarefulClient => HierarchiesDescribe'
    BY <1>5, <1>7 DEF HierarchiesDescribe
  <1>11. RefitsCounted'
    BY <1>1, <1>4, <1>7 DEF RefitsCounted
  <1>12. WorkTypes' /\ MarksAreComplete'
    BY <1>2 DEF WorkTypes, MarksAreComplete
  <1>13. QED
    BY <1>9, <1>10, <1>11, <1>12 DEF IInv

LEMMA NextInv ==
  ASSUME LifecycleAssumption, IInv, [Next]_vars
  PROVE  IInv'
  <1>1. CASE Next
    BY <1>1, BuilderInv, BuildInv, BeginUpdateInv, UpdateInstanceInv, AddInstanceInv,
       RemoveInstanceInv, ReplaceMeshInv, AbandonInv, CommitUpdateInv DEF Next
  <1>2. CASE UNCHANGED vars
    BY <1>2 DEF vars, IInv, SceneTypes, WorkTypes, MarksAreComplete, Keeps, KeepsBounds,
       RefitsCounted, HierarchiesDescribe
  <1>3. QED
    BY <1>1, <1>2

-----------------------------------------------------------------------------
(* The theorems.                                                           *)

\* Snapshots and transactions are well formed, a transaction marks whatever it
\* touched, the refit counters count, and for a careful client every hierarchy of a
\* snapshot is the one a build from nothing would make (lib.rs, apply_deltas).
THEOREM LifecycleInvariant ==
  ASSUME LifecycleAssumption
  PROVE  Spec => []IInv
  BY InitInv, NextInv, PTL DEF Spec

\* The types of the snapshot, of the builder or transaction, and of the history.
THEOREM LifecycleTypes ==
  ASSUME LifecycleAssumption
  PROVE  Spec => []TypeOK
  <1>1. ASSUME IInv PROVE TypeOK
    <2>1. ASSUME scene # Absent
          PROVE  /\ DOMAIN scene = {"resources", "drafts", "tlas", "refits", "kind"}
                 /\ SceneOK(scene)
                 /\ \A l \in Layers : DOMAIN scene.tlas[l] \subseteq Nat
                 /\ scene.refits \in [Layers -> Nat]
                 /\ scene.kind \in [Layers -> Kinds]
      <3>1. /\ scene \in [resources : Seq(Shapes), drafts : Seq(Draft), tlas : [Layers -> Tlases],
                          refits : [Layers -> Nat], kind : [Layers -> Kinds]]
            /\ Consistent(scene.resources, scene.drafts)
        BY <1>1, <2>1 DEF IInv, SceneTypes
      <3>2. ASSUME NEW l \in Layers PROVE DOMAIN scene.tlas[l] \subseteq Nat
        <4>1. scene.tlas[l] \in Tlases
          BY <3>1
        <4>2. PICK S \in SUBSET Nat : scene.tlas[l] \in [S -> Boxes]
          BY <4>1 DEF Tlases
        <4>3. DOMAIN scene.tlas[l] = S
          BY <4>2
        <4>4. QED
          BY <4>3
      <3>3. QED
        BY <3>1, <3>2 DEF SceneOK, Consistent
    <2>2. ASSUME work # Absent
          PROVE  /\ DOMAIN work = {"resources", "drafts", "deltas", "change"}
                 /\ SceneOK(work)
                 /\ work.deltas \in 0..MaxDeltas
                 /\ work.change \in [Layers -> LayerChange]
      BY <1>1, <2>2 DEF IInv, WorkTypes, SceneOK, Consistent
    <2>3. QED
      BY <1>1, <2>1, <2>2 DEF TypeOK, IInv, RefitsCounted
  <1>2. QED
    BY <1>1, LifecycleInvariant, PTL

\* For a client whose transactions do not change the number of static occurrences beside
\* an untouched dynamic layer: whatever was reused, refitted or rebuilt, a query through
\* the hierarchies reports exactly the occurrences a search over all drafts finds
\* (trace_tlas, lib.rs).
THEOREM QueriesAreComplete ==
  ASSUME LifecycleAssumption, CarefulClient
  PROVE  Spec => []QueriesSeeTheScene
  <1>1. ASSUME IInv PROVE QueriesSeeTheScene
    <2>1. SUFFICES ASSUME scene # Absent, NEW box \in Boxes
                   PROVE  /\ Reached(scene, box) \subseteq DOMAIN scene.drafts
                          /\ Trace(scene, box) = BruteForce(scene, box)
      BY DEF QueriesSeeTheScene
    <2>2. \A l \in Layers : scene.tlas[l] = BuiltTlas(scene.resources, scene.drafts, l)
      BY <1>1, <2>1 DEF IInv, HierarchiesDescribe
    <2>3. \A i \in DOMAIN scene.drafts : scene.drafts[i].layer \in Layers
      BY <1>1, <2>1 DEF IInv, SceneTypes, Sorted, Layered
    <2>4. Reached(scene, box) = {i \in DOMAIN scene.drafts : Box(scene.resources, scene.drafts[i]) = box}
      <3>1. ASSUME NEW l \in Layers
            PROVE  /\ DOMAIN scene.tlas[l] = InLayer(scene.drafts, l)
                   /\ \A i \in InLayer(scene.drafts, l) :
                        scene.tlas[l][i] = Box(scene.resources, scene.drafts[i])
        BY <2>2 DEF BuiltTlas
      <3>2. ASSUME NEW i
            PROVE  i \in Reached(scene, box) <=>
                     \E l \in Layers : i \in DOMAIN scene.tlas[l] /\ scene.tlas[l][i] = box
        BY DEF Reached
      <3>3. ASSUME NEW i \in Reached(scene, box)
            PROVE  i \in DOMAIN scene.drafts /\ Box(scene.resources, scene.drafts[i]) = box
        <4>1. PICK l \in Layers : i \in DOMAIN scene.tlas[l] /\ scene.tlas[l][i] = box
          BY <3>2
        <4>2. QED
          BY <3>1, <4>1 DEF InLayer
      <3>4. ASSUME NEW i \in DOMAIN scene.drafts, Box(scene.resources, scene.drafts[i]) = box
            PROVE  i \in Reached(scene, box)
        <4>1. scene.drafts[i].layer \in Layers /\ i \in InLayer(scene.drafts, scene.drafts[i].layer)
          BY <2>3 DEF InLayer
        <4>2. QED
          BY <3>1, <3>2, <3>4, <4>1
      <3>5. QED
        BY <3>3, <3>4
    <2>5. Trace(scene, box) = BruteForce(scene, box)
      BY <2>4 DEF Trace, BruteForce, Elements
    <2>6. QED
      BY <2>4, <2>5
  <1>2. QED
    BY <1>1, LifecycleInvariant, PTL

\* No hierarchy lives on more refits than the policy allows, also when transactions that
\* leave it alone come between them (update_hierarchy).
THEOREM RefitsAreBounded ==
  ASSUME LifecycleAssumption
  PROVE  Spec => []RefitsBounded
  <1>1. IInv => RefitsBounded
    BY DEF IInv, RefitsCounted, RefitsBounded
  <1>2. QED
    BY <1>1, LifecycleInvariant, PTL

\* For the same client: "reused" is reported only if every occurrence of the layer kept
\* its bounds, "refit" only if the layer kept its occurrences in their order
\* (HierarchyUpdateKind, lib.rs:95-98).
THEOREM ReportsAreTruthful ==
  ASSUME LifecycleAssumption, CarefulClient
  PROVE  Spec => ReportIsTruthful
  <1> DEFINE Honest == scene # Absent /\ work # Absent /\ work' = Absent /\ scene' # scene =>
               \A l \in Layers :
                 /\ scene'.kind[l] = "reused" => LayerRows(scene', l) = LayerRows(scene, l)
                 /\ scene'.kind[l] = "refit" => LayerOrder(scene', l) = LayerOrder(scene, l)
  <1>1. ASSUME IInv, [Next]_vars PROVE [Honest]_vars
    <2>1. SUFFICES ASSUME scene # Absent, work # Absent, scene' # scene, NEW l \in Layers
                   PROVE  /\ scene'.kind[l] = "reused" => LayerRows(scene', l) = LayerRows(scene, l)
                          /\ scene'.kind[l] = "refit" => LayerOrder(scene', l) = LayerOrder(scene, l)
      OBVIOUS
    <2>2. CommitUpdate
      BY <1>1, <2>1 DEF Next, vars, NewBuilder, AddMesh, PlaceInstance, RefuseBuild, Build,
         BeginUpdate, UpdateInstance, AddInstance, RemoveInstance, ReplaceMesh, Abandon
    <2> DEFINE drafts == StaticsFirst(work.drafts)
    <2>3. PICK new : /\ \A k \in Layers :
                          new[k] \in Revisions(scene.tlas[k], scene.refits[k], work.change[k],
                                               work.resources, drafts, k)
                     /\ scene' = Snapshot(work.resources, drafts, new)
      BY <2>2, CommitFacts
    <2>4. StaticCountKept
      BY <2>2, CommitFacts
    <2>5. /\ scene'.resources = work.resources /\ scene'.drafts = drafts
          /\ scene'.kind[l] = new[l].kind
      BY <2>3 DEF Snapshot
    <2>6. /\ new[l].kind = "reused" => ~work.change[l].bounds /\ ~work.change[l].topology
          /\ new[l].kind = "refit" => ~work.change[l].topology
      <3>1. scene.refits[l] \in Nat /\ work.change[l] \in LayerChange
        BY <1>1, <2>1 DEF IInv, SceneTypes, WorkTypes
      <3>2. QED
        BY <2>3, <3>1, RevisionCases
    <2>7. ~work.change[l].topology =>
            /\ InLayer(drafts, l) = InLayer(scene.drafts, l)
            /\ \A i \in InLayer(scene.drafts, l) :
                 /\ drafts[i].id = scene.drafts[i].id
                 /\ ~work.change[l].bounds =>
                      Box(work.resources, drafts[i]) = Box(scene.resources, scene.drafts[i])
      BY <1>1, <2>1, <2>4, LayerReturns
    <2> HIDE DEF drafts
    <2>8. QED
      BY <2>5, <2>6, <2>7 DEF LayerRows, LayerOrder
  <1>2. QED
    BY <1>1, LifecycleInvariant, PTL DEF Spec, ReportIsTruthful
=============================================================================
