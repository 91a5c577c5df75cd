---------------------------- MODULE SceneRegistry ----------------------------
(***************************************************************************)
(* The process-wide table of scenes behind the C ABI                        *)
(* (crates/xvarna-ffi/src/scene.rs): a counter hands out handles, a lock    *)
(* guards the map from a handle to a builder or a published snapshot, and   *)
(* any thread may make any call on any handle.  Building and updating are   *)
(* NOT done under the lock: build takes the builder out of the map and puts *)
(* a scene in its place when it is done; an update computes the next        *)
(* snapshot from the one it read and publishes it only if the content hash  *)
(* of the current one is still that of the one it read.                     *)
(*                                                                          *)
(* One action is one critical section of the lock, so the actions of two    *)
(* calls interleave exactly as their critical sections do.  The content of  *)
(* a scene is the function from its occurrences to what an update can set   *)
(* of them; SceneLifecycle says how a snapshot answers for its content.     *)
(* Queries take a reference to the current snapshot and change nothing:     *)
(* they see what `slots' holds when they enter.                             *)
(***************************************************************************)
EXTENDS Integers, FiniteSets

CONSTANTS
  Threads,     \* callers of the C ABI
  Occurrences, \* what a scene is made of
  Values,      \* what an edit can set of an occurrence
  Vacant,      \* no slot, no call, no content
  MaxHandles,  \* bound: handles created
  MaxEdits     \* bound: acknowledged edits of a handle when a call begins

ASSUME BoundAssumption == MaxHandles \in Nat /\ MaxEdits \in Nat

VARIABLES
  nextHandle,  \* NEXT_SCENE_HANDLE
  slots,       \* SCENES: the slot of every handle ever created, or Vacant
  call,        \* the call a thread is inside, or Vacant
  edits,       \* history: number of acknowledged edits of a handle
  serial,      \* history: the content those edits make one after the other
  released     \* history: handles whose release was acknowledged

registryVars == <<nextHandle, slots, call, edits, serial, released>>

Handles == 1..MaxHandles

Contents == UNION {[S -> Values] : S \in SUBSET Occurrences}

Empty == [o \in {} |-> Vacant]

Building(content) == [state |-> "building", content |-> content]
Ready(content) == [state |-> "ready", content |-> content]

\* An edit sets an occurrence (adding it if it is new) or removes it.
Edits == [occurrence : Occurrences, value : Values \cup {Vacant}]

Legal(content, edit) ==
  edit.value = Vacant =>
    /\ edit.occurrence \in DOMAIN content
    /\ DOMAIN content # {edit.occurrence}

Apply(content, edit) ==
  IF edit.value = Vacant
  THEN [o \in DOMAIN content \ {edit.occurrence} |-> content[o]]
  ELSE [o \in DOMAIN content \cup {edit.occurrence} |->
          IF o = edit.occurrence THEN edit.value ELSE content[o]]

Slots == [state : {"building", "ready"}, content : Contents]

Calls ==
  [op : {"build"}, handle : Handles, content : Contents]
    \cup [op : {"update"}, handle : Handles, edit : Edits, content : Contents,
          edits : Nat]

ASSUME VacantAssumption == Vacant \notin Slots \cup Calls

Is(handle, state) == slots[handle] # Vacant /\ slots[handle].state = state

Idle(t) == call[t] = Vacant

Enter(t, record) == call' = [call EXCEPT ![t] = record]
Leave(t) == call' = [call EXCEPT ![t] = Vacant]

Acknowledge(handle, edit) ==
  /\ edits' = [edits EXCEPT ![handle] = @ + 1]
  /\ serial' = [serial EXCEPT ![handle] = Apply(@, edit)]

-----------------------------------------------------------------------------
(* Creating and filling a builder.                                         *)

Create(t) ==
  /\ Idle(t)
  /\ nextHandle <= MaxHandles
  /\ nextHandle' = nextHandle + 1
  /\ slots' = [slots EXCEPT ![nextHandle] = Building(Empty)]
  /\ UNCHANGED <<call, edits, serial, released>>

\* xv_scene_add_mesh and xv_scene_add_instance(_layered): one critical section.
Fill(t, handle) ==
  /\ Idle(t)
  /\ Is(handle, "building")
  /\ edits[handle] < MaxEdits
  /\ \E o \in Occurrences \ DOMAIN slots[handle].content, v \in Values :
       LET edit == [occurrence |-> o, value |-> v]
       IN  /\ slots' = [slots EXCEPT ![handle].content = Apply(@, edit)]
           /\ Acknowledge(handle, edit)
  /\ UNCHANGED <<nextHandle, call, released>>

-----------------------------------------------------------------------------
(* Building: the handle has no slot while the scene compiles.              *)

TakeBuilder(t, handle) ==
  /\ Idle(t)
  /\ Is(handle, "building")
  /\ Enter(t, [op |-> "build", handle |-> handle, content |-> slots[handle].content])
  /\ slots' = [slots EXCEPT ![handle] = Vacant]
  /\ UNCHANGED <<nextHandle, edits, serial, released>>

\* The handle is in the table again, whatever happened to it meanwhile.
PublishBuild(t) ==
  /\ ~Idle(t) /\ call[t].op = "build"
  /\ call[t].content # Empty
  /\ slots' = [slots EXCEPT ![call[t].handle] = Ready(call[t].content)]
  /\ Leave(t)
  /\ UNCHANGED <<nextHandle, edits, serial, released>>

\* An empty scene or a transform without inverse: the builder is gone.
FailBuild(t) ==
  /\ ~Idle(t) /\ call[t].op = "build"
  /\ Leave(t)
  /\ UNCHANGED <<nextHandle, slots, edits, serial, released>>

-----------------------------------------------------------------------------
(* Updating: xv_scene_apply_instance_deltas and xv_scene_replace_mesh.     *)

\* get_ready_scene, then apply_deltas outside the lock; an edit the snapshot
\* refuses returns an error and changes nothing.
ReadForUpdate(t, handle) ==
  /\ Idle(t)
  /\ Is(handle, "ready")
  /\ edits[handle] < MaxEdits
  /\ \E edit \in Edits :
       /\ Legal(slots[handle].content, edit)
       /\ Enter(t, [op |-> "update", handle |-> handle, edit |-> edit,
                    content |-> slots[handle].content, edits |-> edits[handle]])
  /\ UNCHANGED <<nextHandle, slots, edits, serial, released>>

\* Mutant of Publishable: the hash is compared only if the slot is there.
PublishableIfGone(t) ==
  slots[call[t].handle] # Vacant =>
    /\ Is(call[t].handle, "ready")
    /\ slots[call[t].handle].content = call[t].content

\* Mutant of Publishable: the snapshot read is not compared.
PublishableUnchecked(t) == Is(call[t].handle, "ready")

\* The content hash of the current snapshot is that of the one that was read.
Publishable(t) ==
  /\ Is(call[t].handle, "ready")
  /\ slots[call[t].handle].content = call[t].content

PublishUpdate(t) ==
  /\ ~Idle(t) /\ call[t].op = "update"
  /\ Publishable(t)
  /\ slots' = [slots EXCEPT ![call[t].handle] =
                 Ready(Apply(call[t].content, call[t].edit))]
  /\ Acknowledge(call[t].handle, call[t].edit)
  /\ Leave(t)
  /\ UNCHANGED <<nextHandle, released>>

\* Mutant of Conflicting: any other update under way is a conflict.
ConflictingCalls(t) ==
  Is(call[t].handle, "ready") =>
    \E u \in Threads \ {t} : ~Idle(u) /\ call[u].handle = call[t].handle

\* Where contents are equal the hash still tells the order of occurrences
\* apart, which a removal and a re-addition change.
Conflicting(t) ==
  Is(call[t].handle, "ready") =>
    \/ slots[call[t].handle].content # call[t].content
    \/ edits[call[t].handle] > call[t].edits + 1

RefuseUpdate(t) ==
  /\ ~Idle(t) /\ call[t].op = "update"
  /\ Conflicting(t)
  /\ Leave(t)
  /\ UNCHANGED <<nextHandle, slots, edits, serial, released>>

-----------------------------------------------------------------------------
(* Releasing.                                                              *)

\* A handle without a slot is refused, also while its scene compiles.
Release(t, handle) ==
  /\ Idle(t)
  /\ slots[handle] # Vacant
  /\ slots' = [slots EXCEPT ![handle] = Vacant]
  /\ released' = released \cup {handle}
  /\ UNCHANGED <<nextHandle, call, edits, serial>>

-----------------------------------------------------------------------------

RegistryInit ==
  /\ nextHandle = 1
  /\ slots = [h \in Handles |-> Vacant]
  /\ call = [t \in Threads |-> Vacant]
  /\ edits = [h \in Handles |-> 0]
  /\ serial = [h \in Handles |-> Empty]
  /\ released = {}

CallOn(t, handle) ==
  \/ Fill(t, handle) \/ TakeBuilder(t, handle) \/ ReadForUpdate(t, handle)
  \/ Release(t, handle)

Return(t) ==
  \/ PublishBuild(t) \/ FailBuild(t) \/ PublishUpdate(t) \/ RefuseUpdate(t)

RegistryNext ==
  \E t \in Threads :
    \/ Create(t)
    \/ \E handle \in Handles : CallOn(t, handle)
    \/ Return(t)

RegistrySpec == RegistryInit /\ [][RegistryNext]_registryVars

(* Properties.                                                             *)

InFlight(t, op) == ~Idle(t) /\ call[t].op = op

\* Types: a slot is absent, a builder or a snapshot; a call under way is a
\* build or an update of a handle that exists (scene.rs, SceneSlot).
RegistryTypeOK ==
  /\ nextHandle \in 1..(MaxHandles + 1)
  /\ slots \in [Handles -> Slots \cup {Vacant}]
  /\ call \in [Threads -> Calls \cup {Vacant}]
  /\ \A t \in Threads : ~Idle(t) => call[t].handle < nextHandle
  /\ edits \in [Handles -> Nat]
  /\ serial \in [Handles -> Contents]
  /\ released \subseteq 1..(nextHandle - 1)

\* Whatever builds and updates overlap, what a handle holds, and so what a
\* query sees, is the result of every acknowledged edit, each applied to the
\* result of the one before: none is lost, applied twice or applied to a
\* content that was not current (scene.rs:447-519, 529-599).
SerialUpdates ==
  \A h \in Handles : slots[h] # Vacant => slots[h].content = serial[h]

\* A handle whose release was acknowledged is never valid again: no update
\* that was under way publishes to it and no build brings it back
\* (scene.rs:665-671 against 505-513 and 432).
ReleasedStaysReleased ==
  \A h \in released :
    /\ slots[h] = Vacant
    /\ \A t \in Threads : InFlight(t, "build") => call[t].handle # h

\* The optimistic updates make progress: one is refused only because another
\* edit of the same handle was acknowledged since it began, or because the
\* handle was released (scene.rs:505-513).
OnlyRealConflicts ==
  [][\A t \in Threads :
       LET h == call[t].handle
       IN  InFlight(t, "update") /\ call'[t] = Vacant /\ edits' = edits =>
             edits[h] > call[t].edits \/ h \in released]_registryVars
=============================================================================
