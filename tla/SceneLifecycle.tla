--------------------------- MODULE SceneLifecycle ---------------------------
(***************************************************************************)
(* The life of a compiled ray scene (crates/xvarna-scene): a builder is     *)
(* filled and frozen into an immutable snapshot, and ordered transactions   *)
(* of deltas derive the next snapshot from it.  A snapshot keeps one        *)
(* acceleration hierarchy (TLAS) per layer; a transaction reuses, refits or *)
(* rebuilds each of them according to what it did to that layer.  A query   *)
(* finds occurrences only through the hierarchies, so a hierarchy that no   *)
(* longer describes the drafts is a wrong answer.                           *)
(*                                                                          *)
(* Abstractions.  A mesh is its content (a member of Shapes), a transform   *)
(* is a place, the object identifier and the category bits of an occurrence *)
(* are one label.  An occurrence's bounds are the pair of its mesh's shape  *)
(* and its place: two pairs stand for two disjoint boxes, and a probe is a  *)
(* ray that meets exactly one of them.  A hierarchy is the function from    *)
(* the instance indices it stores to the bounds it recorded for them        *)
(* (leaves of one primitive, the strictest pruning).  Whether a refit       *)
(* degrades the surface-area cost beyond the policy is left open; so a      *)
(* transaction with a smaller limit of refits, which rebuilds earlier, is   *)
(* among the behaviours.                                                    *)
(***************************************************************************)
EXTENDS Integers, Sequences, FiniteSets

CONSTANTS
  Instances,      \* identifiers of occurrences
  Shapes,         \* contents of a mesh
  Places,         \* transforms of an occurrence
  Labels,         \* object and category of an occurrence
  Absent,         \* no scene, or no builder or transaction under way
  MaximumRefits,  \* the largest policy.maximum_consecutive_refits of a transaction
  MaxMeshes,      \* bound: mesh resources of a scene
  MaxDeltas,      \* bound: deltas of a transaction
  CarefulClient   \* TRUE: no transaction changes the number of static
                  \* occurrences beside an otherwise unchanged dynamic layer

LifecycleAssumption ==
  /\ MaximumRefits \in Nat \ {0}
  /\ MaxMeshes \in Nat /\ MaxDeltas \in Nat
  /\ CarefulClient \in BOOLEAN

VARIABLES
  scene,  \* the current snapshot, or Absent
  work,   \* the builder or the transaction being filled, or Absent
  age     \* history: refits of each hierarchy since its last rebuild

vars == <<scene, work, age>>

Layers == {"static", "dynamic"}

Kinds == {"reused", "refit", "rebuilt"}

Draft == [id : Instances, mesh : Nat \ {0}, place : Places,
          label : Labels, layer : Layers]

LayerChange == [changed : BOOLEAN, bounds : BOOLEAN, topology : BOOLEAN]

Unchanged == [changed |-> FALSE, bounds |-> FALSE, topology |-> FALSE]

Boxes == Shapes \X Places

Box(resources, draft) == <<resources[draft.mesh], draft.place>>

Elements(s) == {s[i] : i \in DOMAIN s}

InLayer(drafts, layer) == {i \in DOMAIN drafts : drafts[i].layer = layer}

-----------------------------------------------------------------------------
(* The stable sort of compile_scene: static occurrences first.             *)

Position(drafts, i) ==
  LET before == {j \in 1..i : drafts[j].layer = drafts[i].layer}
  IN  IF drafts[i].layer = "static"
      THEN Cardinality(before)
      ELSE Cardinality(InLayer(drafts, "static")) + Cardinality(before)

StaticsFirst(drafts) ==
  [k \in DOMAIN drafts |->
     drafts[CHOOSE i \in DOMAIN drafts : Position(drafts, i) = k]]

-----------------------------------------------------------------------------
(* The hierarchies: built, refitted, and the choice between the two.       *)

\* The primitives carry the index of the occurrence among ALL the drafts.
BuiltTlas(resources, drafts, layer) ==
  [i \in InLayer(drafts, layer) |-> Box(resources, drafts[i])]

RefitTlas(old, resources, drafts) ==
  [i \in DOMAIN old |-> Box(resources, drafts[i])]

\* Bvh::refit refuses an index beyond the bounds it is given, no other one.
RefitIsValid(old, drafts) == DOMAIN old \subseteq DOMAIN drafts

Hierarchy(tlas, kind, refits) == [tlas |-> tlas, kind |-> kind, refits |-> refits]

\* Mutant of Revisions: a reused hierarchy starts to count its refits anew.
RevisionsForgetRefits(old, refits, change, resources, drafts, layer) ==
  LET rebuild == Hierarchy(BuiltTlas(resources, drafts, layer), "rebuilt", 0)
      refit == Hierarchy(RefitTlas(old, resources, drafts), "refit", refits + 1)
  IN  IF ~change.bounds /\ ~change.topology
      THEN {Hierarchy(old, "reused", 0)}
      ELSE IF change.topology \/ refits >= MaximumRefits
           THEN {rebuild}
           ELSE {refit, rebuild}

\* The choice for a layer that has a previous hierarchy.
Revisions(old, refits, change, resources, drafts, layer) ==
  LET reuse == Hierarchy(old, "reused", refits)
      rebuild == Hierarchy(BuiltTlas(resources, drafts, layer), "rebuilt", 0)
      refit == Hierarchy(RefitTlas(old, resources, drafts), "refit", refits + 1)
  IN  IF ~change.bounds /\ ~change.topology
      THEN {reuse}
      ELSE IF \/ change.topology
              \/ InLayer(drafts, layer) = {}
              \/ ~RefitIsValid(old, drafts)
              \/ refits >= MaximumRefits
           THEN {rebuild}
           ELSE {refit, rebuild}

Snapshot(resources, drafts, hierarchies) ==
  [resources |-> resources,
   drafts |-> drafts,
   tlas |-> [l \in Layers |-> hierarchies[l].tlas],
   refits |-> [l \in Layers |-> hierarchies[l].refits],
   kind |-> [l \in Layers |-> hierarchies[l].kind]]

-----------------------------------------------------------------------------
(* What a delta does to the drafts and to the change of each layer.         *)

Mark(change, layer, bounds, topology) ==
  [change EXCEPT ![layer] = [changed |-> TRUE,
                             bounds |-> @.bounds \/ bounds,
                             topology |-> @.topology \/ topology]]

\* Mutant of MarkUpdate: a migration is marked in the layer it leaves only.
MarkSourceOnly(change, old, new) ==
  IF old = new THEN change
  ELSE Mark(change, old.layer, old.place # new.place, old.layer # new.layer)

MarkUpdate(change, old, new) ==
  LET moved == old.place # new.place
      migrated == old.layer # new.layer
      first == Mark(change, old.layer, moved, migrated)
  IN  IF old = new THEN change
      ELSE IF migrated THEN Mark(first, new.layer, TRUE, TRUE)
           ELSE first

\* Mutant of MarkReplaced: only the first occurrence's layer is marked.
MarkFirstUser(change, drafts, mesh) ==
  LET users == {i \in DOMAIN drafts : drafts[i].mesh = mesh}
  IN  IF users = {} THEN change
      ELSE Mark(change, drafts[CHOOSE i \in users : \A j \in users : i <= j].layer,
                TRUE, FALSE)

\* Every layer with an occurrence of the mesh has new bounds.
MarkReplaced(change, drafts, mesh) ==
  [l \in Layers |->
     IF \E i \in InLayer(drafts, l) : drafts[i].mesh = mesh
     THEN Mark(change, l, TRUE, FALSE)[l]
     ELSE change[l]]

RemoveIndex(s, i) ==
  [k \in 1..(Len(s) - 1) |-> IF k < i THEN s[k] ELSE s[k + 1]]

Ids(drafts) == {drafts[i].id : i \in DOMAIN drafts}

-----------------------------------------------------------------------------
(* The builder.                                                            *)

NewBuilder ==
  /\ scene = Absent /\ work = Absent
  /\ work' = [resources |-> <<>>, drafts |-> <<>>, deltas |-> 0,
              change |-> [l \in Layers |-> Unchanged]]
  /\ UNCHANGED <<scene, age>>

\* A mesh whose content the builder already holds is shared, not added.
AddMesh ==
  /\ scene = Absent /\ work # Absent
  /\ \E shape \in Shapes \ Elements(work.resources) :
       /\ Len(work.resources) < MaxMeshes
       /\ work' = [work EXCEPT !.resources = Append(@, shape)]
  /\ UNCHANGED <<scene, age>>

PlaceInstance ==
  /\ scene = Absent /\ work # Absent
  /\ \E id \in Instances \ Ids(work.drafts), mesh \in DOMAIN work.resources,
        place \in Places, label \in Labels, layer \in Layers :
       work' = [work EXCEPT !.drafts =
                  Append(@, [id |-> id, mesh |-> mesh, place |-> place,
                             label |-> label, layer |-> layer])]
  /\ UNCHANGED <<scene, age>>

\* build() consumes the builder, also when it refuses to freeze it: nothing was
\* added, a transform has no inverse, or no threads are to be had.
RefuseBuild ==
  /\ scene = Absent /\ work # Absent
  /\ work' = Absent
  /\ UNCHANGED <<scene, age>>

Build ==
  /\ scene = Absent /\ work # Absent
  /\ work.resources # <<>> /\ work.drafts # <<>>
  /\ LET drafts == StaticsFirst(work.drafts)
     IN  scene' = Snapshot(work.resources, drafts,
                    [l \in Layers |->
                       Hierarchy(BuiltTlas(work.resources, drafts, l), "rebuilt", 0)])
  /\ age' = [l \in Layers |-> 0]
  /\ work' = Absent

-----------------------------------------------------------------------------
(* apply_deltas: the transaction works on copies of the snapshot's vectors. *)

BeginUpdate ==
  /\ scene # Absent /\ work = Absent
  /\ work' = [resources |-> scene.resources, drafts |-> scene.drafts, deltas |-> 0,
              change |-> [l \in Layers |-> Unchanged]]
  /\ UNCHANGED <<scene, age>>

InTransaction ==
  /\ scene # Absent /\ work # Absent
  /\ work.deltas < MaxDeltas

UpdateInstance ==
  /\ InTransaction
  /\ \E i \in DOMAIN work.drafts, place \in Places, label \in Labels, layer \in Layers :
       LET old == work.drafts[i]
           new == [old EXCEPT !.place = place, !.label = label, !.layer = layer]
       IN  work' = [work EXCEPT !.drafts[i] = new,
                                !.change = MarkUpdate(@, old, new),
                                !.deltas = @ + 1]
  /\ UNCHANGED <<scene, age>>

AddInstance ==
  /\ InTransaction
  /\ \E id \in Instances \ Ids(work.drafts), mesh \in DOMAIN work.resources,
        place \in Places, label \in Labels, layer \in Layers :
       work' = [work EXCEPT
                  !.drafts = Append(@, [id |-> id, mesh |-> mesh, place |-> place,
                                        label |-> label, layer |-> layer]),
                  !.change = Mark(@, layer, TRUE, TRUE),
                  !.deltas = @ + 1]
  /\ UNCHANGED <<scene, age>>

RemoveInstance ==
  /\ InTransaction
  /\ \E i \in DOMAIN work.drafts :
       work' = [work EXCEPT !.drafts = RemoveIndex(@, i),
                            !.change = Mark(@, work.drafts[i].layer, TRUE, TRUE),
                            !.deltas = @ + 1]
  /\ UNCHANGED <<scene, age>>

\* A replacement with the same content is skipped (it still counts as a delta).
ReplaceMesh ==
  /\ InTransaction
  /\ \E mesh \in DOMAIN work.resources, shape \in Shapes :
       work' = [work EXCEPT
                  !.resources[mesh] = shape,
                  !.change = IF shape = work.resources[mesh] THEN @
                             ELSE MarkReplaced(@, work.drafts, mesh),
                  !.deltas = @ + 1]
  /\ UNCHANGED <<scene, age>>

\* An unknown or duplicate identifier, a transaction that leaves no occurrence, or
\* a compilation that fails as a build may: the copies are dropped and the snapshot stays as it was.
Abandon ==
  /\ scene # Absent /\ work # Absent
  /\ work' = Absent
  /\ UNCHANGED <<scene, age>>

\* What CarefulClient asks of a transaction before it is applied.
StaticCountKept ==
  \/ Cardinality(InLayer(work.drafts, "static")) =
       Cardinality(InLayer(scene.drafts, "static"))
  \/ work.change["dynamic"].topology
  \/ InLayer(work.drafts, "dynamic") = {}

Aged(kind, refits) ==
  CASE kind = "rebuilt" -> 0
    [] kind = "refit" -> refits + 1
    [] OTHER -> refits

CommitUpdate ==
  /\ scene # Absent /\ work # Absent
  /\ work.drafts # <<>>
  /\ CarefulClient => StaticCountKept
  /\ LET drafts == StaticsFirst(work.drafts)
         revised(l) == Revisions(scene.tlas[l], scene.refits[l], work.change[l],
                                 work.resources, drafts, l)
     IN  \E s \in revised("static"), d \in revised("dynamic") :
           LET new == [l \in Layers |-> IF l = "static" THEN s ELSE d]
           IN  /\ scene' = Snapshot(work.resources, drafts, new)
               /\ age' = [l \in Layers |-> Aged(new[l].kind, age[l])]
  /\ work' = Absent

-----------------------------------------------------------------------------

Init ==
  /\ scene = Absent
  /\ work = Absent
  /\ age = [l \in Layers |-> 0]

Next ==
  \/ NewBuilder \/ AddMesh \/ PlaceInstance \/ RefuseBuild \/ Build
  \/ BeginUpdate \/ UpdateInstance \/ AddInstance \/ RemoveInstance
  \/ ReplaceMesh \/ Abandon \/ CommitUpdate

Spec == Init /\ [][Next]_vars

-----------------------------------------------------------------------------
(* Queries of a snapshot.                                                  *)

\* The indices whose recorded bounds meet a probe: trace_tlas reaches them.
Reached(s, box) ==
  UNION {{i \in DOMAIN s.tlas[l] : s.tlas[l][i] = box} : l \in Layers}

\* The occurrences a probe reports, with the object and category it reports.
Trace(s, box) ==
  {<<s.drafts[i].id, s.drafts[i].label>> :
     i \in {j \in Reached(s, box) \cap DOMAIN s.drafts :
              Box(s.resources, s.drafts[j]) = box}}

\* The occurrences whose bounds meet the probe, found without any hierarchy.
BruteForce(s, box) ==
  {<<d.id, d.label>> : d \in {e \in Elements(s.drafts) : Box(s.resources, e) = box}}

-----------------------------------------------------------------------------
(* Properties.                                                             *)

SceneOK(s) ==
  /\ s.resources \in Seq(Shapes)
  /\ s.drafts \in Seq(Draft)
  /\ \A i \in DOMAIN s.drafts : s.drafts[i].mesh \in DOMAIN s.resources
  /\ \A i, j \in DOMAIN s.drafts : s.drafts[i].id = s.drafts[j].id => i = j

\* Types: vectors of resources and drafts with distinct identifiers, one
\* hierarchy, refit counter and report per layer (lib.rs, Scene, LayerChange).
TypeOK ==
  /\ scene # Absent =>
       /\ DOMAIN scene = {"resources", "drafts", "tlas", "refits", "kind"}
       /\ SceneOK(scene)
       /\ \A l \in Layers : DOMAIN scene.tlas[l] \subseteq Nat
       /\ scene.refits \in [Layers -> Nat]
       /\ scene.kind \in [Layers -> Kinds]
  /\ work # Absent =>
       /\ DOMAIN work = {"resources", "drafts", "deltas", "change"}
       /\ SceneOK(work)
       /\ work.deltas \in 0..MaxDeltas
       /\ work.change \in [Layers -> LayerChange]
  /\ age \in [Layers -> Nat]

\* Whatever was reused, refitted or rebuilt, a query through the hierarchies
\* never follows an index that is out of range and reports exactly the
\* occurrences a search over all drafts finds (trace_tlas, lib.rs).
QueriesSeeTheScene ==
  scene # Absent =>
    \A box \in Boxes :
      /\ Reached(scene, box) \subseteq DOMAIN scene.drafts
      /\ Trace(scene, box) = BruteForce(scene, box)

\* No hierarchy lives on more refits than the policy allows, also when
\* transactions that leave it alone come between them (update_hierarchy).
RefitsBounded == \A l \in Layers : age[l] <= MaximumRefits

LayerRows(s, l) ==
  {<<s.drafts[i].id, Box(s.resources, s.drafts[i])>> : i \in InLayer(s.drafts, l)}

LayerOrder(s, l) == [i \in InLayer(s.drafts, l) |-> s.drafts[i].id]

\* The report of a transaction tells the truth about a layer: "reused" only
\* if every occurrence of the layer kept its bounds, "refit" only if the layer
\* kept its occurrences in their order (HierarchyUpdateKind, lib.rs:95-98).
ReportIsTruthful ==
  [][scene # Absent /\ work # Absent /\ work' = Absent /\ scene' # scene =>
       \A l \in Layers :
         /\ scene'.kind[l] = "reused" => LayerRows(scene', l) = LayerRows(scene, l)
         /\ scene'.kind[l] = "refit" => LayerOrder(scene', l) = LayerOrder(scene, l)]_vars

\* What the documentation of HierarchyUpdateKind::Reused says of a reused
\* hierarchy, whatever the transaction: it and its bounds remained valid.
ReusedStaysValid ==
  scene # Absent =>
    \A l \in Layers :
      scene.kind[l] = "reused" =>
        scene.tlas[l] = BuiltTlas(scene.resources, scene.drafts, l)
=============================================================================
