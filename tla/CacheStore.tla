----------------------------- MODULE CacheStore -----------------------------
(***************************************************************************)
(* The two-tier payload cache (crates/xvarna-cache): a memory tier guarded  *)
(* by a mutex, a disk tier of one file per key guarded by nothing, and a    *)
(* budget for each.  A call is a sequence of file-system steps and of       *)
(* critical sections of the mutex; the calls of several threads interleave. *)
(* The process may die between any two steps and be started again.          *)
(*                                                                          *)
(* A key is the digest of what its payload is computed from, so a payload   *)
(* is known by its key.  A file is the set of writers that are not done     *)
(* with it; Dead stands for one that never will be, or for a disk that      *)
(* spoiled it.  Listing the directory is one step, and a file that is being *)
(* written has its final length.  The temporary files of a process that     *)
(* died carry its number in their name; nothing uses them again.            *)
(***************************************************************************)
EXTENDS Integers, Sequences, FiniteSets, FiniteSetsExt, SequencesExt

CONSTANTS
  Threads,       \* users of the store
  Keys,          \* cache keys
  Size,          \* bytes of a key's payload
  HeaderBytes,   \* bytes an entry adds to its payload
  MemoryBudget, DiskBudget,
  Absent,        \* no file, no call
  Dead,          \* the writer of a file that nobody will complete
  MaxFaults      \* bound: deaths of the process and spoiled files

ASSUME SizeAssumption == Size \in [Keys -> Nat] /\ HeaderBytes \in Nat
\* A budget of zero disables its tier, which is not modelled.
ASSUME BudgetAssumption == MemoryBudget \in Nat \ {0} /\ DiskBudget \in Nat \ {0}
ASSUME FaultAssumption == MaxFaults \in Nat
ASSUME WriterAssumption == Dead \notin Threads

VARIABLES
  file,        \* the file of a name, or Absent
  order,       \* the names that have a file, by modification time
  memory,      \* the keys in memory, least recently used first
  memoryBytes, \* state.memory_bytes
  stats,       \* disk_bytes and disk_entry_count
  call,        \* the call a thread is inside, or Absent
  overlapped,  \* history: two calls were in progress at once since the start
  failures,    \* history: kinds of calls that failed although none overlapped
  faults       \* deaths of the process and spoiled files so far

history == <<failures, overlapped>>
vars == <<file, order, memory, memoryBytes, stats, call, history, faults>>
disk == <<file, order>>
ram == <<memory, memoryBytes>>

\* A call in progress: its key, the step it is at, the entries it will remove,
\* and the totals of the listing it made.
Steps ==
  {"reading", "restoring", "discarding", "recording", "writing", "replacing", "removing",
   "renaming", "inserting", "forgetting", "clearing", "listing", "counting", "choosing",
   "evicting", "listing again", "counting again"}
Calls ==
  [op : {"get", "put", "recover", "clear", "open"}, key : Keys \cup {Absent}, at : Steps,
   list : Seq(Keys), listed : [bytes : Nat, entries : Nat]]

ASSUME AbsentAssumption ==
  Absent \notin Calls /\ \A writers \in SUBSET (Threads \cup {Dead}) : Absent # writers

Entry(k) == <<k, "entry">>
Temporary(k) == <<k, "temporary">>
Names == Keys \X {"entry", "temporary"}

Entries == Keys \X {"entry"}

\* What keys weigh together: in memory their payloads, on disk their entries.
Total(weight, keys) == MapThenSumSet(LAMBDA k : weight[k], keys)
SizeOf(keys) == Total(Size, keys)
EntryBytes == [k \in Keys |-> HeaderBytes + Size[k]]
DiskBytes(keys) == Total(EntryBytes, keys)

\* The elements of s that are in S, in their order, and all but one of them.
Keep(s, S) ==
  LET at == {i \in DOMAIN s : s[i] \in S}
      Before(i) == Cardinality({j \in at : j < i})
  IN  [n \in 1..Cardinality(at) |-> s[CHOOSE i \in at : Before(i) = n - 1]]
Without(s, e) == Keep(s, ToSet(s) \ {e})

\* inventory: the entries in the directory, and its totals.
Empty == [bytes |-> 0, entries |-> 0]
Stored == {k \in Keys : file[Entry(k)] # Absent}
Inventory == [bytes |-> DiskBytes(Stored), entries |-> Cardinality(Stored)]

\* The entries that eviction removes: the oldest, until the rest fits.
Victims ==
  LET byAge == Keep(order, Entries)
      keys == [i \in 1..Len(byAge) |-> byAge[i][1]]
      Fits(n) == DiskBytes(Stored) - DiskBytes({keys[i] : i \in 1..n}) <= DiskBudget
  IN  SubSeq(keys, 1, Min({n \in 0..Len(keys) : Fits(n)}))

-----------------------------------------------------------------------------
(* Steps that several calls are made of.                                    *)

Inside(t, where) == call[t] # Absent /\ call[t].at = where
Goto(t, where) == call' = [call EXCEPT ![t].at = where]
Return(t) == call' = [call EXCEPT ![t] = Absent] /\ UNCHANGED history
Fail(t) ==
  /\ call' = [call EXCEPT ![t] = Absent]
  /\ failures' = failures \cup (IF overlapped THEN {} ELSE {call[t].op})
  /\ UNCHANGED overlapped

\* A call starts when the store is open and the thread is in no other call.
Opening == \E t \in Threads : call[t] # Absent /\ call[t].op = "open"
Begin(t, op, k, where, list) ==
  /\ call[t] = Absent /\ ~Opening
  /\ call' = [call EXCEPT ![t] = [op |-> op, key |-> k, at |-> where, list |-> list,
                                  listed |-> Empty]]
  /\ overlapped' = (overlapped \/ \E u \in Threads : call[u] # Absent)
  /\ UNCHANGED failures

Unlink(name) ==
  /\ file' = [file EXCEPT ![name] = Absent]
  /\ order' = Without(order, name)

\* Mutant of Insert: what an overwritten entry took is not given back.
InsertTwice(k) ==
  IF Size[k] > MemoryBudget THEN UNCHANGED ram
  ELSE LET rest == Without(memory, k)
           Left(n) == memoryBytes - SizeOf({rest[i] : i \in 1..n})
           evicted == Min({n \in 0..Len(rest) : Left(n) + Size[k] <= MemoryBudget} \cup {Len(rest)})
       IN  /\ memory' = Append(SubSeq(rest, evicted + 1, Len(rest)), k)
           /\ memoryBytes' = Left(evicted) + Size[k]

\* insert_memory: a payload that can never fit is not inserted; others take the
\* room of the least recently used.
Insert(k) ==
  IF Size[k] > MemoryBudget THEN UNCHANGED ram
  ELSE LET rest == Without(memory, k)
           bytes == memoryBytes - (IF Contains(memory, k) THEN Size[k] ELSE 0)
           Left(n) == bytes - SizeOf({rest[i] : i \in 1..n})
           evicted == Min({n \in 0..Len(rest) : Left(n) + Size[k] <= MemoryBudget})
       IN  /\ memory' = Append(SubSeq(rest, evicted + 1, Len(rest)), k)
           /\ memoryBytes' = Left(evicted) + Size[k]

\* refresh_disk_inventory: the directory is listed, then the totals are stored.
List(t) ==
  /\ Inside(t, "listing") \/ Inside(t, "listing again")
  /\ call' = [call EXCEPT ![t].listed = Inventory,
                          ![t].at = IF @ = "listing" THEN "counting" ELSE "counting again"]
  /\ UNCHANGED <<disk, ram, stats, history, faults>>

Count(t) ==
  /\ Inside(t, "counting") \/ Inside(t, "counting again")
  /\ stats' = call[t].listed
  /\ IF call[t].at = "counting" /\ call[t].op # "recover"
     THEN /\ call' = [call EXCEPT ![t].at = "choosing", ![t].listed = Empty]
          /\ UNCHANGED history
     ELSE Return(t)
  /\ UNCHANGED <<disk, ram, faults>>

\* Mutant of Choose: the newest entries are evicted.
ChooseNewest(t) ==
  /\ Inside(t, "choosing")
  /\ call' = [call EXCEPT ![t].list = IF Victims = <<>> THEN <<>> ELSE <<Last(order)[1]>>,
                          ![t].at = "evicting"]
  /\ UNCHANGED <<disk, ram, stats, history, faults>>

\* evict_disk_to_budget: the victims are chosen from one listing, then removed.
Choose(t) ==
  /\ Inside(t, "choosing")
  /\ call' = [call EXCEPT ![t].list = Victims, ![t].at = "evicting"]
  /\ UNCHANGED <<disk, ram, stats, history, faults>>

\* Removing a file that is gone is an error, and ends the call.
Evict(t) ==
  /\ Inside(t, "evicting")
  /\ \/ /\ call[t].list = <<>>
        /\ Goto(t, "listing again")
        /\ UNCHANGED <<disk, history>>
     \/ /\ call[t].list # <<>> /\ file[Entry(Head(call[t].list))] # Absent
        /\ Unlink(Entry(Head(call[t].list)))
        /\ call' = [call EXCEPT ![t].list = Tail(@)]
        /\ UNCHANGED history
     \/ /\ call[t].list # <<>> /\ file[Entry(Head(call[t].list))] = Absent
        /\ Fail(t)
        /\ UNCHANGED disk
  /\ UNCHANGED <<ram, stats, faults>>

-----------------------------------------------------------------------------
(* get.                                                                    *)

Hit(t, k) ==
  /\ call[t] = Absent /\ ~Opening
  /\ Contains(memory, k)
  /\ memory' = Append(Without(memory, k), k)
  /\ UNCHANGED <<disk, memoryBytes, stats, call, history, faults>>

Miss(t, k) ==
  /\ ~Contains(memory, k)
  /\ Begin(t, "get", k, "reading", <<>>)
  /\ UNCHANGED <<disk, ram, stats, faults>>

\* What is read passes the checksum if no writer is left, and fails it if one
\* will never be done; in between it may do either.
Read(t) ==
  /\ Inside(t, "reading")
  /\ LET found == file[Entry(call[t].key)]
     IN  \/ found = Absent /\ Return(t)
         \/ found # Absent /\ Dead \notin found /\ Goto(t, "restoring") /\ UNCHANGED history
         \/ found # Absent /\ found # {} /\ Goto(t, "discarding") /\ UNCHANGED history
  /\ UNCHANGED <<disk, ram, stats, faults>>

Restore(t) ==
  /\ Inside(t, "restoring")
  /\ Insert(call[t].key)
  /\ Return(t)
  /\ UNCHANGED <<disk, stats, faults>>

\* Whatever file has the name by now is removed; there may be none.
Discard(t) ==
  /\ Inside(t, "discarding")
  /\ Unlink(Entry(call[t].key))
  /\ Goto(t, "recording")
  /\ UNCHANGED <<ram, stats, history, faults>>

\* Mutant of Record: the bytes of a corrupt entry stay counted.
RecordMiss(t) ==
  /\ Inside(t, "recording")
  /\ Return(t)
  /\ UNCHANGED <<disk, ram, stats, faults>>

Record(t) ==
  /\ Inside(t, "recording")
  /\ stats' = [bytes |-> Max({0, stats.bytes - EntryBytes[call[t].key]}),
               entries |-> Max({0, stats.entries - 1})]
  /\ Return(t)
  /\ UNCHANGED <<disk, ram, faults>>

-----------------------------------------------------------------------------
(* put.  The temporary file is named after the key and the process.         *)

Put(t, k) ==
  /\ Begin(t, "put", k, "writing", <<>>)
  /\ LET name == Temporary(k)
     IN  /\ file' = [file EXCEPT ![name] = (IF @ = Absent THEN {} ELSE @) \cup {t}]
         /\ order' = Append(Without(order, name), name)
  /\ UNCHANGED <<ram, stats, faults>>

\* The file may have been renamed or removed since it was opened.
Written(t) ==
  /\ Inside(t, "writing")
  /\ file' = [name \in Names |-> IF file[name] = Absent THEN Absent ELSE file[name] \ {t}]
  /\ LET mine == {name \in ToSet(order) : t \in file[name]}
     IN  order' = Keep(order, ToSet(order) \ mine) \o Keep(order, mine)
  /\ Goto(t, "replacing")
  /\ UNCHANGED <<ram, stats, history, faults>>

\* Mutant of Replace: the old entry is removed without asking if there is one.
ReplaceAlways(t) ==
  /\ Inside(t, "replacing")
  /\ Goto(t, "removing")
  /\ UNCHANGED <<disk, ram, stats, history, faults>>

Replace(t) ==
  /\ Inside(t, "replacing")
  /\ Goto(t, IF file[Entry(call[t].key)] = Absent THEN "renaming" ELSE "removing")
  /\ UNCHANGED <<disk, ram, stats, history, faults>>

RemoveOld(t) ==
  /\ Inside(t, "removing")
  /\ IF file[Entry(call[t].key)] = Absent
     THEN Fail(t) /\ UNCHANGED disk
     ELSE Unlink(Entry(call[t].key)) /\ Goto(t, "renaming") /\ UNCHANGED history
  /\ UNCHANGED <<ram, stats, faults>>

Rename(t) ==
  /\ Inside(t, "renaming")
  /\ LET old == Temporary(call[t].key)
         new == Entry(call[t].key)
     IN  IF file[old] = Absent
         THEN Fail(t) /\ UNCHANGED disk
         ELSE /\ file' = [file EXCEPT ![new] = file[old], ![old] = Absent]
              /\ order' = LET others == Without(order, new)
                          IN  [i \in DOMAIN others |-> IF others[i] = old THEN new ELSE others[i]]
              /\ Goto(t, "inserting")
              /\ UNCHANGED history
  /\ UNCHANGED <<ram, stats, faults>>

InsertPut(t) ==
  /\ Inside(t, "inserting")
  /\ Insert(call[t].key)
  /\ Goto(t, "listing")
  /\ UNCHANGED <<disk, stats, history, faults>>

-----------------------------------------------------------------------------
(* recover_corrupt, clear, and the process.                                 *)

Recover(t, k) ==
  /\ Begin(t, "recover", k, "forgetting", <<>>)
  /\ Unlink(Entry(k))
  /\ UNCHANGED <<ram, stats, faults>>

Forget(t) ==
  /\ Inside(t, "forgetting")
  /\ memory' = Without(memory, call[t].key)
  /\ memoryBytes' = memoryBytes - (IF Contains(memory, call[t].key) THEN Size[call[t].key] ELSE 0)
  /\ Goto(t, "listing")
  /\ UNCHANGED <<disk, stats, history, faults>>

\* The entries of one listing are removed, in the order of the directory.
Clear(t) ==
  /\ \E list \in SetToSeqs(Stored) : Begin(t, "clear", Absent, "clearing", list)
  /\ UNCHANGED <<disk, ram, stats, faults>>

ClearOne(t) ==
  /\ Inside(t, "clearing") /\ call[t].list # <<>>
  /\ LET name == Entry(Head(call[t].list))
     IN  IF file[name] = Absent
         THEN Fail(t) /\ UNCHANGED disk
         ELSE /\ Unlink(name)
              /\ call' = [call EXCEPT ![t].list = Tail(@)]
              /\ UNCHANGED history
  /\ UNCHANGED <<ram, stats, faults>>

ClearAll(t) ==
  /\ Inside(t, "clearing") /\ call[t].list = <<>>
  /\ memory' = <<>>
  /\ memoryBytes' = 0
  /\ stats' = Empty
  /\ Return(t)
  /\ UNCHANGED <<disk, faults>>

\* The process dies and is started again: what it was writing is never
\* completed, its temporary files are abandoned, and open takes the inventory
\* and evicts.
Restart ==
  /\ faults < MaxFaults
  /\ faults' = faults + 1
  /\ file' = [name \in Names |-> IF file[name] # Absent /\ name \in Entries
                                 THEN {Dead : writer \in file[name]} ELSE Absent]
  /\ order' = Keep(order, Entries)
  /\ memory' = <<>> /\ memoryBytes' = 0
  /\ stats' = Empty
  /\ \E t \in Threads :
       call' = [u \in Threads |-> IF u = t
                  THEN [op |-> "open", key |-> Absent, at |-> "listing", list |-> <<>>, listed |-> Empty]
                  ELSE Absent]
  /\ overlapped' = FALSE /\ UNCHANGED failures

\* The disk spoils an entry.
Spoil(k) ==
  /\ faults < MaxFaults
  /\ file[Entry(k)] # Absent /\ Dead \notin file[Entry(k)]
  /\ faults' = faults + 1
  /\ file' = [file EXCEPT ![Entry(k)] = @ \cup {Dead}]
  /\ UNCHANGED <<order, ram, stats, call, history>>

Init ==
  /\ file = [name \in Names |-> Absent]
  /\ order = <<>>
  /\ memory = <<>> /\ memoryBytes = 0
  /\ stats = Empty
  /\ call = [t \in Threads |-> Absent]
  /\ failures = {} /\ overlapped = FALSE
  /\ faults = 0

Call(t, k) == Hit(t, k) \/ Miss(t, k) \/ Put(t, k) \/ Recover(t, k)

Proceed(t) ==
  \/ List(t) \/ Count(t) \/ Choose(t) \/ Evict(t)
  \/ Read(t) \/ Restore(t) \/ Discard(t) \/ Record(t)
  \/ Written(t) \/ Replace(t) \/ RemoveOld(t) \/ Rename(t) \/ InsertPut(t)
  \/ Forget(t) \/ ClearOne(t) \/ ClearAll(t)

Next ==
  \/ \E t \in Threads : Proceed(t) \/ Clear(t) \/ (\E k \in Keys : Call(t, k))
  \/ Restart
  \/ \E k \in Keys : Spoil(k)

Spec == Init /\ [][Next]_vars

-----------------------------------------------------------------------------
(* Properties.                                                             *)

\* Types: the directory lists each existing file once, and a key is in memory at
\* most once.
TypeOK ==
  /\ file \in [Names -> {Absent} \cup SUBSET (Threads \cup {Dead})]
  /\ ToSet(order) = {name \in Names : file[name] # Absent} /\ Len(order) = Cardinality(ToSet(order))
  /\ ToSet(memory) \subseteq Keys /\ Len(memory) = Cardinality(ToSet(memory))
  /\ stats.bytes \in Int /\ stats.entries \in Int
  /\ \A t \in Threads : call[t] \in Calls \cup {Absent}
  /\ overlapped \in BOOLEAN
  /\ failures \subseteq {"get", "put", "recover", "clear", "open"}
  /\ faults \in 0..MaxFaults

AtRest == \A t \in Threads : call[t] = Absent

\* The memory tier is inside its budget and its byte counter is exact after any
\* sequence of hits, overwrites, restores, oversize payloads, recoveries and
\* clears, of any thread (lib.rs:419-455, "Both tiers evict entries to remain
\* inside their declared byte budgets", docs/components/xv-cache.md:5).
MemoryWithinBudget == memoryBytes = SizeOf(ToSet(memory)) /\ memoryBytes <= MemoryBudget

\* The unsigned disk statistics never go below zero, although several threads may
\* drop one corrupt entry.  And when no call is in progress they are what is on
\* disk, also after get dropped corrupt entries, and that is inside the budget,
\* also after the process died between a rename and the eviction
\* (lib.rs:244-260, 372-416, docs/components/xv-cache.md:5); the latter two of
\* calls that do not overlap: concurrent evictions may miss the budget.
DiskTierExact ==
  /\ stats.bytes >= 0 /\ stats.entries >= 0
  /\ AtRest /\ ~overlapped => stats = Inventory /\ DiskBytes(Stored) <= DiskBudget

\* No call fails when no operation of the operating system does and no other
\* call overlaps it: what a call removes or renames is there (lib.rs:272-416).
CallsSucceed == failures = {}

\* A put that overlaps no other call and fits the budget leaves a valid entry on
\* disk: what is evicted to make room is older (lib.rs:272-304, 381-416).
PutIsStored ==
  [][\A t \in Threads :
       LET put == call[t]
       IN  (put # Absent /\ put.op = "put" /\ call'[t] = Absent /\ ~overlapped
            /\ faults' = faults /\ EntryBytes[put.key] <= DiskBudget)
           => file'[Entry(put.key)] # Absent /\ file'[Entry(put.key)] \subseteq {Dead}]_vars
=============================================================================
