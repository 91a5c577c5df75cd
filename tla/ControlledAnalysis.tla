-------------------------- MODULE ControlledAnalysis --------------------------
(***************************************************************************)
(* Long analyses that can be watched and cancelled.  Three layers meet:     *)
(*                                                                         *)
(*   - SkyViewAnalysisJob and DaylightAnalysisJob (dotnet/Xvarna.Native):   *)
(*     the object a client holds, its Progress, Cancel and Dispose, the     *)
(*     cancellation token and the continuation that releases the handle;    *)
(*   - the job table of the C ABI (xvarna-ffi job.rs): a flag and two       *)
(*     counters per handle, written by the analysis and read by anybody;    *)
(*   - the analyses themselves (xvarna-hvare sky.rs, irradiance.rs,         *)
(*     daylight.rs): loops over bounded chunks that count what they did and *)
(*     look at the flag in between, and the process-wide cache of daylight  *)
(*     matrices that two of them share.                                     *)
(*                                                                         *)
(* An analysis is the sequence of its steps; what a chunk computes is left  *)
(* out.                                                                    *)
(***************************************************************************)
EXTENDS Integers, Sequences, SequencesExt

CONSTANTS Jobs,                   \* jobs of the clients
          Watched,                \* those whose client looks at the progress and cancels
          Workloads,              \* what the jobs run: an analysis and its matrix for some of them
                                  \* (a matrix: scene, sensors, materials, options)
          EarlierMatrices,        \* caches that analyses before these left behind
          Sensors,                \* sensors of an analysis
          Chunks,                 \* chunks of rays, of weather records, or sky patches, per sensor
          MATRIX_CACHE_CAPACITY

Analyses == {"sky view", "annual irradiance", "point illuminance", "annual daylight"}

\* An analysis without sensors, samples, patches or weather is refused (EmptySensors,
\* validate) before anything is counted.
ASSUME SizesAssumption ==
    Sensors \in Nat \ {0} /\ Chunks \in Nat \ {0} /\ MATRIX_CACHE_CAPACITY \in Nat
ASSUME WorkAssumption == \A w \in Workloads : \A j \in DOMAIN w : w[j].analysis \in Analyses
\* A cache from before was left by analyses that did not race.
ASSUME EarlierAssumption ==
    \A c \in EarlierMatrices : /\ c \in Seq(ToSet(c)) /\ Len(c) <= MATRIX_CACHE_CAPACITY
                               /\ \A i, k \in DOMAIN c : c[i] = c[k] => i = k

VARIABLES native,                 \* the job table and the counters of each job
          call,                   \* the native call that each job's task makes
          managed,                \* the client's object
          reader,                 \* who holds the object's lock, and what it has read so far
          token,                  \* the callback of the cancellation token
          cache,                  \* MATRIX_CACHE
          raced,                  \* matrices that two calls were building at one time
          late                    \* chunks a call did after its job was cancelled

vars == <<native, call, managed, reader, token, cache, raced, late>>

-----------------------------------------------------------------------------
(* The analyses as sequences of steps.                                       *)

\* n rounds of a loop with these steps.
Times(n, steps) == [i \in 1..(n * Len(steps)) |-> steps[1 + ((i - 1) % Len(steps))]]
Chunk == <<"check", "work">>

\* sky.rs, a chunk being RAY_CHUNK_SIZE rays.
\* Mutant of analyze_sky_view_controlled: the flag is looked at between sensors only.
SkyViewPerSensor == <<"zero">> \o Times(Sensors, <<"check">> \o Times(Chunks, <<"work">>)) \o <<"check">>
analyze_sky_view_controlled ==
    <<"zero">> \o Times(Sensors, <<"check">> \o Times(Chunks, Chunk)) \o <<"check">>

\* irradiance.rs: the static sky of a sensor, then its weather in chunks.
analyze_annual_irradiance_controlled ==
    <<"zero">> \o Times(Sensors, Chunk \o Times(Chunks, Chunk)) \o <<"check">>

\* daylight.rs: the matrix is found in the cache, or built cell by cell.
daylight_coefficient_matrix_controlled ==
    <<"find">> \o Times(Sensors * Chunks, Chunk) \o <<"insert">>
analyze_point_illuminance_controlled ==
    daylight_coefficient_matrix_controlled \o Times(Sensors, Chunk)
analyze_annual_daylight_controlled ==
    daylight_coefficient_matrix_controlled \o Times(Sensors * Chunks, Chunk)

Steps(analysis) ==
    <<"total", "zero", "scene">> \o
    CASE analysis = "sky view"          -> analyze_sky_view_controlled
      [] analysis = "annual irradiance" -> analyze_annual_irradiance_controlled
      [] analysis = "point illuminance" -> analyze_point_illuminance_controlled
      [] analysis = "annual daylight"   -> analyze_annual_daylight_controlled

\* What each exported function announces as the work to do, in its own words.
xv_scene_sky_view == Sensors * Chunks
xv_scene_annual_irradiance == Sensors * (1 + Chunks)
\* Mutant of xv_scene_point_illuminance: the work after the matrix is forgotten.
MatrixOnly == Sensors * Chunks
xv_scene_point_illuminance == Sensors * (Chunks + 1)
xv_scene_annual_daylight == Sensors * (Chunks + Chunks)
Total(analysis) ==
    CASE analysis = "sky view"          -> xv_scene_sky_view
      [] analysis = "annual irradiance" -> xv_scene_annual_irradiance
      [] analysis = "point illuminance" -> xv_scene_point_illuminance
      [] analysis = "annual daylight"   -> xv_scene_annual_daylight

-----------------------------------------------------------------------------
(* The native call.                                                          *)

Running(j) == call[j].rest # <<>>
At(j, step) == Running(j) /\ Head(call[j].rest) = step
Continue(j) ==
    call' = [call EXCEPT ![j].rest = Tail(@),
                         ![j].outcome = IF Tail(call[j].rest) = <<>> THEN "succeeded" ELSE @]
End(j, outcome) == call' = [call EXCEPT ![j].rest = <<>>, ![j].outcome = outcome]

\* The task starts: AnalyzeSkyViewCore looks at the token before it calls.
Start(j) ==
    /\ call[j].outcome = "" /\ ~Running(j)
    /\ \/ call' = [call EXCEPT ![j].rest = Steps(call[j].analysis)]
       \/ token[j] # "none" /\ End(j, "cancelled")
    /\ UNCHANGED <<native, managed, reader, token, cache, raced, late>>

\* The exported function finds the job and announces the work, then counts from
\* zero, and only then finds out whether the scene is there.
Announce(j) ==
    /\ At(j, "total")
    /\ IF native[j].live THEN /\ native' = [native EXCEPT ![j].total = Total(call[j].analysis)]
                              /\ Continue(j)
                         ELSE End(j, "failed") /\ UNCHANGED native
    /\ UNCHANGED <<managed, reader, token, cache, raced, late>>

Zero(j) ==
    /\ At(j, "zero")
    /\ native' = [native EXCEPT ![j].completed = 0]
    /\ Continue(j)
    /\ UNCHANGED <<managed, reader, token, cache, raced, late>>

FindScene(j) ==
    /\ At(j, "scene")
    /\ Continue(j) \/ End(j, "failed")
    /\ UNCHANGED <<native, managed, reader, token, cache, raced, late>>

Check(j) ==
    /\ At(j, "check")
    /\ IF native[j].cancelled THEN End(j, "cancelled") ELSE Continue(j)
    /\ UNCHANGED <<native, managed, reader, token, cache, raced, late>>

\* One chunk, counted when it is done.
Work(j) ==
    /\ At(j, "work")
    /\ native' = [native EXCEPT ![j].completed = @ + 1]
    /\ late' = [late EXCEPT ![j] = IF native[j].cancelled THEN @ + 1 ELSE @]
    /\ Continue(j)
    /\ UNCHANGED <<managed, reader, token, cache, raced>>

\* Where the matrix is among the cached ones: the nearest to the front.
\* Mutant of Found: only the matrix used last is looked at.
FoundInFront(matrix) == {i \in DOMAIN cache : i = 1 /\ cache[i] = matrix}
Found(matrix) == {i \in DOMAIN cache : cache[i] = matrix}

\* daylight_coefficient_matrix_controlled, under the cache's lock: a cached
\* matrix moves to the front and all its cells count as done; without one the
\* lock is given up and the call builds its own.
AfterInsert(rest) == SubSeq(rest, 1 + CHOOSE i \in DOMAIN rest : rest[i] = "insert", Len(rest))
Building(matrix) == {j \in Jobs : /\ call[j].matrix = matrix
                                  /\ "insert" \in ToSet(call[j].rest) /\ ~At(j, "find")
                                  /\ "find" \notin ToSet(call[j].rest)}
Find(j) ==
    /\ At(j, "find")
    /\ LET hits == Found(call[j].matrix) IN
         IF hits # {}
           THEN LET i == CHOOSE i \in hits : \A k \in hits : i <= k IN
                /\ cache' = <<cache[i]>> \o RemoveAt(cache, i)
                /\ native' = [native EXCEPT ![j].completed = @ + Sensors * Chunks]
                /\ call' = [call EXCEPT ![j].rest = AfterInsert(@)]
                /\ UNCHANGED raced
           ELSE /\ Continue(j)
                /\ raced' = IF Building(call[j].matrix) # {} THEN raced \cup {call[j].matrix} ELSE raced
                /\ UNCHANGED <<native, cache>>
    /\ UNCHANGED <<managed, reader, token, late>>

\* The lock again: whoever built the same matrix meanwhile is not looked for.
Insert(j) ==
    /\ At(j, "insert")
    /\ LET grown == <<call[j].matrix>> \o cache
       IN  cache' = SubSeq(grown, 1, IF Len(grown) > MATRIX_CACHE_CAPACITY THEN MATRIX_CACHE_CAPACITY
                                                                          ELSE Len(grown))
    /\ Continue(j)
    /\ UNCHANGED <<native, managed, reader, token, raced, late>>

NativeStep(j) ==
    Start(j) \/ Announce(j) \/ Zero(j) \/ FindScene(j) \/ Check(j) \/ Work(j) \/ Find(j) \/ Insert(j)

-----------------------------------------------------------------------------
(* The client's object.  Its lock is held while progress is read, and while  *)
(* the continuation of the task ends the handle's life.                      *)

Free(j) == reader[j].holder = "nobody"
Holds(j, who, step) == reader[j].holder = who /\ reader[j].step = step
Unlocked == [holder |-> "nobody", step |-> "", total |-> 0, completed |-> 0]

\* Progress: a closed handle is not asked any more.
Progress(j) ==
    /\ j \in Watched /\ Free(j) /\ ~managed[j].closed
    /\ reader' = [reader EXCEPT ![j] = [Unlocked EXCEPT !.holder = "client", !.step = "total"]]
    /\ UNCHANGED <<native, call, managed, token, cache, raced, late>>

\* CompleteNativeLifetime, after the task ended in whatever way.
\* Mutant of Finished: a handle is released after a success only.
FinishedWell(j) == call[j].outcome = "succeeded"
Finished(j) == call[j].outcome # ""
Complete(j) ==
    /\ Free(j) /\ ~managed[j].closed /\ Finished(j)
    /\ reader' = [reader EXCEPT ![j] = [Unlocked EXCEPT !.holder = "continuation", !.step = "total"]]
    /\ UNCHANGED <<native, call, managed, token, cache, raced, late>>

\* xv_job_progress: the counters are loaded one after the other (the flag, which
\* is loaded before them, is left out).
Load(j) ==
    /\ ~Free(j) /\ reader[j].step # "report"
    /\ reader' =
         CASE reader[j].step = "total" ->
                [reader EXCEPT ![j].step = "completed", ![j].total = native[j].total]
           [] reader[j].step = "completed" ->
                [reader EXCEPT ![j].step = "report", ![j].completed = native[j].completed]
    /\ UNCHANGED <<native, call, managed, token, cache, raced, late>>

Report(j) == [total |-> reader[j].total, completed |-> reader[j].completed]
ReportToClient(j) ==
    /\ Holds(j, "client", "report")
    /\ managed' = [managed EXCEPT ![j].last = Report(j)]
    /\ reader' = [reader EXCEPT ![j] = Unlocked]
    /\ UNCHANGED <<native, call, token, cache, raced, late>>

\* The last report, then the registration is disposed of, which waits for a
\* callback that is running, then the handle.
\* Mutant of MayClose: the registration is not disposed of first.
CloseAtOnce(j) == TRUE
MayClose(j) == token[j] # "calling"
Close(j) ==
    /\ Holds(j, "continuation", "report") /\ MayClose(j)
    /\ managed' = [managed EXCEPT ![j].closed = TRUE,
                                  ![j].last = IF call[j].outcome = "succeeded"
                                                THEN [Report(j) EXCEPT !.completed = reader[j].total]
                                                ELSE Report(j)]
    /\ native' = [native EXCEPT ![j].live = FALSE]
    /\ reader' = [reader EXCEPT ![j] = Unlocked]
    /\ UNCHANGED <<call, token, cache, raced, late>>

\* Cancel and Dispose, which only cancels: the call may still use the handle.
Cancel(j) ==
    /\ j \in Watched /\ Free(j) /\ ~managed[j].closed
    /\ native' = [native EXCEPT ![j].cancelled = TRUE]
    /\ UNCHANGED <<call, managed, reader, token, cache, raced, late>>

\* The cancellation token runs its callback on the thread that cancels it, and
\* without the object's lock; a disposed registration is not called.
TokenFires(j) ==
    /\ j \in Watched /\ token[j] = "none" /\ ~managed[j].closed
    /\ token' = [token EXCEPT ![j] = "calling"]
    /\ UNCHANGED <<native, call, managed, reader, cache, raced, late>>

RequestCancellation(j) ==
    /\ token[j] = "calling"
    /\ native' = IF native[j].live THEN [native EXCEPT ![j].cancelled = TRUE] ELSE native
    /\ token' = [token EXCEPT ![j] = "called"]
    /\ UNCHANGED <<call, managed, reader, cache, raced, late>>

-----------------------------------------------------------------------------
NoReport == [total |-> 0, completed |-> 0]

NewCall(analysis, matrix) == [analysis |-> analysis, matrix |-> matrix, rest |-> <<>>, outcome |-> ""]
Ended == [analysis |-> "", matrix |-> "", rest |-> <<>>, outcome |-> "cancelled"]

\* A job without work is one that was released before.
Init == /\ \E w \in Workloads : LET Idle == Jobs \ DOMAIN w IN
              /\ native = [j \in Jobs |-> [live |-> j \notin Idle, cancelled |-> FALSE, total |-> 0, completed |-> 0]]
              /\ call = [j \in Jobs |-> IF j \in Idle THEN Ended ELSE NewCall(w[j].analysis, w[j].matrix)]
              /\ managed = [j \in Jobs |-> [closed |-> j \in Idle, last |-> NoReport]]
        /\ reader = [j \in Jobs |-> Unlocked]
        /\ token = [j \in Jobs |-> "none"]
        /\ cache \in EarlierMatrices
        /\ raced = {} /\ late = [j \in Jobs |-> 0]

\* All jobs may have ended; the clients are done.
Done == /\ \A j \in Jobs : managed[j].closed /\ token[j] # "calling"
        /\ UNCHANGED vars

Next == \/ \E j \in Jobs : \/ NativeStep(j)
                           \/ Progress(j) \/ Complete(j) \/ Load(j)
                           \/ ReportToClient(j) \/ Close(j) \/ Cancel(j)
                           \/ TokenFires(j) \/ RequestCancellation(j)
        \/ Done

\* The native call, the callback and whoever holds the lock go on; a client that
\* polls cannot keep the continuation out of the lock for ever (Monitor queues
\* its waiters).
Fairness == \A j \in Jobs : /\ WF_vars(NativeStep(j))
                            /\ WF_vars(Load(j))
                            /\ WF_vars(ReportToClient(j)) /\ WF_vars(Close(j))
                            /\ WF_vars(RequestCancellation(j)) /\ SF_vars(Complete(j))
Spec == Init /\ [][Next]_vars /\ Fairness

-----------------------------------------------------------------------------
(* Properties.                                                               *)

\* What the exported function announces and what the loops count are two pieces
\* of code (the matrix found in the cache is a third): they agree when the
\* analysis succeeds (SkyTests.cs, ObservableSkyJobFinishesWithExactProgress),
\* and no report claims more than everything, unless its total was read before
\* the work was announced.
ProgressIsTruthful ==
    \A j \in Jobs :
       /\ native[j].completed <= native[j].total
       /\ managed[j].last.total # 0 => managed[j].last.completed <= managed[j].last.total
       /\ call[j].outcome = "succeeded" => native[j].completed = native[j].total
       /\ managed[j].closed /\ call[j].outcome = "succeeded" =>
             managed[j].last.completed = Total(call[j].analysis)

\* "Running operations observe it between bounded chunks" (job.rs:70): after the
\* flag is set, an analysis does at most the chunk it was about to do.
CancelledInOneChunk == \A j \in Jobs : late[j] <= 1

\* A handle is in the table whenever somebody is about to use it: the call, a
\* reader, the callback of the token.  Release happens on a fourth thread.
HandlesOutliveTheirUse ==
    \A j \in Jobs : \/ Running(j) \/ ~Free(j) \/ token[j] = "calling" => native[j].live

\* A matrix is in the cache twice only if two calls were building it at the same
\* time, and the cache keeps to its capacity.
DuplicatesAreRaces ==
    /\ Len(cache) <= MATRIX_CACHE_CAPACITY
    /\ \A i, k \in DOMAIN cache : i < k /\ cache[i] = cache[k] => cache[i] \in raced

\* Every job's handle is released in the end, however the analysis ended and
\* however often the client looks.
JobsAreReleased == \A j \in Jobs : <>(~native[j].live)

=============================================================================
