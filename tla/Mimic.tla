--------------------------------- MODULE Mimic ---------------------------------
(***************************************************************************)
(* One mimic: a capture whose process also replays what it captures. Its    *)
(* setup is a capture's, and then loads the replays one by one, while the   *)
(* interval is running. Each loop, a tick's or the extra one of a stop,     *)
(* gets the capture's fragment, starts the replays that have not started,   *)
(* hands the fragment's commands to all of them, each with a timer of its   *)
(* own, and measures them. A stop's teardown is a capture's, and then waits  *)
(* for the commands and the metrics of the replays and writes their rows.   *)
(*                                                                         *)
(* What happens to the capture itself is in Capture: here are the parts of  *)
(* its operations the replays depend on, the log, the start time and who    *)
(* fails. A fragment has the commands since the loop before, and at most    *)
(* Overlap earlier ones: windows meet.                                      *)
(***************************************************************************)
EXTENDS Naturals, Sequences, FiniteSets

CONSTANTS N,            \* the replays, in the order of replayIds
          MaxCommands,  \* the commands that come to the log
          Overlap,      \* the commands that come within intervalOverlap
          MaxLoops,     \* the loops begun, by ticks and stops
          MaxStops,     \* the stops
          MaxRejects    \* the operations and commands that fail

ASSUME MimicAssumption ==
  N > 0 /\ {N, MaxCommands, Overlap, MaxLoops, MaxStops, MaxRejects} \subseteq Nat

Replays  == 1..N
Commands == 1..MaxCommands
Loops    == 1..MaxLoops

\* What a replay waits for: a command that loop k has handed to it, the metrics
\* loop k wants (0), or those of its teardown.
Last == MaxCommands + 1
Jobs == Replays \X Loops \X (0..Last)
IsCommand(j) == j[3] \in Commands

VARIABLES
  setup,     \* the await of Capture.setup, then Mimic.setup, the process is at
  loading,   \* the replay it loads
  loaded,    \* Mimic.replays
  refused,   \* those that failed to load, whose FAILED is not written yet
  panics,    \* per selfDestruct: the row dontPanic writes next, 0 for the capture's
  gone,      \* has the process exited
  row,       \* Replay.status of each replay
  logging,   \* WorkloadLogger.logging
  startTime, \* is Capture.startTime set
  logged,    \* the commands in the log since startTime
  seen,      \* those before the last loop began
  count,     \* the loops begun
  extra,     \* those of a stop
  loop,      \* where each loop, and the teardown after it, is
  at,        \* the replay it is at, in loaded
  fragment,  \* the commands it has captured
  first,     \* has it started a replay
  started,   \* the replays with hasStarted
  job,       \* commandPromises and metricsPromises of all replays
  awaited,   \* those a teardown waits for
  rejects,   \* how much has failed
  early,     \* history: has a stop come before setup was over
  present,   \* history: the replays loaded when the loop began
  looked,    \* history: has a stop looked at what there is to wait for
  overtaken, \* history: was another loop still starting a replay then
  late       \* history: the loops that handed out their commands afterwards

init    == <<setup, loading, loaded, refused>>
process == <<panics, gone, logging, startTime>>
log     == <<logged, seen>>
loops   == <<count, extra, loop, at, fragment, first, awaited>>
history == <<early, present, looked, overtaken, late>>
vars    == <<init, process, row, log, loops, started, job, rejects, history>>

TypeOK ==
  /\ setup \in {"starting", "log", "running", "startTime", "load", "assign", "over"}
  /\ loading \in 1..(N + 1)
  /\ loaded \in Seq(Replays) /\ Len(loaded) <= N
  /\ refused \subseteq Replays
  /\ panics \subseteq 0..N /\ gone \in BOOLEAN
  /\ row \in [Replays -> {"STARTED", "STARTING", "RUNNING", "STOPPING", "DONE", "FAILED"}]
  /\ logging \in BOOLEAN /\ startTime \in BOOLEAN
  /\ logged \in 0..MaxCommands /\ seen \in 0..MaxCommands
  /\ count \in 0..MaxLoops
  /\ extra \subseteq Loops
  /\ loop \in [Loops -> {"none", "query", "startTime", "running", "log", "commands",
                         "stopping", "metrics", "files", "done", "endTime", "over", "rejected"}]
  /\ at \in [Loops -> 0..N]
  /\ fragment \in [Loops -> SUBSET Commands]
  /\ first \in [Loops -> BOOLEAN]
  /\ started \subseteq Replays
  /\ DOMAIN job \subseteq Jobs
  /\ \A j \in DOMAIN job : job[j] \in {"pending", "over", "failed"}
  /\ awaited \in [Loops -> SUBSET Jobs]
  /\ rejects \in 0..MaxRejects
  /\ early \in BOOLEAN /\ looked \in BOOLEAN /\ overtaken \in BOOLEAN
  /\ present \in [Loops -> SUBSET Replays] /\ late \subseteq Loops

Init ==
  /\ setup = "starting" /\ loading = 1 /\ loaded = <<>> /\ refused = {}
  /\ panics = {} /\ gone = FALSE /\ logging = FALSE /\ startTime = FALSE
  /\ row = [r \in Replays |-> "STARTED"]
  /\ logged = 0 /\ seen = 0
  /\ count = 0 /\ extra = {}
  /\ loop = [k \in Loops |-> "none"] /\ at = [k \in Loops |-> 0]
  /\ fragment = [k \in Loops |-> {}] /\ first = [k \in Loops |-> FALSE]
  /\ started = {} /\ job = <<>> /\ awaited = [k \in Loops |-> {}]
  /\ rejects = 0
  /\ early = FALSE /\ looked = FALSE /\ overtaken = FALSE
  /\ present = [k \in Loops |-> {}] /\ late = {}

Alive   == ~gone
Rejects == rejects < MaxRejects /\ rejects' = rejects + 1
Mimicked == {loaded[i] : i \in 1..Len(loaded)}

----------------------------------------------------------------------------
(* setup                                                                    *)

SelfDestruct == panics' = panics \cup {0}

\* Capture.setup: STARTING, the log, RUNNING and startTime.
CaptureSetup ==
  /\ Alive
  /\ \/ /\ setup = "starting" /\ setup' = "log" /\ UNCHANGED <<logging, startTime>>
     \/ /\ setup = "log" /\ setup' = "running" /\ logging' = TRUE /\ UNCHANGED startTime
     \/ /\ setup = "running" /\ setup' = "startTime" /\ startTime' = TRUE /\ UNCHANGED logging
     \/ /\ setup = "startTime" /\ setup' = "load" /\ UNCHANGED <<logging, startTime>>
  /\ UNCHANGED <<loading, loaded, refused, panics, gone, row, log, loops, started, job,
                 rejects, history>>

\* It destroys the process by itself, and Mimic.setup goes on.
CaptureSetupFails ==
  /\ Alive /\ Rejects
  /\ setup \in {"starting", "log", "running", "startTime"}
  /\ setup' = "load" /\ SelfDestruct
  /\ UNCHANGED <<loading, loaded, refused, gone, logging, startTime, row, log, loops,
                 started, job, history>>

\* After the last replay there must be one that was loaded.
NextReplay(rs) ==
  /\ loading' = loading + 1
  /\ loaded' = rs
  /\ setup' = IF loading < N THEN "load" ELSE "over"
  /\ IF loading = N /\ rs = <<>> THEN SelfDestruct ELSE UNCHANGED panics

\* loadReplay, up to the test of the connection.
LoadReplay ==
  /\ Alive
  /\ setup = "load" /\ loading <= N
  /\ setup' = "assign"
  /\ UNCHANGED <<loading, loaded, refused, process, row, log, loops, started, job,
                 rejects, history>>

\* Mutant: it is mimicked all the same.
RefuseReplayAnyway ==
  /\ Alive /\ Rejects
  /\ setup = "load" /\ loading <= N
  /\ refused' = refused \cup {loading}
  /\ NextReplay(Append(loaded, loading))
  /\ UNCHANGED <<gone, logging, startTime, row, log, loops, started, job, history>>

\* No reference or no connection: the replay is FAILED, and nobody waits for that.
RefuseReplay ==
  /\ Alive /\ Rejects
  /\ setup = "load" /\ loading <= N
  /\ refused' = refused \cup {loading}
  /\ NextReplay(loaded)
  /\ UNCHANGED <<gone, logging, startTime, row, log, loops, started, job, history>>

WriteRefused(r) ==
  /\ Alive
  /\ r \in refused
  /\ refused' = refused \ {r}
  /\ row' = [row EXCEPT ![r] = "FAILED"]
  /\ UNCHANGED <<setup, loading, loaded, process, log, loops, started, job, rejects,
                 history>>

AssignReplay ==
  /\ Alive
  /\ setup = "assign"
  /\ row' = [row EXCEPT ![loading] = "STARTING"]
  /\ NextReplay(Append(loaded, loading))
  /\ UNCHANGED <<refused, gone, logging, startTime, log, loops, started, job, rejects,
                 history>>

LoadingFails ==
  /\ Alive /\ Rejects
  /\ setup \in {"load", "assign"}
  /\ setup' = "over" /\ SelfDestruct
  /\ UNCHANGED <<loading, loaded, refused, gone, logging, startTime, row, log, loops,
                 started, job, history>>

\* dontPanic: the capture, then each replay that is loaded; then exit(42).
Panic(p) ==
  /\ Alive
  /\ p \in panics
  /\ row' = IF p = 0 THEN row ELSE [row EXCEPT ![loaded[p]] = "FAILED"]
  /\ IF p < Len(loaded) THEN panics' = (panics \ {p}) \cup {p + 1} /\ UNCHANGED gone
                        ELSE gone' = TRUE /\ UNCHANGED panics
  /\ UNCHANGED <<init, logging, startTime, log, loops, started, job, rejects, history>>

\* If that fails the process exits all the same.
PanicFails(p) ==
  /\ Alive
  /\ p \in panics
  /\ gone' = TRUE
  /\ UNCHANGED <<init, panics, logging, startTime, row, log, loops, started, job, rejects,
                 history>>

----------------------------------------------------------------------------
(* A loop                                                                   *)

Log ==
  /\ startTime /\ logging
  /\ logged < MaxCommands
  /\ logged' = logged + 1
  /\ UNCHANGED <<init, process, row, seen, loops, started, job, rejects, history>>

\* Mutant: the window reaches one too far back.
WindowOneMore(o) == (seen - o)..logged

\* The window reaches back to the loop before, and over it by the overlap.
Window(o) == (seen - o + 1)..logged

\* Without a startTime there is no window, and the loop throws.
LoopBegins(isExtra) ==
  /\ Alive
  /\ count < MaxLoops /\ count' = count + 1
  /\ \E o \in 0..Overlap :
       /\ o <= seen
       /\ fragment' = [fragment EXCEPT ![count'] = Window(o)]
  /\ seen' = logged
  /\ loop' = [loop EXCEPT ![count'] = IF startTime THEN "query" ELSE "rejected"]
  /\ present' = [present EXCEPT ![count'] = Mimicked]
  /\ extra' = IF isExtra THEN extra \cup {count'} ELSE extra

Tick ==
  /\ startTime /\ extra = {}
  /\ LoopBegins(FALSE)
  /\ UNCHANGED <<init, process, row, logged, at, first, started, job,
                 awaited, rejects, early, looked, overtaken, late>>

\* onStop, for a user's stop, a timed one or that of a deletion.
Stop ==
  /\ setup # "starting" /\ Cardinality(extra) < MaxStops
  /\ LoopBegins(TRUE)
  /\ early' = (early \/ setup # "over")
  /\ UNCHANGED <<init, process, row, logged, at, first, started, job,
                 awaited, rejects, looked, overtaken, late>>

\* Add jobs for a replay to its promises.
Issue(js) == job' = [j \in DOMAIN job \cup js |-> IF j \in DOMAIN job THEN job[j] ELSE "pending"]

Goes(k, step) == loop' = [loop EXCEPT ![k] = step]

\* Loop k goes through the replays from the p-th: it starts the next that has not
\* started, and after the last one hands out its commands and measures the replays, if
\* it has started none. (A replay started so shortly before that retrieveMetrics skips
\* it has metrics that are over at once.)
GoesThrough(k, p, begun) ==
  LET due == {i \in p..Len(loaded) : loaded[i] \notin begun} IN
  IF due # {}
  THEN /\ Goes(k, "startTime")
       /\ \E i \in due : (\A x \in due : i <= x) /\ at' = [at EXCEPT ![k] = i]
       /\ first' = [first EXCEPT ![k] = TRUE]
       /\ UNCHANGED <<job, late>>
  ELSE /\ Issue(Mimicked \X {k} \X (fragment[k] \cup (IF first[k] THEN {} ELSE {0})))
       /\ late' = IF looked THEN late \cup {k} ELSE late
       /\ Goes(k, IF k \in extra THEN "log" ELSE "over")
       /\ at' = [at EXCEPT ![k] = 0]
       /\ UNCHANGED first

\* Capture.loop is over.
FragmentStored(k) ==
  /\ Alive
  /\ loop[k] = "query" /\ logging
  /\ GoesThrough(k, 1, started)
  /\ UNCHANGED <<init, process, row, log, count, extra, fragment,
                 awaited, started, rejects, early, present, looked, overtaken>>

\* ReplayManager.start.
WriteStartTime(k) ==
  /\ Alive
  /\ loop[k] = "startTime" /\ Goes(k, "running")
  /\ UNCHANGED <<init, process, row, log, count, extra, at, fragment,
                 first, awaited, started, job, rejects, history>>

WriteRunning(k) ==
  /\ Alive
  /\ loop[k] = "running"
  /\ row' = [row EXCEPT ![loaded[at[k]]] = "RUNNING"]
  /\ started' = started \cup {loaded[at[k]]}
  /\ GoesThrough(k, at[k] + 1, started')
  /\ UNCHANGED <<init, process, log, count, extra, fragment, awaited,
                 rejects, early, present, looked, overtaken>>

\* Without the log there is no fragment. The rejection of a tick is nobody's, and that of
\* an extra loop ends the stop.
LoopFails(k) ==
  /\ Alive
  /\ \/ loop[k] = "query" /\ ~logging /\ UNCHANGED rejects
     \/ loop[k] \in {"query", "startTime", "running"} /\ Rejects
  /\ Goes(k, "rejected")
  /\ UNCHANGED <<init, process, row, log, count, extra, at, fragment,
                 first, awaited, started, job, history>>

----------------------------------------------------------------------------
(* Jobs                                                                     *)

JobOver(j) ==
  /\ Alive
  /\ j \in DOMAIN job /\ job[j] = "pending"
  /\ job' = [job EXCEPT ![j] = "over"]
  /\ UNCHANGED <<init, process, row, log, loops, started, rejects, history>>

\* The promise of a failed command is neither resolved nor rejected; that of metrics is
\* rejected.
JobFails(j) ==
  /\ Alive /\ Rejects
  /\ j \in DOMAIN job /\ job[j] = "pending"
  /\ job' = [job EXCEPT ![j] = "failed"]
  /\ UNCHANGED <<init, process, row, log, loops, started, history>>

----------------------------------------------------------------------------
(* teardown                                                                 *)

CommandsOf(rs) == {j \in DOMAIN job : j[1] \in rs /\ IsCommand(j)}

\* Mutant: it waits for the commands of one replay.
AwaitOneReplay(k) ==
  /\ awaited' = [awaited EXCEPT ![k] = CommandsOf({1})]
  /\ Goes(k, "commands")
  /\ looked' = TRUE
  /\ overtaken' = (overtaken \/ \E l \in Loops \ {k} : loop[l] \in {"startTime", "running"})

\* finishAllCommands takes the promises there are.
AwaitCommands(k) ==
  /\ awaited' = [awaited EXCEPT ![k] = CommandsOf(Mimicked)]
  /\ Goes(k, "commands")
  /\ looked' = TRUE
  /\ overtaken' = (overtaken \/ \E l \in Loops \ {k} : loop[l] \in {"startTime", "running"})

\* Capture.teardown turns the log off, unless others use it.
LogDecided(k) ==
  /\ Alive
  /\ loop[k] = "log" /\ logging
  /\ logging' \in BOOLEAN
  /\ AwaitCommands(k)
  /\ UNCHANGED <<init, panics, gone, startTime, row, log, count, extra, at, fragment,
                 first, started, job, rejects, early, present, late>>

\* If it fails, or the log is off already, the process is destroyed, and
\* Mimic.teardown goes on.
LogFails(k) ==
  /\ Alive
  /\ loop[k] = "log"
  /\ (~logging /\ UNCHANGED rejects) \/ Rejects
  /\ SelfDestruct
  /\ AwaitCommands(k)
  /\ UNCHANGED <<init, gone, logging, startTime, row, log, count, extra, at,
                 fragment, first, started, job, early, present, late>>

\* From one replay to the next, and after the last to another step.
NextOr(k, again, after) ==
  /\ loop' = [loop EXCEPT ![k] = IF at[k] < Len(loaded) THEN again ELSE after]
  /\ at' = [at EXCEPT ![k] = IF at[k] < Len(loaded) THEN @ + 1 ELSE 0]

\* The last metrics are asked for and all of them awaited.
AwaitMetrics(k) ==
  /\ Issue(Mimicked \X {k} \X {Last})
  /\ awaited' = [awaited EXCEPT ![k] = {j \in DOMAIN job' : ~IsCommand(j)}]

Settled(k) == \A j \in awaited[k] : job[j] = "over"

CommandsFinished(k) ==
  /\ Alive
  /\ loop[k] = "commands" /\ Settled(k)
  /\ IF loaded = <<>> THEN NextOr(k, "stopping", "metrics") /\ AwaitMetrics(k)
                      ELSE NextOr(k, "stopping", "metrics") /\ UNCHANGED <<job, awaited>>
  /\ UNCHANGED <<init, process, row, log, count, extra, fragment,
                 first, started, rejects, history>>

WriteReplayStopping(k) ==
  /\ Alive
  /\ loop[k] = "stopping"
  /\ row' = [row EXCEPT ![loaded[at[k]]] = "STOPPING"]
  /\ NextOr(k, "stopping", "metrics")
  /\ IF at[k] < Len(loaded) THEN UNCHANGED <<job, awaited>> ELSE AwaitMetrics(k)
  /\ UNCHANGED <<init, process, log, count, extra, fragment, first,
                 started, rejects, history>>

MetricsFinished(k) ==
  /\ Alive
  /\ loop[k] = "metrics" /\ Settled(k)
  /\ Goes(k, "files")
  /\ UNCHANGED <<init, process, row, log, count, extra, at, fragment,
                 first, awaited, started, job, rejects, history>>

\* A rejected promise, or a STOPPING that fails, destroys the process.
TeardownFails(k) ==
  /\ Alive
  /\ \/ loop[k] = "metrics" /\ (\E j \in awaited[k] : job[j] = "failed") /\ UNCHANGED rejects
     \/ loop[k] = "stopping" /\ Rejects
  /\ SelfDestruct
  /\ Goes(k, "rejected")
  /\ UNCHANGED <<init, gone, logging, startTime, row, log, count, extra, at,
                 fragment, first, awaited, started, job, history>>

\* filePrepDelay later: the final metrics files, one after the other.
PrepareFiles(k) ==
  /\ Alive
  /\ loop[k] = "files" /\ NextOr(k, "done", "over")
  /\ UNCHANGED <<init, process, row, log, count, extra, fragment,
                 first, awaited, started, job, rejects, history>>

\* ReplayManager.end.
WriteDone(k) ==
  /\ Alive
  /\ loop[k] = "done" /\ Goes(k, "endTime")
  /\ row' = [row EXCEPT ![loaded[at[k]]] = "DONE"]
  /\ UNCHANGED <<init, process, log, count, extra, at, fragment, first,
                 awaited, started, job, rejects, history>>

\* Mutant: only the first replay is ended.
WriteEndTimeOnce(k) ==
  /\ Alive
  /\ loop[k] = "endTime" /\ Goes(k, "over") /\ UNCHANGED at
  /\ UNCHANGED <<init, process, row, log, count, extra, fragment,
                 first, awaited, started, job, rejects, history>>

WriteEndTime(k) ==
  /\ Alive
  /\ loop[k] = "endTime" /\ NextOr(k, "done", "over")
  /\ UNCHANGED <<init, process, row, log, count, extra, fragment,
                 first, awaited, started, job, rejects, history>>

\* The rejections of the timer are nobody's.
TimerFails(k) ==
  /\ Alive /\ Rejects
  /\ loop[k] \in {"files", "done", "endTime"} /\ Goes(k, "rejected")
  /\ UNCHANGED <<init, process, row, log, count, extra, at, fragment, first, awaited,
                 started, job, history>>

----------------------------------------------------------------------------

Setup == CaptureSetup \/ LoadReplay \/ AssignReplay

LoopStep(k) ==
  \/ FragmentStored(k) \/ WriteStartTime(k) \/ WriteRunning(k)
  \/ LogDecided(k) \/ CommandsFinished(k) \/ WriteReplayStopping(k) \/ MetricsFinished(k)
  \/ PrepareFiles(k) \/ WriteDone(k) \/ WriteEndTime(k)

Next ==
  \/ Setup \/ CaptureSetupFails \/ RefuseReplay \/ LoadingFails
  \/ Log \/ Tick \/ Stop
  \/ \E r \in Replays : WriteRefused(r)
  \/ \E p \in 0..N : Panic(p) \/ PanicFails(p)
  \/ \E k \in Loops : \/ LoopStep(k) \/ LoopFails(k) \/ LogFails(k) \/ TeardownFails(k)
                      \/ TimerFails(k)
  \/ \E j \in DOMAIN job : JobOver(j) \/ JobFails(j)

\* Operations come back and timers fire.
Fairness ==
  /\ WF_vars(Setup)
  /\ \A k \in Loops : WF_vars(LoopStep(k))
  /\ \A j \in Jobs : WF_vars(j \in DOMAIN job /\ JobOver(j))

Spec == Init /\ [][Next]_vars
FairSpec == Spec /\ Fairness

----------------------------------------------------------------------------
(* Properties                                                               *)

\* A replay is DONE only after it was given every command that a loop captured, and has
\* executed it: as far as it was loaded when the loop began, and the loop had handed it
\* out before a stop looked at what there was to wait for.
DoneRanAll ==
  \A r \in Replays : row[r] = "DONE" =>
    \A k \in Loops \ late : loop[k] \notin {"none", "query", "startTime", "running", "rejected"} /\ r \in present[k] =>
      \A c \in fragment[k] : <<r, k, c>> \in DOMAIN job /\ job[<<r, k, c>>] = "over"

Rank == [s \in {"STARTED", "STARTING", "RUNNING", "STOPPING", "DONE", "FAILED"} |->
           CASE s = "STARTED" -> 0 [] s = "STARTING" -> 1 [] s = "RUNNING" -> 2
             [] s = "STOPPING" -> 3 [] s = "DONE" -> 4 [] s = "FAILED" -> 5]

\* The status of a replay only goes forward, and FAILED is final, unless a stop overtakes
\* the loading of the replays or a loop that is starting one, a second stop tears down
\* again, or the process is about to destroy itself.
StatusForward ==
  [][\A r \in Replays : Rank[row[r]] <= Rank[row'[r]]
       \/ early \/ overtaken \/ Cardinality(extra) > 1 \/ panics # {}]_vars

\* A mimic that is stopped ends all its replays, unless something failed: one failed
\* command is enough, or the replays were not loaded when the stop came.
MimicSettles ==
  <>[](\/ extra = {}
       \/ \A r \in Replays : row[r] \in {"DONE", "FAILED"}
       \/ early \/ overtaken \/ rejects > 0 \/ panics # {})

===============================================================================
