--------------------------------- MODULE Replay ---------------------------------
(***************************************************************************)
(* One replay: its process, its timers and its row. The process loads the  *)
(* workload, and every interval its loop sets a timer for each command whose *)
(* time comes before the next tick, and measures the interval behind it. A  *)
(* loop that finds nothing left to do writes STOPPING, measures once more   *)
(* and tears the replay down; ticks that come before the interval is       *)
(* cleared find the same and tear it down again.                            *)
(*                                                                         *)
(* Time counts from startTime. A timer fires at its time or at most MaxLate *)
(* later, due timers in any order. Time passes during awaited operations    *)
(* and while timers are due, MaxSlow units in all. Ticks before the workload *)
(* is there change nothing: the loop throws at its first look at it.        *)
(***************************************************************************)
EXTENDS Naturals, Sequences, FiniteSets

CONSTANTS Length,        \* workloadEnd - workloadStart
          MaxCommands,   \* the commands of a workload
          Interval, IntervalOverlap, MetricsDelay, FilePrepDelay,  \* ReplayConfig
          MaxLate,       \* how late a timer may fire
          MaxSlow,       \* how much time may be lost to late timers and operations
          MaxRejects,    \* how many awaited operations may reject
          Horizon,       \* the clock stops here
          MaxLoops       \* the activations of loop

ASSUME ReplayAssumption ==
  /\ Length \in Nat /\ MaxCommands \in Nat
  /\ Interval \in Nat /\ Interval > 0
  /\ IntervalOverlap \in Nat /\ MetricsDelay \in Nat /\ FilePrepDelay \in Nat
  /\ MaxLate \in Nat /\ MaxLate < FilePrepDelay
  /\ MaxSlow \in Nat /\ MaxRejects \in Nat /\ Horizon \in Nat /\ MaxLoops \in Nat

Clock == 0..Horizon
Loops == 1..MaxLoops   \* one per tick, and that of setup

VARIABLES
  workload,   \* the times of the commands, by event_time
  row,        \* Replay.status in the database
  rejects,    \* how many operations have rejected
  setup,      \* the await of setup the process is at
  ipc,        \* does the ipc node listen
  now,        \* moment() - replayStartTime
  slow,       \* the time lost so far
  nextTick,   \* when the interval is due
  cleared,    \* has clearInterval been called (isDone)
  index,      \* workloadIndex
  command,    \* a command is "waiting", "scheduled" or "started"
  count,      \* the loops begun
  loop,       \* where each activation of loop is, up to the end of its teardown
  finished,   \* its local variable
  due,        \* the timer it waits for
  end,        \* the end of the window it measures
  sending,    \* the loops whose metrics are being sent, awaited by nobody
  samples,    \* those whose metrics are in the depot
  isBuilt,    \* does the final metrics file exist
  final,      \* whose metrics it holds
  firstLook,  \* history: when a loop first looked at the commands
  gaps        \* history: times no look covers, because a tick was late

process == <<setup, ipc, cleared>>
time    == <<now, slow, nextTick>>
loops   == <<count, loop, finished, due, end>>
metrics == <<sending, samples, isBuilt, final>>
looks   == <<firstLook, gaps>>
vars    == <<workload, row, rejects, process, time, index, command, loops, metrics, looks>>

Commands == 1..Len(workload)

Sorted(w) == \A i, j \in 1..Len(w) : i <= j => w[i] <= w[j]

Workloads ==
  {w \in UNION {[1..n -> 0..Length] : n \in 0..MaxCommands} : Sorted(w)}

TypeOK ==
  /\ workload \in Workloads
  /\ row \in {"STARTED", "STARTING", "RUNNING", "STOPPING", "DONE", "FAILED"}
  /\ rejects \in 0..MaxRejects
  /\ setup \in {"starting", "load", "startTime", "running", "over",
                "failing", "exiting", "gone"}
  /\ ipc \in BOOLEAN /\ cleared \in BOOLEAN
  /\ now \in Clock /\ slow \in 0..MaxSlow
  /\ nextTick \in 0..(Horizon + Interval)
  /\ index \in 0..Len(workload)
  /\ command \in [Commands -> {"waiting", "scheduled", "started"}]
  /\ count \in 0..MaxLoops
  /\ loop \in [Loops -> {"none", "stopping", "delay", "teardown", "build", "done",
                         "endTime", "ipc", "over", "threw", "rejected"}]
  /\ finished \in [Loops -> BOOLEAN]
  /\ due \in [Loops -> Nat]
  /\ end \in [Loops -> Clock]
  /\ sending \subseteq Loops /\ samples \subseteq Loops /\ final \subseteq Loops
  /\ isBuilt \in BOOLEAN
  /\ firstLook \in 0..(Horizon + 1)
  /\ gaps \subseteq Clock

Init ==
  /\ workload \in Workloads
  /\ row = "STARTED" /\ rejects = 0 /\ setup = "starting" /\ ipc = FALSE /\ cleared = FALSE
  /\ now = 0 /\ slow = 0 /\ nextTick = 0
  /\ index = 0 /\ command = [i \in Commands |-> "waiting"]
  /\ count = 0
  /\ loop = [k \in Loops |-> "none"]
  /\ finished = [k \in Loops |-> FALSE]
  /\ due = [k \in Loops |-> 0]
  /\ end = [k \in Loops |-> 0]
  /\ sending = {} /\ samples = {} /\ isBuilt = FALSE /\ final = {}
  /\ firstLook = Horizon + 1 /\ gaps = {}

----------------------------------------------------------------------------
(* The loop, up to its first await                                          *)

\* Mutant: a command that is due right now is not in the interval.
InIntervalAfter(i) == now < workload[i] /\ workload[i] < now + Interval

\* queryInInterval: 0 <= delay < interval.
InInterval(i) == now <= workload[i] /\ workload[i] < now + Interval

\* The while loop takes commands as long as the next one is in the interval.
Taken(j) ==
  /\ j \in index..Len(workload)
  /\ \A i \in (index + 1)..j : InInterval(i)
  /\ j < Len(workload) => ~InInterval(j + 1)

\* Mutant: the index is one ahead.
ScheduleOneMore(j) ==
  /\ index' = j + 1
  /\ command' = [i \in Commands |->
                   IF index < i /\ i <= j THEN "scheduled" ELSE command[i]]
  /\ firstLook' = IF now < firstLook THEN now ELSE firstLook

Schedule(j) ==
  /\ index' = j
  /\ command' = [i \in Commands |->
                   IF index < i /\ i <= j THEN "scheduled" ELSE command[i]]
  /\ firstLook' = IF now < firstLook THEN now ELSE firstLook

\* Mutant: go on only if there is both.
ContinueBoth(j) == j < Len(workload) /\ now < Length

\* shouldWeContinue.
Continue(j) == j < Len(workload) \/ now < Length

\* Mutant: windows do not overlap.
WindowStartNoOverlap(t) == IF t < Interval THEN 0 ELSE t - Interval

WindowStart(t) == IF t < Interval + IntervalOverlap THEN 0 ELSE t - (Interval + IntervalOverlap)

\* logMetrics: the window ends now, and too short a window is skipped.
LongEnough == now - WindowStart(now) > IntervalOverlap

\* What loop k does about its metrics and afterwards.
Measure(k, isFinished) ==
  /\ end' = [end EXCEPT ![k] = now]
  /\ IF LongEnough
     THEN /\ loop' = [loop EXCEPT ![k] = "delay"]
          /\ due' = [due EXCEPT ![k] = now + MetricsDelay]
          /\ UNCHANGED cleared
     ELSE IF isFinished
     THEN /\ loop' = [loop EXCEPT ![k] = "teardown"]
          /\ due' = [due EXCEPT ![k] = now + FilePrepDelay]
          /\ cleared' = TRUE
     ELSE loop' = [loop EXCEPT ![k] = "over"] /\ UNCHANGED <<due, cleared>>

\* replayEndTime is not there until the start time is written: then the loop
\* throws when no command is left.
Throws(k, j) ==
  /\ setup = "startTime" /\ j = Len(workload)
  /\ loop' = [loop EXCEPT ![k] = "threw"]
  /\ UNCHANGED <<finished, due, end, cleared>>

NothingLeft(j) == j = index /\ ~Continue(j)

Finishes(k, j) ==
  /\ setup # "startTime" /\ NothingLeft(j)
  /\ loop' = [loop EXCEPT ![k] = "stopping"]
  /\ finished' = [finished EXCEPT ![k] = TRUE]
  /\ UNCHANGED <<due, end, cleared>>

GoesOn(k, j) ==
  /\ IF setup = "startTime" THEN j < Len(workload) ELSE ~NothingLeft(j)
  /\ Measure(k, FALSE)
  /\ UNCHANGED finished

LoopBegins ==
  /\ count < MaxLoops /\ count' = count + 1
  /\ \E j \in index..Len(workload) :
       /\ Taken(j) /\ Schedule(j)
       /\ Throws(count + 1, j) \/ Finishes(count + 1, j) \/ GoesOn(count + 1, j)

----------------------------------------------------------------------------
(* setup                                                                    *)

Rejects == rejects < MaxRejects /\ rejects' = rejects + 1

Alive == setup # "gone"

WriteStarting ==
  /\ setup = "starting"
  /\ row' = "STARTING" /\ setup' = "load" /\ ipc' = TRUE
  /\ UNCHANGED <<workload, rejects, cleared, time, index, command, loops, metrics, looks>>

\* getCapture and getWorkload; the interval has been running since run().
Load ==
  /\ setup = "load"
  /\ setup' = "startTime"
  /\ nextTick' \in 0..Interval
  /\ UNCHANGED <<workload, row, rejects, ipc, cleared, now, slow, index, command, loops,
                 metrics, looks>>

SetStartTime ==
  /\ setup = "startTime"
  /\ setup' = "running"
  /\ UNCHANGED <<workload, row, rejects, ipc, cleared, time, index, command, loops,
                 metrics, looks>>

\* RUNNING is written, whatever loops have written meanwhile, and the loop runs.
WriteRunning ==
  /\ setup = "running"
  /\ row' = "RUNNING" /\ setup' = "over"
  /\ LoopBegins
  /\ UNCHANGED <<workload, rejects, ipc, time, metrics, gaps>>

SetupFails ==
  /\ Rejects
  /\ setup \in {"starting", "load", "startTime", "running"}
  /\ setup' = "failing"
  /\ UNCHANGED <<workload, row, ipc, cleared, time, index, command, loops,
                 metrics, looks>>

\* selfDestruct: dontPanic, which may fail, and exit(42).
WriteFailed ==
  /\ setup = "failing"
  /\ \/ row' = "FAILED" /\ UNCHANGED rejects
     \/ Rejects /\ UNCHANGED row
  /\ setup' = "exiting"
  /\ UNCHANGED <<workload, ipc, cleared, time, index, command, loops, metrics, looks>>

Exit ==
  /\ setup = "exiting"
  /\ setup' = "gone"
  /\ UNCHANGED <<workload, row, rejects, ipc, cleared, time, index, command, loops,
                 metrics, looks>>

----------------------------------------------------------------------------
(* Timers                                                                   *)

\* The next one is due an interval after this one fires.
Tick ==
  /\ setup \in {"startTime", "running", "over"}
  /\ ~cleared /\ nextTick <= now
  /\ nextTick' = now + Interval
  /\ gaps' = gaps \cup nextTick..(now - 1)
  /\ LoopBegins
  /\ UNCHANGED <<workload, row, rejects, setup, ipc, now, slow, metrics>>

RunCommand(i) ==
  /\ Alive
  /\ command[i] = "scheduled" /\ workload[i] <= now
  /\ command' = [command EXCEPT ![i] = "started"]
  /\ UNCHANGED <<workload, row, rejects, process, time, index, loops, metrics, looks>>

\* Mutant: a finished loop only sends its metrics.
DelayOverNoStop(k) ==
  /\ Alive
  /\ loop[k] = "delay" /\ due[k] <= now
  /\ sending' = sending \cup {k}
  /\ loop' = [loop EXCEPT ![k] = "over"]
  /\ due' = [due EXCEPT ![k] = 0]
  /\ UNCHANGED <<workload, row, rejects, process, time, index, command, count, finished, end,
                 samples, isBuilt, final, looks>>

\* metricsDelay is over: sendMetricsToS3 is called, not awaited, and a finished
\* loop calls onStop, which clears the interval and tears down.
DelayOver(k) ==
  /\ Alive
  /\ loop[k] = "delay" /\ due[k] <= now
  /\ sending' = sending \cup {k}
  /\ IF finished[k]
     THEN /\ loop' = [loop EXCEPT ![k] = "teardown"]
          /\ due' = [due EXCEPT ![k] = now + FilePrepDelay]
          /\ cleared' = TRUE
     ELSE /\ loop' = [loop EXCEPT ![k] = "over"]
          /\ due' = [due EXCEPT ![k] = 0]
          /\ UNCHANGED cleared
  /\ UNCHANGED <<workload, row, rejects, setup, ipc, time, index, command, count, finished, end,
                 samples, isBuilt, final, looks>>

TeardownFires(k) ==
  /\ Alive
  /\ loop[k] = "teardown" /\ due[k] <= now
  /\ loop' = [loop EXCEPT ![k] = "build"]
  /\ due' = [due EXCEPT ![k] = 0]
  /\ UNCHANGED <<workload, row, rejects, process, time, index, command, count, finished, end,
                 metrics, looks>>

----------------------------------------------------------------------------
(* Operations of a loop and of its teardown                                 *)

\* STOPPING is written; the window of the last metrics ends only now.
WriteStopping(k) ==
  /\ Alive
  /\ loop[k] = "stopping"
  /\ row' = "STOPPING"
  /\ Measure(k, TRUE)
  /\ UNCHANGED <<workload, rejects, setup, ipc, time, index, command, count, finished, metrics, looks>>

Sent(k) ==
  /\ Alive
  /\ k \in sending
  /\ sending' = sending \ {k}
  /\ samples' = samples \cup {k}
  /\ UNCHANGED <<workload, row, rejects, process, time, index, command, loops, isBuilt, final, looks>>

\* tryTwice gives up.
SendFails(k) ==
  /\ Alive /\ Rejects
  /\ k \in sending
  /\ sending' = sending \ {k}
  /\ UNCHANGED <<workload, row, process, time, index, command, loops, samples, isBuilt,
                 final, looks>>

Goes(k, step) ==
  /\ loop' = [loop EXCEPT ![k] = step]
  /\ UNCHANGED <<count, finished, due, end>>

\* MetricsStorage.read: an existing final file is read as it is.
Build(k) ==
  /\ Alive
  /\ loop[k] = "build" /\ Goes(k, "done")
  /\ isBuilt' = TRUE
  /\ final' = IF isBuilt THEN final ELSE samples
  /\ UNCHANGED <<workload, row, rejects, process, time, index, command, sending, samples, looks>>

WriteDone(k) ==
  /\ Alive
  /\ loop[k] = "done" /\ Goes(k, "endTime")
  /\ row' = "DONE"
  /\ UNCHANGED <<workload, rejects, process, time, index, command, metrics, looks>>

WriteEndTime(k) ==
  /\ Alive
  /\ loop[k] = "endTime" /\ Goes(k, "ipc")
  /\ UNCHANGED <<workload, row, rejects, process, time, index, command, metrics, looks>>

\* ipcNode.stop throws if another teardown has stopped it.
StopIpc(k) ==
  /\ Alive
  /\ loop[k] = "ipc" /\ Goes(k, IF ipc THEN "over" ELSE "threw")
  /\ ipc' = FALSE
  /\ UNCHANGED <<workload, row, rejects, setup, cleared, time, index, command, metrics, looks>>

\* The rejection is nobody's: the interval, if not cleared, goes on.
LoopFails(k) ==
  /\ Alive /\ Rejects
  /\ loop[k] \in {"stopping", "build", "done", "endTime"}
  /\ Goes(k, "rejected")
  /\ UNCHANGED <<workload, row, process, time, index, command, metrics, looks>>

----------------------------------------------------------------------------
(* Time                                                                     *)

Awaiting ==
  \/ setup \in {"startTime", "running"}
  \/ \E k \in Loops : loop[k] \in {"stopping", "build", "done", "endTime", "ipc"}
  \/ sending # {}

\* The times of the timers that are set.
Timers ==
  (IF cleared THEN {} ELSE {nextTick})
  \cup {workload[i] : i \in {x \in Commands : command[x] = "scheduled"}}
  \cup {due[k] : k \in {x \in Loops : loop[x] \in {"delay", "teardown"}}}

Advance ==
  /\ setup \in {"startTime", "running", "over"}
  /\ now < Horizon
  /\ \A t \in Timers : now < t + MaxLate
  /\ now' = now + 1
  /\ IF Awaiting \/ \E t \in Timers : t <= now
     THEN slow < MaxSlow /\ slow' = slow + 1
     ELSE UNCHANGED slow
  /\ UNCHANGED <<workload, row, rejects, process, nextTick, index, command, loops, metrics,
                 looks>>

Setup == WriteStarting \/ Load \/ SetStartTime \/ WriteRunning \/ WriteFailed \/ Exit

LoopStep(k) ==
  \/ DelayOver(k) \/ TeardownFires(k) \/ WriteStopping(k)
  \/ Build(k) \/ WriteDone(k) \/ WriteEndTime(k) \/ StopIpc(k)

Next ==
  \/ Setup \/ SetupFails \/ Tick \/ Advance
  \/ \E i \in Commands : RunCommand(i)
  \/ \E k \in Loops : LoopStep(k) \/ Sent(k) \/ SendFails(k) \/ LoopFails(k)

\* Operations come back, timers fire and time passes.
Fairness ==
  /\ WF_vars(Setup) /\ WF_vars(Tick) /\ WF_vars(Advance)
  /\ \A i \in 1..MaxCommands : WF_vars(i \in Commands /\ RunCommand(i))
  /\ \A k \in Loops : WF_vars(LoopStep(k)) /\ WF_vars(Sent(k))

Spec == Init /\ [][Next]_vars
FairSpec == Spec /\ Fairness

----------------------------------------------------------------------------
(* Properties                                                               *)

\* A replay is DONE only after every command of the workload was started, though
\* nothing counts or waits for them: the timers, which may be late, are ahead of
\* the teardown's.
DoneRanAll == row = "DONE" => \A i \in Commands : command[i] = "started"

\* The next command's time has passed: it will never be in the interval again, and
\* the replay waits for it for ever.
Overdue == index < Len(workload) /\ workload[index + 1] < now

\* A command is left out only if its time was over when a loop first looked, or if it
\* fell between the end of what one tick looked at and the next tick, a late one.
OverdueInGap ==
  Overdue =>
    \/ workload[index + 1] < firstLook
    \/ workload[index + 1] \in gaps \cup nextTick..(now - 1)

\* The final metrics of a DONE replay cover all of it but its very beginning (the first
\* window may be skipped as too short, and the next one begin too late by as much as its
\* tick was late), though teardown waits for no metrics, the first of several teardowns
\* decides, and a tick during setup may throw; unless something rejected, or more time
\* was lost than the windows overlap or filePrepDelay allows for. (A replay that is no
\* longer than the overlap may have no window at all.)
MetricsCover ==
  /\ row = "DONE" /\ rejects = 0
  /\ slow <= IntervalOverlap /\ slow < FilePrepDelay /\ IntervalOverlap < Length
  => \A u \in slow..Length : \E k \in final : WindowStart(end[k]) <= u /\ u <= end[k]

\* A replay ends up DONE for good, however many loops have found it finished and write
\* STOPPING and DONE by turns; unless a command is overdue or an operation rejected.
ReplaySettles ==
  <>[](row = "DONE" \/ Overdue \/ rejects > 0)

===============================================================================
