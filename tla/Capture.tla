------------------------------- MODULE Capture -------------------------------
(***************************************************************************)
(* The captures of one environment: what the service does to them (create, *)
(* launch, stop, timed stop, delete), the rows it keeps about them, the    *)
(* capture processes it spawns, and the general log of the database under  *)
(* study, which all of these processes share.                              *)
(*                                                                         *)
(* A capture process is single threaded, but everything it does is async:  *)
(* an action of this module is the code between two awaits, and a state    *)
(* component per coroutine says which await it is at:                      *)
(*   setup[c]    Capture.setup                                             *)
(*   loop[c][l]  one activation of Capture.loop: l = "tick" for the one    *)
(*               the interval timer started, a request for the extra loop  *)
(*               that Subprocess.stop(true) runs for that request          *)
(*   stop[r]     Subprocess.stop, Capture.teardown and its timer callback, *)
(*               on behalf of request r                                    *)
(*   note[r]     Capture.onStop, which starts stop[r] without awaiting it  *)
(*   svc[r]      the handler of the service that serves r                  *)
(*                                                                         *)
(* Faults names what the environment of the code may do wrong:             *)
(*   "op"        an awaited operation (database, RDS, S3, ipc) rejects     *)
(*   "crash"     a capture process is killed                               *)
(*   "slowRow"   onStop's STOPPING update outlasts the extra loop          *)
(*   "slowLoop"  a loop outlasts config.filePrepDelay                      *)
(*   "slowReply" the reply to a stop message takes more than 5 seconds     *)
(*   "lateAck"   a stop arrives before the process has set startTime: in   *)
(*               its setup, or once the row says RUNNING but the update's  *)
(*               acknowledgement is still on its way                       *)
(*   "double"    two requests to stop or delete one capture race           *)
(***************************************************************************)
EXTENDS Naturals, FiniteSets

CONSTANTS Captures,    \* the captures of the environment
          UserStops,   \* POST /captures/:id/stop requests
          TimedStops,  \* scheduled ends (a capture created with a duration)
          Deletes,     \* DELETE /captures/:id requests
          Ticking,     \* captures that live longer than their interval
          Faults       \* see above

Requests == UserStops \cup TimedStops \cup Deletes
Loops == {"tick"} \cup Requests

ASSUME RequestsDisjoint ==
  /\ UserStops \cap TimedStops = {}
  /\ UserStops \cap Deletes = {}
  /\ TimedStops \cap Deletes = {}
  /\ "tick" \notin Requests
  /\ "none" \notin Captures

VARIABLES
  row,         \* status column of the Capture table, "deleted" once removed
  generalLog,  \* is the general log of the database on
  proc,        \* life of the capture's process
  setup,       \* where Capture.setup is
  logging,     \* WorkloadLogger.logging, in the process's memory
  ipc,         \* is the process's IpcNode listening
  loop,        \* where each activation of Capture.loop is
  final,       \* the final files that exist in the capture's storage
  stray,       \* kinds of sample stored after their final file was built
  target,      \* the capture a request is about
  svc,         \* where the service's handler of a request is
  msg,         \* the CaptureStop message of a request
  note,        \* where Capture.onStop is
  stop,        \* where Subprocess.stop and Capture.teardown are
  wait,        \* the loops whose metrics the teardown waits for
  late,        \* history: captures in progress since a request's look at the rows
  exposed      \* history: captures whose log was turned off in that window

storageVars == <<final, stray>>
requestVars == <<target, svc, msg>>
stopVars    == <<note, stop, wait>>
history     == <<late, exposed>>
vars == <<row, generalLog, proc, setup, logging, ipc, loop, storageVars,
          requestVars, stopVars, history>>

Needs == {"STARTED", "STARTING", "RUNNING"}  \* getRunningCapturesForEnv
Row   == Needs \cup {"absent", "SCHEDULED", "STOPPING", "DONE", "FAILED", "deleted"}
Started == {"startTime", "ready"}            \* setup has set this.startTime

TypeOK ==
  /\ row \in [Captures -> Row]
  /\ generalLog \in BOOLEAN
  /\ proc \in [Captures -> {"none", "up", "dying", "exiting", "gone"}]
  /\ setup \in [Captures -> {"valid", "ipcStart", "starting", "loggingOn",
                             "running", "ack", "failed"} \cup Started]
  /\ logging \in [Captures -> BOOLEAN]
  /\ ipc \in [Captures -> BOOLEAN]
  /\ loop \in [Captures -> [Loops -> {"idle", "query", "metrics"}]]
  /\ final \in [Captures -> SUBSET {"workload", "metrics"}]
  /\ stray \in [Captures -> SUBSET {"workload", "metrics"}]
  /\ target \in [Requests -> Captures \cup {"none"}]
  /\ svc \in [Requests -> {"idle", "checked", "waiting", "markFailed",
                           "delSend", "delRow", "over"}]
  /\ msg \in [Requests -> {"none", "sent", "lost", "got"}]
  /\ note \in [Requests -> {"idle", "stopping", "reply", "replied", "failed"}]
  /\ stop \in [Requests -> {"idle", "loop", "decide", "turnOff", "timer",
                            "metrics", "done", "over", "failed"}]
  /\ wait \in [Requests -> SUBSET Loops]
  /\ late \in [Requests -> SUBSET Captures]
  /\ exposed \in SUBSET Captures

Init ==
  /\ row = [c \in Captures |-> "absent"]
  /\ generalLog = FALSE
  /\ proc = [c \in Captures |-> "none"]
  /\ setup = [c \in Captures |-> "valid"]
  /\ logging = [c \in Captures |-> FALSE]
  /\ ipc = [c \in Captures |-> FALSE]
  /\ loop = [c \in Captures |-> [l \in Loops |-> "idle"]]
  /\ final = [c \in Captures |-> {}]
  /\ stray = [c \in Captures |-> {}]
  /\ target = [r \in Requests |-> "none"]
  /\ svc = [r \in Requests |-> "idle"]
  /\ msg = [r \in Requests |-> "none"]
  /\ note = [r \in Requests |-> "idle"]
  /\ stop = [r \in Requests |-> "idle"]
  /\ wait = [r \in Requests |-> {}]
  /\ late = [r \in Requests |-> {}]
  /\ exposed = {}

----------------------------------------------------------------------------
(* Helpers                                                                  *)

\* The process of c executes code (selfDestruct does not stop its coroutines
\* before process.exit).
Alive(c) == proc[c] \in {"up", "dying", "exiting"}

\* Subprocess.isDone: some request reached onStop, which clears the interval.
IsDone(c) == \E r \in Requests : target[r] = c /\ stop[r] # "idle"

\* UPDATE Capture SET status = s WHERE id = c changes nothing without a row.
SetRow(c, s) == row' = IF row[c] = "deleted" THEN row ELSE [row EXCEPT ![c] = s]

\* History: c's row enters Needs; the requests that have already looked at the
\* rows and are about to turn the log off do not know about c.
Enters(c) ==
  late' = [r \in Requests |->
             IF stop[r] = "turnOff" /\ row[c] \notin Needs \cup {"deleted"}
             THEN late[r] \cup {c} ELSE late[r]]

\* Subprocess.selfDestruct up to its first await.
SelfDestruct(c) == proc' = [proc EXCEPT ![c] = IF @ = "up" THEN "dying" ELSE @]

----------------------------------------------------------------------------
(* The service creates and launches a capture                               *)

\* createCaptureTemplate inserts the row: STARTED, or SCHEDULED for later.
Post(c) ==
  /\ row[c] = "absent"
  /\ \/ row' = [row EXCEPT ![c] = "STARTED"] /\ Enters(c)
     \/ row' = [row EXCEPT ![c] = "SCHEDULED"] /\ UNCHANGED late
  /\ UNCHANGED <<generalLog, proc, setup, logging, ipc, loop, storageVars,
                 requestVars, stopVars, exposed>>

\* startCapture spawns the process, at once or when the scheduled job fires;
\* nothing cancels the job, so the row may be gone by then.
Launch(c) ==
  /\ row[c] # "absent" /\ proc[c] = "none"
  /\ proc' = [proc EXCEPT ![c] = "up"]
  /\ UNCHANGED <<row, generalLog, setup, logging, ipc, loop, storageVars,
                 requestVars, stopVars, history>>

----------------------------------------------------------------------------
(* Capture.setup                                                            *)

\* validCapture: only a capture nobody started yet is run; otherwise exit.
Validate(c) ==
  /\ Alive(c) /\ setup[c] = "valid"
  /\ IF row[c] \in {"STARTED", "SCHEDULED"}
     THEN setup' = [setup EXCEPT ![c] = "ipcStart"] /\ UNCHANGED proc
     ELSE proc' = [proc EXCEPT ![c] = "gone"] /\ UNCHANGED setup
  /\ UNCHANGED <<row, generalLog, logging, ipc, loop, storageVars,
                 requestVars, stopVars, history>>

IpcStarted(c) ==
  /\ Alive(c) /\ setup[c] = "ipcStart"
  /\ ipc' = [ipc EXCEPT ![c] = TRUE]
  /\ setup' = [setup EXCEPT ![c] = "starting"]
  /\ UNCHANGED <<row, generalLog, proc, logging, loop, storageVars,
                 requestVars, stopVars, history>>

WriteStarting(c) ==
  /\ Alive(c) /\ setup[c] = "starting"
  /\ SetRow(c, "STARTING") /\ Enters(c)
  /\ setup' = [setup EXCEPT ![c] = "loggingOn"]
  /\ UNCHANGED <<generalLog, proc, logging, ipc, loop, storageVars,
                 requestVars, stopVars, exposed>>

\* setLogging(true) turns the log on whatever the other captures are doing.
TurnOn(c) ==
  /\ Alive(c) /\ setup[c] = "loggingOn"
  /\ generalLog' = TRUE
  /\ logging' = [logging EXCEPT ![c] = TRUE]
  /\ setup' = [setup EXCEPT ![c] = "running"]
  /\ UNCHANGED <<row, proc, ipc, loop, storageVars, requestVars, stopVars,
                 history>>

WriteRunning(c) ==
  /\ Alive(c) /\ setup[c] = "running"
  /\ SetRow(c, "RUNNING") /\ Enters(c)
  /\ setup' = [setup EXCEPT ![c] = "ack"]
  /\ UNCHANGED <<generalLog, proc, logging, ipc, loop, storageVars,
                 requestVars, stopVars, exposed>>

\* The awaited update resolves and startTime is set, in memory and then in the row.
SetStartTime(c) ==
  /\ Alive(c) /\ setup[c] \in {"ack", "startTime"}
  /\ setup' = [setup EXCEPT ![c] = IF @ = "ack" THEN "startTime" ELSE "ready"]
  /\ UNCHANGED <<row, generalLog, proc, logging, ipc, loop, storageVars,
                 requestVars, stopVars, history>>

\* The catch of setup: selfDestruct. startTime stays set once it was.
SetupFails(c) ==
  /\ "op" \in Faults
  /\ Alive(c)
  /\ setup[c] \in {"ipcStart", "starting", "loggingOn", "running", "ack", "startTime"}
  /\ setup' = [setup EXCEPT ![c] = IF @ = "startTime" THEN "ready" ELSE "failed"]
  /\ SelfDestruct(c)
  /\ UNCHANGED <<row, generalLog, logging, ipc, loop, storageVars,
                 requestVars, stopVars, history>>

----------------------------------------------------------------------------
(* The end of a process                                                     *)

\* dontPanic writes FAILED; if that rejects too, the process exits all the same.
WriteFailed(c) ==
  /\ proc[c] = "dying"
  /\ proc' = [proc EXCEPT ![c] = "exiting"]
  /\ SetRow(c, "FAILED") \/ ("op" \in Faults /\ UNCHANGED row)
  /\ UNCHANGED <<generalLog, setup, logging, ipc, loop, storageVars,
                 requestVars, stopVars, history>>

\* process.exit(42), or the process is killed: its memory and its socket go.
Exit(c) ==
  /\ proc[c] = "exiting" \/ ("crash" \in Faults /\ Alive(c))
  /\ proc' = [proc EXCEPT ![c] = "gone"]
  /\ ipc' = [ipc EXCEPT ![c] = FALSE]
  /\ logging' = [logging EXCEPT ![c] = FALSE]
  /\ loop' = [loop EXCEPT ![c] = [l \in Loops |-> "idle"]]
  /\ UNCHANGED <<row, generalLog, setup, storageVars, requestVars, stopVars,
                 history>>

----------------------------------------------------------------------------
(* Capture.loop                                                             *)

\* Without startTime loop() throws; without logging getWorkloadFragment does,
\* twice. Either way the activation has no effect but its rejection.
LoopCanRun(c) == setup[c] \in Started /\ logging[c]

\* The interval timer fires. A rejected tick is swallowed, so only the ticks
\* that run are steps. (Bound: one tick of a capture at a time.)
StartTick(c) ==
  /\ c \in Ticking /\ Alive(c) /\ ~IsDone(c) /\ LoopCanRun(c)
  /\ loop[c]["tick"] = "idle"
  /\ loop' = [loop EXCEPT ![c]["tick"] = "query"]
  /\ UNCHANGED <<row, generalLog, proc, setup, logging, ipc, storageVars,
                 requestVars, stopVars, history>>

\* A sample of this kind is put in the depot: too late if the final file exists,
\* because FragmentedStorage never reopens a done file.
Store(c, kind) ==
  stray' = [stray EXCEPT ![c] = IF kind \in final[c] THEN @ \cup {kind} ELSE @]

\* sendWorkloadToS3 stored the fragment and the timer for the metrics is set.
\* After an extra loop, stop() goes on to teardown, and setLogging(false) throws
\* at once if another activation of stop has turned logging off already.
LoopStored(c, l) ==
  /\ Alive(c) /\ loop[c][l] = "query"
  /\ loop' = [loop EXCEPT ![c][l] = "metrics"]
  /\ Store(c, "workload")
  /\ IF l \notin Requests THEN UNCHANGED <<stop, proc>>
     ELSE /\ stop' = [stop EXCEPT ![l] = IF logging[c] THEN "decide" ELSE "failed"]
          /\ IF logging[c] THEN UNCHANGED proc ELSE SelfDestruct(c)
  /\ UNCHANGED <<row, generalLog, setup, logging, ipc, final, requestVars,
                 note, wait, history>>

\* Both tries failed: loop throws. For a tick nobody notices; in stop() the
\* rejection skips teardown.
LoopFails(c, l) ==
  /\ "op" \in Faults
  /\ Alive(c) /\ loop[c][l] = "query"
  /\ loop' = [loop EXCEPT ![c][l] = "idle"]
  /\ stop' = IF l \in Requests THEN [stop EXCEPT ![l] = "failed"] ELSE stop
  /\ UNCHANGED <<row, generalLog, proc, setup, logging, ipc, storageVars,
                 requestVars, note, wait, history>>

\* After metricsDelay, sendMetricsToS3 stores the metrics of the window; its
\* promise resolves even if both tries failed.
MetricsSent(c, l) ==
  /\ Alive(c) /\ loop[c][l] = "metrics"
  /\ loop' = [loop EXCEPT ![c][l] = "idle"]
  /\ Store(c, "metrics") \/ ("op" \in Faults /\ UNCHANGED stray)
  /\ UNCHANGED <<row, generalLog, proc, setup, logging, ipc, final, requestVars,
                 stopVars, history>>

----------------------------------------------------------------------------
(* Capture.onStop, Subprocess.stop and Capture.teardown                     *)

\* The message arrives: isDone is set, the interval cleared and the extra loop
\* begun before onStop issues its STOPPING update.
Deliver(r) ==
  LET c == target[r] IN
  /\ msg[r] = "sent" /\ Alive(c) /\ ipc[c]
  /\ "lateAck" \in Faults \/ setup[c] \in Started
  /\ msg' = [msg EXCEPT ![r] = "got"]
  /\ note' = [note EXCEPT ![r] = "stopping"]
  /\ IF LoopCanRun(c)
     THEN /\ loop' = [loop EXCEPT ![c][r] = "query"]
          /\ stop' = [stop EXCEPT ![r] = "loop"]
     ELSE stop' = [stop EXCEPT ![r] = "failed"] /\ UNCHANGED loop
  /\ UNCHANGED <<row, generalLog, proc, setup, logging, ipc, storageVars,
                 target, svc, wait, history>>

WriteStopping(r) ==
  /\ note[r] = "stopping" /\ Alive(target[r])
  /\ SetRow(target[r], "STOPPING")
  /\ note' = [note EXCEPT ![r] = "reply"]
  /\ UNCHANGED <<generalLog, proc, setup, logging, ipc, loop, storageVars,
                 requestVars, stop, wait, history>>

\* The end time is written and the handler's promise resolves: the reply leaves.
Reply(r) ==
  /\ note[r] = "reply" /\ Alive(target[r])
  /\ note' = [note EXCEPT ![r] = "replied"]
  /\ UNCHANGED <<row, generalLog, proc, setup, logging, ipc, loop, storageVars,
                 requestVars, stop, wait, history>>

\* onStop rejects: no reply is sent.
NoteFails(r) ==
  /\ "op" \in Faults
  /\ note[r] \in {"stopping", "reply"} /\ Alive(target[r])
  /\ note' = [note EXCEPT ![r] = "failed"]
  /\ UNCHANGED <<row, generalLog, proc, setup, logging, ipc, loop, storageVars,
                 requestVars, stop, wait, history>>

\* Mutants: the query forgets the captures that are starting; it counts those
\* that are stopping (and with them the capture that asks).
RunningCapturesNotStarting == {c \in Captures : row[c] \in {"STARTED", "RUNNING"}}
RunningCapturesAndStopping == {c \in Captures : row[c] \in Needs \cup {"STOPPING"}}

\* getRunningCapturesForEnv, as a look at the rows of this moment.
RunningCaptures == {c \in Captures : row[c] \in Needs}

\* Mutant: a log that others need is an error, and teardown ends there.
DecideOrGiveUp(r) ==
  /\ stop[r] = "decide" /\ Alive(target[r])
  /\ "slowRow" \in Faults \/ note[r] # "stopping"
  /\ stop' = [stop EXCEPT ![r] = IF RunningCaptures = {} THEN "turnOff" ELSE "failed"]
  /\ UNCHANGED <<row, generalLog, proc, setup, logging, ipc, loop, storageVars,
                 requestVars, note, wait, history>>

\* setLogging(false): the log is turned off if the rows show no capture in
\* progress (this one's own row included); otherwise it is left on.
Decide(r) ==
  /\ stop[r] = "decide" /\ Alive(target[r])
  /\ "slowRow" \in Faults \/ note[r] # "stopping"
  /\ stop' = [stop EXCEPT ![r] = IF RunningCaptures = {} THEN "turnOff" ELSE "timer"]
  /\ UNCHANGED <<row, generalLog, proc, setup, logging, ipc, loop, storageVars,
                 requestVars, note, wait, history>>

TurnOff(r) ==
  LET c == target[r] IN
  /\ stop[r] = "turnOff" /\ Alive(c)
  /\ generalLog' = FALSE
  /\ logging' = [logging EXCEPT ![c] = FALSE]
  /\ stop' = [stop EXCEPT ![r] = "timer"]
  /\ exposed' = exposed \cup late[r]
  /\ late' = [late EXCEPT ![r] = {}]
  /\ UNCHANGED <<row, proc, setup, ipc, loop, storageVars, requestVars, note, wait>>

\* The catch of teardown: selfDestruct.
TeardownFails(r) ==
  /\ "op" \in Faults
  /\ stop[r] \in {"decide", "turnOff"} /\ Alive(target[r])
  /\ stop' = [stop EXCEPT ![r] = "failed"]
  /\ SelfDestruct(target[r])
  /\ UNCHANGED <<row, generalLog, setup, logging, ipc, loop, storageVars,
                 requestVars, note, wait, history>>

\* Mutant: the metrics still to come are not waited for.
BuildWorkloadNoWait(r) ==
  /\ stop[r] = "timer" /\ Alive(target[r])
  /\ "slowLoop" \in Faults \/ \A l \in Loops : loop[target[r]][l] # "query"
  /\ "slowRow" \in Faults \/ note[r] # "stopping"
  /\ final' = [final EXCEPT ![target[r]] = @ \cup {"workload"}]
  /\ stop' = [stop EXCEPT ![r] = "metrics"]
  /\ UNCHANGED <<row, generalLog, proc, setup, logging, ipc, loop, stray,
                 requestVars, note, wait, history>>

\* The timer of teardown fires after filePrepDelay and the final workload file
\* is built. A second build that comes later finds the done file and rewrites it
\* unchanged; two that overlap are a subject of FragmentedStorage.
\* Promise.all then waits for the metrics promises pushed so far.
BuildWorkload(r) ==
  LET c == target[r] IN
  /\ stop[r] = "timer" /\ Alive(c)
  /\ "slowLoop" \in Faults \/ \A l \in Loops : loop[c][l] # "query"
  /\ "slowRow" \in Faults \/ note[r] # "stopping"
  /\ final' = [final EXCEPT ![c] = @ \cup {"workload"}]
  /\ wait' = [wait EXCEPT ![r] = {l \in Loops : loop[c][l] = "metrics"}]
  /\ stop' = [stop EXCEPT ![r] = "metrics"]
  /\ UNCHANGED <<row, generalLog, proc, setup, logging, ipc, loop, stray,
                 requestVars, note, history>>

\* Mutant: stopping the ipc node a second time is not an error.
BuildMetricsAgain(r) ==
  /\ stop[r] = "metrics" /\ Alive(target[r])
  /\ \A l \in wait[r] : loop[target[r]][l] # "metrics"
  /\ final' = [final EXCEPT ![target[r]] = @ \cup {"metrics"}]
  /\ wait' = [wait EXCEPT ![r] = {}]
  /\ ipc' = [ipc EXCEPT ![target[r]] = FALSE]
  /\ stop' = [stop EXCEPT ![r] = "done"]
  /\ UNCHANGED <<row, generalLog, proc, setup, logging, loop, stray,
                 requestVars, note, history>>

\* Promise.all resolves, the final metrics file is built and the ipc node is
\* stopped, which throws (in a timer callback: nobody catches it) the second time.
BuildMetrics(r) ==
  LET c == target[r] IN
  /\ stop[r] = "metrics" /\ Alive(c)
  /\ \A l \in wait[r] : loop[c][l] # "metrics"
  /\ final' = [final EXCEPT ![c] = @ \cup {"metrics"}]
  /\ wait' = [wait EXCEPT ![r] = {}]
  /\ ipc' = [ipc EXCEPT ![c] = FALSE]
  /\ stop' = [stop EXCEPT ![r] = IF ipc[c] THEN "done" ELSE "failed"]
  /\ UNCHANGED <<row, generalLog, proc, setup, logging, loop, stray,
                 requestVars, note, history>>

\* Mutant: the status is written as the log line spells it.
WriteDoneLowerCase(r) ==
  /\ stop[r] = "done" /\ Alive(target[r])
  /\ SetRow(target[r], "done")
  /\ stop' = [stop EXCEPT ![r] = "over"]
  /\ UNCHANGED <<generalLog, proc, setup, logging, ipc, loop, storageVars,
                 requestVars, note, wait, history>>

WriteDone(r) ==
  /\ stop[r] = "done" /\ Alive(target[r])
  /\ SetRow(target[r], "DONE")
  /\ stop' = [stop EXCEPT ![r] = "over"]
  /\ UNCHANGED <<generalLog, proc, setup, logging, ipc, loop, storageVars,
                 requestVars, note, wait, history>>

\* The try of teardown ended when the timer was set: a rejection in its callback
\* is lost and the finalisation just stops there.
TimerFails(r) ==
  /\ "op" \in Faults
  /\ stop[r] \in {"timer", "metrics", "done"} /\ Alive(target[r])
  /\ stop' = [stop EXCEPT ![r] = "failed"]
  /\ wait' = [wait EXCEPT ![r] = {}]
  /\ UNCHANGED <<row, generalLog, proc, setup, logging, ipc, loop, storageVars,
                 requestVars, note, history>>

----------------------------------------------------------------------------
(* The service's handlers                                                   *)

Targeted(c) == \E q \in Requests : target[q] = c

\* Without the fault "double", a capture gets one request.
Begin(r, c, at) ==
  /\ svc[r] = "idle"
  /\ "double" \in Faults \/ ~Targeted(c)
  /\ target' = [target EXCEPT ![r] = c]
  /\ svc' = [svc EXCEPT ![r] = at]
  /\ UNCHANGED <<row, generalLog, proc, setup, logging, ipc, loop, storageVars,
                 msg, stopVars, history>>

\* Mutant: a capture that is starting may be stopped too.
UserStopStarting(r, c) ==
  /\ r \in UserStops /\ row[c] \in {"STARTING", "RUNNING"}
  /\ Begin(r, c, "checked")

\* POST /:id/stop reads the row; only RUNNING leads to a message (the other
\* statuses are answered with an error and change nothing).
UserStop(r, c) ==
  /\ r \in UserStops /\ row[c] = "RUNNING"
  /\ Begin(r, c, "checked")

\* The job scheduled for the end of the capture asks nothing about its status.
TimedStop(r, c) ==
  /\ r \in TimedStops /\ row[c] # "absent"
  /\ Begin(r, c, "checked")

\* DELETE /:id reads the row: a capture in progress is sent a stop first.
Delete(r, c) ==
  /\ r \in Deletes /\ row[c] \notin {"absent", "deleted"}
  /\ Begin(r, c, IF row[c] \in Needs THEN "delSend" ELSE "delRow")

\* stopCapture connects to the child's socket and writes the message. If nobody
\* listens there the connection is retried (5 times, 2 seconds apart), after which
\* the message is lost. A delete does not wait for the answer.
Send(r) ==
  LET c == target[r] IN
  /\ svc[r] \in {"checked", "delSend"}
  /\ \/ msg' = [msg EXCEPT ![r] = "sent"]
     \/ ~ipc[c] /\ msg' = [msg EXCEPT ![r] = "lost"]
  /\ svc' = [svc EXCEPT ![r] = IF @ = "checked" THEN "waiting" ELSE "delRow"]
  /\ UNCHANGED <<row, generalLog, proc, setup, logging, ipc, loop, storageVars,
                 target, stopVars, history>>

Answered(r) ==
  /\ svc[r] = "waiting" /\ note[r] = "replied"
  /\ svc' = [svc EXCEPT ![r] = "over"]
  /\ UNCHANGED <<row, generalLog, proc, setup, logging, ipc, loop, storageVars,
                 target, msg, stopVars, history>>

\* 5 seconds without a reply: stopCapture returns null, and the stop route (not
\* the timed stop) marks the capture failed.
Timeout(r) ==
  /\ svc[r] = "waiting"
  /\ \/ "slowReply" \in Faults
     \/ msg[r] = "lost" \/ note[r] = "failed"
     \/ ~Alive(target[r]) \/ (msg[r] = "sent" /\ ~ipc[target[r]])
  /\ svc' = [svc EXCEPT ![r] = IF r \in UserStops THEN "markFailed" ELSE "over"]
  /\ UNCHANGED <<row, generalLog, proc, setup, logging, ipc, loop, storageVars,
                 target, msg, stopVars, history>>

\* The update is not awaited, so it lands some time after the 500 answer.
MarkFailed(r) ==
  /\ svc[r] = "markFailed"
  /\ SetRow(target[r], "FAILED")
  /\ svc' = [svc EXCEPT ![r] = "over"]
  /\ UNCHANGED <<generalLog, proc, setup, logging, ipc, loop, storageVars,
                 target, msg, stopVars, history>>

DeleteRow(r) ==
  /\ svc[r] = "delRow"
  /\ row' = [row EXCEPT ![target[r]] = "deleted"]
  /\ svc' = [svc EXCEPT ![r] = "over"]
  /\ UNCHANGED <<generalLog, proc, setup, logging, ipc, loop, storageVars,
                 target, msg, stopVars, history>>

----------------------------------------------------------------------------

SetupStep(c) ==
  \/ Validate(c) \/ IpcStarted(c) \/ WriteStarting(c) \/ TurnOn(c)
  \/ WriteRunning(c) \/ SetStartTime(c) \/ SetupFails(c)
EndStep(c)   == WriteFailed(c) \/ Exit(c)
LoopStep(c, l) == LoopStored(c, l) \/ LoopFails(c, l) \/ MetricsSent(c, l)
NoteStep(r)  == WriteStopping(r) \/ Reply(r) \/ NoteFails(r)
StopStep(r)  ==
  \/ Decide(r) \/ TurnOff(r) \/ TeardownFails(r) \/ BuildWorkload(r)
  \/ BuildMetrics(r) \/ WriteDone(r) \/ TimerFails(r)
ServiceStep(r) ==
  Send(r) \/ Answered(r) \/ Timeout(r) \/ MarkFailed(r) \/ DeleteRow(r)

Next ==
  \/ \E c \in Captures :
       \/ Post(c) \/ Launch(c) \/ SetupStep(c) \/ EndStep(c) \/ StartTick(c)
       \/ \E l \in Loops : LoopStep(c, l)
       \/ \E r \in Requests : UserStop(r, c) \/ TimedStop(r, c) \/ Delete(r, c)
  \/ \E r \in Requests : Deliver(r) \/ NoteStep(r) \/ StopStep(r) \/ ServiceStep(r)

\* What the runtime schedules happens: awaited operations settle, timers fire,
\* a message written to a listening socket is read, a spawn takes place. Users
\* and the interval timer owe nothing.
Fairness ==
  /\ \A c \in Captures :
       /\ WF_vars(Launch(c)) /\ WF_vars(SetupStep(c)) /\ WF_vars(EndStep(c))
       /\ \A l \in Loops : WF_vars(LoopStep(c, l))
  /\ \A r \in Requests :
       /\ WF_vars(Deliver(r)) /\ WF_vars(NoteStep(r))
       /\ WF_vars(StopStep(r)) /\ WF_vars(ServiceStep(r))

Spec == Init /\ [][Next]_vars
FairSpec == Spec /\ Fairness

----------------------------------------------------------------------------
(* Properties                                                               *)

\* A RUNNING capture nobody has stopped finds the general log off only if its
\* row entered the table between another capture's look at the rows and that
\* capture's turning the log off (workload-logger.ts, setLogging).
LogLostOnlyInWindow ==
  \A c \in Captures :
    row[c] = "RUNNING" /\ logging[c] /\ ~IsDone(c) /\ ~generalLog => c \in exposed

\* The general log is never left on by everybody: while it is on, some capture
\* is in progress or is still about to look at the rows and turn it off.
LogHasOwner ==
  generalLog => \E c \in Captures :
    \/ row[c] \in Needs
    \/ logging[c] /\ \E r \in Requests :
         target[r] = c /\ stop[r] \in {"loop", "decide", "turnOff"}

\* However many stops reach a capture, at most one of them gets to mark it DONE:
\* the others die in setLogging, in the extra loop or in stopping the ipc node.
OneFinish ==
  \A q, r \in Requests :
    target[q] = target[r] /\ stop[q] \in {"done", "over"} /\ stop[r] \in {"done", "over"}
      => q = r

\* A DONE capture's final files hold every sample its process ever stored.
DoneIsComplete ==
  \A c \in Captures :
    row[c] = "DONE" => final[c] = {"workload", "metrics"} /\ stray[c] = {}

\* A capture that left the statuses in which it needs the log comes back to them,
\* and so needs a log that a look at the rows took for unused, in one case only: a
\* timed stop or the deletion's stop, whose sender asks nothing about the status,
\* reached the process in its setup. loop() threw, which ended the stop, but
\* onStop's STOPPING is overwritten by what setup goes on to write.
NeverReopened ==
  [][\A c \in Captures :
       row[c] \notin Needs \cup {"absent", "SCHEDULED"} /\ row'[c] \in Needs =>
         /\ row[c] = "STOPPING"
         /\ \E r \in TimedStops \cup Deletes : target[r] = c /\ stop[r] = "failed"]_vars

\* workload-logger.ts: "Only turn off general logging if there are no other
\* captures in progress".
TurnOffOnlyWhenUnused ==
  [][generalLog /\ ~generalLog' => RunningCaptures = {}]_vars

\* routes/capture.ts, delete: "stop capture on the server".
DeletedIsStopped ==
  \A c \in Captures : row[c] = "deleted" /\ ipc[c] ~> ~ipc[c]

\* The capture implements CaptureStatus: its results are sealed once both final
\* files exist, and torn if a sample came too late to be in them.
Results ==
  [c \in Captures |-> IF stray[c] # {} THEN "torn"
                      ELSE IF final[c] = {"workload", "metrics"} THEN "sealed"
                      ELSE "open"]

Status == INSTANCE CaptureStatus WITH results <- Results

\* Without faults and deletions, readers of the row see what data.ts promises,
\* and a stopped capture is DONE in the end.
ImplementsStatus == Status!FairSpec

===============================================================================
