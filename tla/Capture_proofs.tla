--------------------------- MODULE Capture_proofs ---------------------------
(***************************************************************************)
(* Theorems about Capture, for any captures, requests and faults.          *)
(***************************************************************************)
EXTENDS Capture, TLAPS

-----------------------------------------------------------------------------
(* The types                                                                *)

\* The initial state is well typed.
LEMMA InitTyped == Init => TypeOK
  <1> SUFFICES ASSUME Init PROVE TypeOK
    OBVIOUS
  <1> USE DEF Init
  <1>1. row \in [Captures -> Row] /\ setup \in [Captures -> {"valid"}]
    BY DEF Row
  <1>2. loop \in [Captures -> [Loops -> {"idle", "query", "metrics"}]]
    OBVIOUS
  <1>3. wait \in [Requests -> SUBSET Loops] /\ late \in [Requests -> SUBSET Captures]
    OBVIOUS
  <1> QED BY <1>1, <1>2, <1>3 DEF TypeOK

\* Creating and launching a capture keep the types.
LEMMA CreateTyped ==
  ASSUME TypeOK, NEW c \in Captures, Post(c) \/ Launch(c)
  PROVE  TypeOK'
  <1> USE DEF TypeOK, Row, Needs, Started, storageVars, requestVars, stopVars,
              history
  <1>1. CASE Post(c)
    <2>1. CASE row' = [row EXCEPT ![c] = "STARTED"] /\ Enters(c)
      BY <1>1, <2>1 DEF Post, Enters
    <2>2. CASE row' = [row EXCEPT ![c] = "SCHEDULED"] /\ UNCHANGED late
      BY <1>1, <2>2 DEF Post
    <2> QED BY <1>1, <2>1, <2>2 DEF Post
  <1>2. CASE Launch(c) BY <1>2 DEF Launch
  <1> QED BY <1>1, <1>2

\* Beginning a request keeps the types.
LEMMA RequestTyped ==
  ASSUME TypeOK, NEW c \in Captures, NEW r \in Requests,
         UserStop(r, c) \/ TimedStop(r, c) \/ Delete(r, c)
  PROVE  TypeOK'
  <1> USE DEF TypeOK, storageVars, stopVars, history, Begin
  <1>1. CASE UserStop(r, c) BY <1>1 DEF UserStop
  <1>2. CASE TimedStop(r, c) BY <1>2 DEF TimedStop
  <1>3. CASE Delete(r, c) BY <1>3 DEF Delete
  <1> QED BY <1>1, <1>2, <1>3

\* The rest of the service's handlers keep the types.
LEMMA ServiceTyped ==
  ASSUME TypeOK, NEW r \in Requests, ServiceStep(r)
  PROVE  TypeOK'
  <1> USE DEF TypeOK, Row, Needs, storageVars, stopVars, history, SetRow
  <1>1. CASE Send(r) BY <1>1 DEF Send
  <1>2. CASE Answered(r) BY <1>2 DEF Answered
  <1>3. CASE Timeout(r) BY <1>3 DEF Timeout
  <1>4. CASE MarkFailed(r) BY <1>4 DEF MarkFailed
  <1>5. CASE DeleteRow(r) BY <1>5 DEF DeleteRow
  <1> QED BY <1>1, <1>2, <1>3, <1>4, <1>5 DEF ServiceStep

\* The end of a loop keeps the types.
LEMMA LoopStoredTyped ==
  ASSUME TypeOK, NEW c \in Captures, NEW l \in Loops, LoopStored(c, l)
  PROVE  TypeOK'
  <1> DEFINE Procs == {"none", "up", "dying", "exiting", "gone"}
             Stops == {"idle", "loop", "decide", "turnOff", "timer", "metrics",
                       "done", "over", "failed"}
  <1>1. proc \in [Captures -> Procs] /\ stop \in [Requests -> Stops]
    BY DEF TypeOK
  <1>2. loop' \in [Captures -> [Loops -> {"idle", "query", "metrics"}]]
    BY DEF LoopStored, TypeOK
  <1>3. stray' \in [Captures -> SUBSET {"workload", "metrics"}]
    BY DEF LoopStored, Store, TypeOK
  <1>4. \/ stop' = stop
        \/ stop' = [stop EXCEPT ![l] = "decide"]
        \/ stop' = [stop EXCEPT ![l] = "failed"]
    BY DEF LoopStored
  <1>5. stop' \in [Requests -> Stops]
    BY <1>1, <1>4
  <1>6. proc' = proc \/ proc' = [proc EXCEPT ![c] = IF @ = "up" THEN "dying" ELSE @]
    BY DEF LoopStored, SelfDestruct
  <1>7. proc' \in [Captures -> Procs]
    BY <1>1, <1>6
  <1> QED BY <1>2, <1>3, <1>5, <1>7 DEF LoopStored, TypeOK, requestVars, history

\* The steps of a process keep the types.
LEMMA ProcessTyped ==
  ASSUME TypeOK, NEW c \in Captures, NEW l \in Loops,
         SetupStep(c) \/ EndStep(c) \/ StartTick(c) \/ LoopStep(c, l)
  PROVE  TypeOK'
  <1> USE DEF TypeOK, Row, Needs, Started, storageVars, requestVars, stopVars,
              history, Enters, SetRow, SelfDestruct, Store
  <1>1. CASE Validate(c)
    <2>1. CASE row[c] \in {"STARTED", "SCHEDULED"}
      BY <1>1, <2>1 DEF Validate
    <2>2. CASE row[c] \notin {"STARTED", "SCHEDULED"}
      BY <1>1, <2>2, ZenonT(40) DEF Validate
    <2> QED BY <2>1, <2>2
  <1>2. CASE IpcStarted(c) BY <1>2 DEF IpcStarted
  <1>3. CASE WriteStarting(c) BY <1>3 DEF WriteStarting
  <1>4. CASE TurnOn(c) BY <1>4 DEF TurnOn
  <1>5. CASE WriteRunning(c) BY <1>5 DEF WriteRunning
  <1>6. CASE SetStartTime(c) BY <1>6 DEF SetStartTime
  <1>7. CASE SetupFails(c) BY <1>7, SMTT(30) DEF SetupFails
  <1>8. CASE WriteFailed(c) BY <1>8 DEF WriteFailed
  <1>9. CASE Exit(c) BY <1>9 DEF Exit
  <1>10. CASE StartTick(c) BY <1>10 DEF StartTick, Loops
  <1>11. CASE LoopStored(c, l) BY <1>11, LoopStoredTyped
  <1>12. CASE LoopFails(c, l) BY <1>12 DEF LoopFails
  <1>13. CASE MetricsSent(c, l) BY <1>13 DEF MetricsSent
  <1> QED BY <1>1, <1>2, <1>3, <1>4, <1>5, <1>6, <1>7, <1>8, <1>9, <1>10,
             <1>11, <1>12, <1>13 DEF SetupStep, EndStep, LoopStep

\* Stopping a capture keeps the types.
LEMMA StopTyped ==
  ASSUME TypeOK, NEW r \in Requests, Deliver(r) \/ NoteStep(r) \/ StopStep(r)
  PROVE  TypeOK'
  <1> USE DEF TypeOK, Row, Needs, Started, storageVars, requestVars, stopVars,
              history, SetRow, SelfDestruct
  <1>1. CASE Deliver(r)
    <2>1. r \in Loops BY DEF Loops
    <2>2. \/ /\ loop' = [loop EXCEPT ![target[r]][r] = "query"]
             /\ stop' = [stop EXCEPT ![r] = "loop"]
          \/ loop' = loop /\ stop' = [stop EXCEPT ![r] = "failed"]
      BY <1>1 DEF Deliver
    <2>3. CASE loop' = loop /\ stop' = [stop EXCEPT ![r] = "failed"]
      BY <1>1, <2>3 DEF Deliver
    <2>4. CASE /\ loop' = [loop EXCEPT ![target[r]][r] = "query"]
               /\ stop' = [stop EXCEPT ![r] = "loop"]
      <3>1. loop' \in [Captures -> [Loops -> {"idle", "query", "metrics"}]]
        BY <2>1, <2>4
      <3> QED BY <1>1, <2>4, <3>1 DEF Deliver
    <2> QED BY <2>2, <2>3, <2>4
  <1>2. CASE WriteStopping(r) BY <1>2 DEF WriteStopping
  <1>3. CASE Reply(r) BY <1>3 DEF Reply
  <1>4. CASE NoteFails(r) BY <1>4 DEF NoteFails
  <1>5. CASE Decide(r) BY <1>5 DEF Decide
  <1>6. CASE TurnOff(r) BY <1>6 DEF TurnOff
  <1>7. CASE TeardownFails(r) BY <1>7 DEF TeardownFails
  <1>8. CASE BuildWorkload(r) BY <1>8 DEF BuildWorkload
  <1>9. CASE BuildMetrics(r) BY <1>9 DEF BuildMetrics
  <1>10. CASE WriteDone(r) BY <1>10 DEF WriteDone
  <1>11. CASE TimerFails(r) BY <1>11 DEF TimerFails
  <1> QED BY <1>1, <1>2, <1>3, <1>4, <1>5, <1>6, <1>7, <1>8, <1>9, <1>10,
             <1>11 DEF NoteStep, StopStep

\* Every reachable state is well typed.
THEOREM Typing == Spec => []TypeOK
  <1>1. TypeOK /\ [Next]_vars => TypeOK'
    <2> SUFFICES ASSUME TypeOK, [Next]_vars PROVE TypeOK'
      OBVIOUS
    <2>1. CASE UNCHANGED vars
      BY <2>1 DEF vars, storageVars, requestVars, stopVars, history, TypeOK
    <2>2. ASSUME NEW c \in Captures,
                 Post(c) \/ Launch(c) \/ SetupStep(c) \/ EndStep(c) \/ StartTick(c)
          PROVE  TypeOK'
      <3>1. "tick" \in Loops BY DEF Loops
      <3>2. CASE Post(c) BY <3>2, CreateTyped
      <3>3. CASE Launch(c) BY <3>3, CreateTyped
      <3> QED BY <2>2, <3>1, <3>2, <3>3, ProcessTyped
    <2>3. ASSUME NEW c \in Captures, NEW l \in Loops, LoopStep(c, l)
          PROVE  TypeOK'
      BY <2>3, ProcessTyped
    <2>4. ASSUME NEW c \in Captures, NEW r \in Requests,
                 UserStop(r, c) \/ TimedStop(r, c) \/ Delete(r, c)
          PROVE  TypeOK'
      BY <2>4, RequestTyped
    <2>5. ASSUME NEW r \in Requests,
                 Deliver(r) \/ NoteStep(r) \/ StopStep(r) \/ ServiceStep(r)
          PROVE  TypeOK'
      BY <2>5, StopTyped, ServiceTyped
    <2> QED BY <2>1, <2>2, <2>3, <2>4, <2>5 DEF Next
  <1> QED BY <1>1, InitTyped, PTL DEF Spec

-----------------------------------------------------------------------------
(* The inductive invariant                                                  *)

\* Where setup is once the RUNNING update has been sent, and before it.
Acked   == {"ack", "failed"} \cup Started
Unacked == {"ipcStart", "starting", "loggingOn", "running"}

\* A request that reached onStop was begun by the service, and it is about one
\* capture from then on.
StopsBegun ==
  \A r \in Requests :
    /\ svc[r] \in {"idle", "checked", "delSend"} => msg[r] = "none"
    /\ msg[r] # "got" => stop[r] = "idle"
    /\ svc[r] # "idle" => target[r] \in Captures
    /\ note[r] = "stopping" => stop[r] # "idle"
    /\ svc[r] = "markFailed" => r \in UserStops

\* An extra loop runs on behalf of a request to stop this very capture.
LoopsOwned ==
  \A c \in Captures : \A r \in Requests :
    loop[c][r] # "idle" => target[r] = c /\ stop[r] # "idle"

\* What a process has done by the time its setup is at some await.
SetupOrder ==
  \A c \in Captures :
    /\ row[c] = "absent" => proc[c] = "none" /\ setup[c] = "valid"
    /\ logging[c] => setup[c] \in Acked \cup {"running"}
    /\ row[c] = "RUNNING" => setup[c] \in Acked
    /\ ipc[c] => setup[c] \notin {"valid", "ipcStart"}
    /\ proc[c] = "dying" => setup[c] \in {"failed", "ready"} \/ IsDone(c)

\* A stop request of a user was begun when the row said RUNNING.
StopsAfterSetup ==
  \A r \in UserStops : svc[r] # "idle" => setup[target[r]] \in Acked

\* Whoever turns logging on is in the table as in progress.
SetupVisible ==
  \A c \in Captures :
    setup[c] \in {"loggingOn", "running"} /\ ~IsDone(c) => row[c] \in Needs \cup {"deleted"}

\* Whoever is about to turn the log off has missed only the captures in late.
LateComplete ==
  \A r \in Requests : stop[r] = "turnOff" =>
    \A c \in Captures : row[c] \in Needs => c \in late[r]

\* The log is on for every capture that logs and is in progress, but for those
\* whose log was turned off in the window.
LogKept ==
  \A c \in Captures :
    logging[c] /\ row[c] \in Needs /\ c \notin exposed => generalLog \/ IsDone(c)

\* The ipc node is stopped before a capture is finished, and for good.
FinishClosesIpc ==
  \A r \in Requests :
    /\ stop[r] # "idle" => setup[target[r]] \notin {"valid", "ipcStart"}
    /\ stop[r] \in {"done", "over"} => ~ipc[target[r]]

IInv ==
  /\ StopsBegun /\ LoopsOwned /\ SetupOrder /\ StopsAfterSetup /\ SetupVisible
  /\ LateComplete /\ LogKept /\ FinishClosesIpc /\ OneFinish

-----------------------------------------------------------------------------
(* Every action preserves it. An action that touches few of its parts needs *)
(* one step; for the others the parts at stake are steps of their own.      *)

\* The invariant holds when nothing has happened yet.
LEMMA InitIInv == Init => IInv
  <1> SUFFICES ASSUME Init PROVE IInv
    OBVIOUS
  <1>1. \A c \in Captures : row[c] = "absent" /\ proc[c] = "none" /\ setup[c] = "valid"
                           /\ ~logging[c] /\ ~ipc[c]
    BY DEF Init
  <1>2. \A r \in Requests : svc[r] = "idle" /\ msg[r] = "none" /\ note[r] = "idle"
                           /\ stop[r] = "idle"
    BY DEF Init
  <1>3. \A c \in Captures, r \in Requests : loop[c][r] = "idle"
    BY DEF Init, Loops
  <1>4. StopsBegun /\ LoopsOwned /\ LateComplete /\ FinishClosesIpc /\ OneFinish
    BY <1>2, <1>3 DEF StopsBegun, LoopsOwned, LateComplete, FinishClosesIpc, OneFinish
  <1>5. SetupOrder /\ SetupVisible /\ LogKept
    BY <1>1 DEF SetupOrder, SetupVisible, LogKept
  <1>6. StopsAfterSetup
    BY <1>2 DEF StopsAfterSetup, Requests
  <1> QED BY <1>4, <1>5, <1>6 DEF IInv

\* Creating and launching: the row appears before the process does anything.
LEMMA CreateIInv ==
  ASSUME TypeOK, IInv, NEW c \in Captures, Post(c) \/ Launch(c)
  PROVE  IInv'
  <1> USE RequestsDisjoint
      DEF IInv, StopsBegun, LoopsOwned, SetupOrder, StopsAfterSetup,
      SetupVisible, LateComplete, LogKept, FinishClosesIpc, OneFinish,
      TypeOK, Row, Needs, Started, Acked, Requests, Loops, IsDone,
      storageVars, requestVars, stopVars, history
  <1>1. CASE Post(c)
    <2>1. setup[c] = "valid" /\ ~logging[c]
      BY <1>1 DEF Post
    <2>2. \A d \in Captures : d # c => row'[d] = row[d]
      BY <1>1 DEF Post
    <2>3. SetupVisible'
      <3>1. setup' = setup /\ target' = target /\ stop' = stop
        BY <1>1 DEF Post
      <3> SUFFICES ASSUME NEW d \in Captures,
                          setup'[d] \in {"loggingOn", "running"} /\ ~IsDone(d)'
                   PROVE  row'[d] \in Needs \cup {"deleted"}
        OBVIOUS
      <3>2. d # c
        BY <2>1, <3>1
      <3>3. row[d] \in Needs \cup {"deleted"}
        BY <3>1
      <3> QED BY <2>2, <3>2, <3>3
    <2>5. LogKept'
      <3>1. UNCHANGED <<logging, generalLog, target, stop, exposed>>
        BY <1>1 DEF Post
      <3> SUFFICES ASSUME NEW d \in Captures,
                          logging'[d] /\ row'[d] \in Needs /\ d \notin exposed'
                   PROVE  generalLog' \/ IsDone(d)'
        OBVIOUS
      <3>2. d # c /\ logging[d] /\ row[d] \in Needs /\ d \notin exposed
        BY <2>1, <2>2, <3>1
      <3>3. generalLog \/ IsDone(d)
        BY <3>2
      <3> QED BY <3>1, <3>3
    <2>4. LateComplete'
      BY <1>1, SMTT(60) DEF Post, Enters
    <2> QED BY <1>1, <2>3, <2>4, <2>5, SMTT(60) DEF Post
  <1>2. CASE Launch(c) BY <1>2, SMTT(60) DEF Launch
  <1> QED BY <1>1, <1>2

\* Setup: STARTING is written before the log is turned on, RUNNING after.
LEMMA SetupIInv ==
  ASSUME TypeOK, IInv, NEW c \in Captures, SetupStep(c)
  PROVE  IInv'
  <1> USE RequestsDisjoint
      DEF IInv, StopsBegun, LoopsOwned, SetupOrder, StopsAfterSetup,
      SetupVisible, LateComplete, LogKept, FinishClosesIpc, OneFinish,
      TypeOK, Row, Needs, Started, Acked, Requests, Loops, IsDone,
      storageVars, requestVars, stopVars, history
  <1>1. CASE Validate(c)
    <2>1. CASE row[c] \in {"STARTED", "SCHEDULED"}
      <3>1. setup[c] = "valid" /\ setup' = [setup EXCEPT ![c] = "ipcStart"]
        BY <1>1, <2>1 DEF Validate
      <3>2. UNCHANGED <<row, generalLog, proc, logging, ipc, loop, target, svc, msg,
                        note, stop, late, exposed>>
        BY <1>1, <2>1 DEF Validate
      <3>3. SetupOrder'
        BY <2>1, <3>1, <3>2
      <3>4. SetupVisible' /\ StopsAfterSetup' /\ FinishClosesIpc'
        BY <3>1, <3>2
      <3> QED BY <3>2, <3>3, <3>4
    <2>2. CASE row[c] \notin {"STARTED", "SCHEDULED"}
      <3>1. proc[c] # "none" /\ proc' = [proc EXCEPT ![c] = "gone"]
        BY <1>1, <2>2 DEF Validate, Alive
      <3>2. UNCHANGED <<row, generalLog, setup, logging, ipc, loop, target, svc, msg,
                        note, stop, late, exposed>>
        BY <1>1, <2>2 DEF Validate
      <3>3. SetupOrder'
        BY <3>1, <3>2
      <3> QED BY <3>2, <3>3
    <2> QED BY <2>1, <2>2
  <1>2. CASE IpcStarted(c) BY <1>2, SMTT(60) DEF IpcStarted
  <1>3. CASE WriteStarting(c) BY <1>3, SMTT(60) DEF WriteStarting, SetRow, Enters
  <1>4. CASE TurnOn(c) BY <1>4, SMTT(60) DEF TurnOn
  <1>5. CASE WriteRunning(c) BY <1>5, SMTT(60) DEF WriteRunning, SetRow, Enters
  <1>6. CASE SetStartTime(c) BY <1>6, SMTT(60) DEF SetStartTime
  <1>7. CASE SetupFails(c) BY <1>7, SMTT(60) DEF SetupFails, SelfDestruct
  <1> QED BY <1>1, <1>2, <1>3, <1>4, <1>5, <1>6, <1>7 DEF SetupStep

\* Failing and exiting: a dying process is past its setup or is being stopped.
LEMMA EndIInv ==
  ASSUME TypeOK, IInv, NEW c \in Captures, EndStep(c)
  PROVE  IInv'
  <1> USE RequestsDisjoint
      DEF IInv, StopsBegun, LoopsOwned, SetupOrder, StopsAfterSetup,
      SetupVisible, LateComplete, LogKept, FinishClosesIpc, OneFinish,
      TypeOK, Row, Needs, Started, Acked, Requests, Loops, IsDone,
      storageVars, requestVars, stopVars, history
  <1>1. CASE WriteFailed(c)
    <2>1. \A d \in Captures : row'[d] = row[d] \/ (d = c /\ row'[d] = "FAILED" /\ row[d] # "absent")
      BY <1>1 DEF WriteFailed, SetRow
    <2>2. UNCHANGED <<generalLog, setup, logging, ipc, loop, target, svc, msg, note, stop,
                      late, exposed>>
      BY <1>1 DEF WriteFailed
    <2>3. proc'[c] = "exiting" /\ proc[c] = "dying" /\ \A d \in Captures : d # c => proc'[d] = proc[d]
      BY <1>1 DEF WriteFailed
    <2>4. SetupOrder'
      BY <2>1, <2>2, <2>3
    <2>5. SetupVisible'
      <3>1. setup[c] \in {"failed", "ready"} \/ IsDone(c)
        BY <2>3
      <3>2. \A d \in Captures : IsDone(d)' <=> IsDone(d)
        BY <2>2
      <3> SUFFICES ASSUME NEW d \in Captures, setup'[d] \in {"loggingOn", "running"}, ~IsDone(d)'
                   PROVE  row'[d] \in Needs \cup {"deleted"}
        OBVIOUS
      <3>3. d # c /\ row[d] \in Needs \cup {"deleted"}
        BY <2>2, <3>1, <3>2
      <3> QED BY <2>1, <3>3
    <2>6. LateComplete' /\ LogKept'
      BY <2>1, <2>2
    <2> QED BY <2>2, <2>4, <2>5, <2>6
  <1>2. CASE Exit(c)
    <2>1. SetupOrder'
      <3>1. proc[c] # "none" /\ proc'[c] = "gone" /\ ~ipc'[c] /\ ~logging'[c]
        BY <1>2 DEF Exit, Alive
      <3>2. \A d \in Captures \ {c} :
              proc'[d] = proc[d] /\ ipc'[d] = ipc[d] /\ logging'[d] = logging[d]
        BY <1>2 DEF Exit
      <3>3. row' = row /\ setup' = setup /\ target' = target /\ stop' = stop
        BY <1>2 DEF Exit
      <3> QED BY <3>1, <3>2, <3>3
    <2> QED BY <1>2, <2>1, SMTT(60) DEF Exit
  <1> QED BY <1>1, <1>2 DEF EndStep

\* The loops: an extra loop hands over to its own request's teardown only.
LEMMA LoopIInv ==
  ASSUME TypeOK, IInv, NEW c \in Captures,
         StartTick(c) \/ \E l \in Loops : LoopStep(c, l)
  PROVE  IInv'
  <1> USE RequestsDisjoint
      DEF IInv, StopsBegun, LoopsOwned, SetupOrder, StopsAfterSetup,
      SetupVisible, LateComplete, LogKept, FinishClosesIpc, OneFinish,
      TypeOK, Row, Needs, Started, Acked, Requests, Loops, IsDone,
      storageVars, requestVars, stopVars, history
  <1>1. CASE StartTick(c) BY <1>1, SMTT(60) DEF StartTick
  <1>2. ASSUME NEW l \in Loops, LoopStored(c, l)
        PROVE  IInv'
    <2>1. CASE l \notin Requests
      BY <1>2, <2>1, SMTT(60) DEF LoopStored, Store
    <2>2. CASE l \in Requests
      <3>1. target[l] = c /\ stop[l] # "idle"
        BY <1>2, <2>2 DEF LoopStored
      <3>2. \/ stop' = [stop EXCEPT ![l] = "decide"] /\ proc' = proc
            \/ stop' = [stop EXCEPT ![l] = "failed"] /\ SelfDestruct(c)
        BY <1>2, <2>2 DEF LoopStored
      <3>3. UNCHANGED <<row, setup, ipc, target, late>>
        BY <1>2 DEF LoopStored
      <3>4. \A q \in Requests :
              stop'[q] \in {"turnOff", "done", "over"} => stop'[q] = stop[q]
        BY <3>2
      <3>5. FinishClosesIpc'
        <4> SUFFICES ASSUME NEW q \in Requests
                     PROVE  /\ stop'[q] # "idle" => setup[target[q]] \notin {"valid", "ipcStart"}
                            /\ stop'[q] \in {"done", "over"} => ~ipc[target[q]]
          BY <3>3
        <4>1. q = l \/ stop'[q] = stop[q]
          BY <3>2
        <4> QED BY <3>1, <3>4, <4>1
      <3>6. OneFinish'
        <4> SUFFICES ASSUME NEW q \in Requests, NEW r \in Requests, target[q] = target[r],
                            stop'[q] \in {"done", "over"}, stop'[r] \in {"done", "over"}
                     PROVE  q = r
          BY <3>3
        <4> QED BY <3>4
      <3>7. LateComplete'
        BY <3>3, <3>4
      <3>8. StopsBegun' /\ LoopsOwned' /\ StopsAfterSetup'
        BY <1>2, <2>2, <3>1, <3>2 DEF LoopStored
      <3>9. IsDone(c)' /\ \A d \in Captures : IsDone(d) => IsDone(d)'
        BY <1>2, <2>2, <3>1, <3>2 DEF LoopStored
      <3>10. SetupOrder' /\ SetupVisible' /\ LogKept'
        BY <1>2, <2>2, <3>2, <3>9 DEF LoopStored, SelfDestruct
      <3> QED BY <3>5, <3>6, <3>7, <3>8, <3>10
    <2> QED BY <2>1, <2>2
  <1>3. ASSUME NEW l \in Loops, LoopFails(c, l)
        PROVE  IInv'
    BY <1>3, SMTT(60) DEF LoopFails
  <1>4. ASSUME NEW l \in Loops, MetricsSent(c, l)
        PROVE  IInv'
    BY <1>4, SMTT(60) DEF MetricsSent
  <1> QED BY <1>1, <1>2, <1>3, <1>4 DEF LoopStep

\* Beginning a request: the users' stops begin when the row says RUNNING.
LEMMA RequestIInv ==
  ASSUME TypeOK, IInv, NEW c \in Captures, NEW r \in Requests,
         UserStop(r, c) \/ TimedStop(r, c) \/ Delete(r, c)
  PROVE  IInv'
  <1> USE RequestsDisjoint
      DEF IInv, StopsBegun, LoopsOwned, SetupOrder, StopsAfterSetup,
      SetupVisible, LateComplete, LogKept, FinishClosesIpc, OneFinish,
      TypeOK, Row, Needs, Started, Acked, Requests, Loops, IsDone,
      storageVars, requestVars, stopVars, history, Begin
  <1>1. CASE UserStop(r, c) BY <1>1, SMTT(60) DEF UserStop
  <1>2. CASE TimedStop(r, c) BY <1>2, SMTT(60) DEF TimedStop
  <1>3. CASE Delete(r, c) BY <1>3, SMTT(60) DEF Delete
  <1> QED BY <1>1, <1>2, <1>3

\* A stop message arrives and is answered.
LEMMA NoteIInv ==
  ASSUME TypeOK, IInv, NEW r \in Requests, Deliver(r) \/ NoteStep(r)
  PROVE  IInv'
  <1> USE RequestsDisjoint
      DEF IInv, StopsBegun, LoopsOwned, SetupOrder, StopsAfterSetup,
      SetupVisible, LateComplete, LogKept, FinishClosesIpc, OneFinish,
      TypeOK, Row, Needs, Started, Acked, Requests, Loops, IsDone,
      storageVars, requestVars, stopVars, history
  <1>1. CASE Deliver(r)
    <2>1. stop[r] = "idle" /\ target[r] \in Captures /\ r \in Loops
      BY <1>1 DEF Deliver
    <2>2. stop' = [stop EXCEPT ![r] = "loop"] \/ stop' = [stop EXCEPT ![r] = "failed"]
      BY <1>1 DEF Deliver
    <2>3. LoopsOwned'
      <3>1. \A d \in Captures : \A q \in Requests :
              (d # target[r] \/ q # r) => loop'[d][q] = loop[d][q]
        BY <1>1, <2>1 DEF Deliver
      <3>2. stop'[r] # "idle" /\ \A q \in Requests : stop[q] # "idle" => stop'[q] # "idle"
        BY <2>2
      <3>3. target' = target
        BY <1>1 DEF Deliver
      <3> SUFFICES ASSUME NEW d \in Captures, NEW q \in Requests, loop'[d][q] # "idle"
                   PROVE  target[q] = d /\ stop'[q] # "idle"
        BY <3>3
      <3>4. CASE d = target[r] /\ q = r BY <3>2, <3>4
      <3>5. CASE d # target[r] \/ q # r
        <4>1. loop[d][q] # "idle" BY <3>1, <3>5
        <4> QED BY <3>2, <4>1
      <3> QED BY <3>4, <3>5
    <2>4. LateComplete'
      <3>1. \A q \in Requests : stop'[q] = "turnOff" => stop[q] = "turnOff"
        BY <2>2
      <3>2. UNCHANGED <<row, late>>
        BY <1>1 DEF Deliver
      <3> QED BY <3>1, <3>2
    <2>5. StopsBegun' /\ StopsAfterSetup'
      BY <1>1, <2>1, <2>2 DEF Deliver
    <2>8. FinishClosesIpc' /\ OneFinish'
      <3>1. UNCHANGED <<setup, ipc, target>> /\ ipc[target[r]]
        BY <1>1 DEF Deliver
      <3>2. setup[target[r]] \notin {"valid", "ipcStart"}
        BY <2>1, <3>1
      <3>3. \A q \in Requests : q # r => stop'[q] = stop[q]
        BY <2>2
      <3>4. stop'[r] \in {"loop", "failed"}
        BY <2>2
      <3>5. FinishClosesIpc'
        <4> SUFFICES ASSUME NEW q \in Requests
                     PROVE  /\ stop'[q] # "idle" => setup[target[q]] \notin {"valid", "ipcStart"}
                            /\ stop'[q] \in {"done", "over"} => ~ipc[target[q]]
          BY <3>1
        <4>1. CASE q = r BY <4>1, <3>2, <3>4
        <4>2. CASE q # r BY <4>2, <3>3
        <4> QED BY <4>1, <4>2
      <3>6. OneFinish'
        BY <3>1, <3>3, <3>4
      <3> QED BY <3>5, <3>6
    <2>6. \A d \in Captures : IsDone(d) => IsDone(d)'
      BY <1>1, <2>1, <2>2 DEF Deliver
    <2>7. SetupOrder' /\ SetupVisible' /\ LogKept'
      BY <1>1, <2>6 DEF Deliver
    <2> QED BY <2>3, <2>4, <2>5, <2>7, <2>8
  <1>2. CASE WriteStopping(r) BY <1>2, SMTT(60) DEF WriteStopping, SetRow
  <1>3. CASE Reply(r) BY <1>3, SMTT(60) DEF Reply
  <1>4. CASE NoteFails(r) BY <1>4, SMTT(60) DEF NoteFails
  <1> QED BY <1>1, <1>2, <1>3, <1>4 DEF NoteStep

\* Teardown: the look at the rows, the log turned off, the final files, DONE.
LEMMA StopIInv ==
  ASSUME TypeOK, IInv, NEW r \in Requests, StopStep(r)
  PROVE  IInv'
  <1> USE RequestsDisjoint
      DEF IInv, StopsBegun, LoopsOwned, SetupOrder, StopsAfterSetup,
      SetupVisible, LateComplete, LogKept, FinishClosesIpc, OneFinish,
      TypeOK, Row, Needs, Started, Acked, Requests, Loops, IsDone,
      storageVars, requestVars, stopVars, history
  <1>1. CASE Decide(r)
    <2>1. CASE RunningCaptures = {}
      BY <1>1, <2>1, SMTT(60) DEF Decide, RunningCaptures
    <2>2. CASE RunningCaptures # {}
      BY <1>1, <2>2, SMTT(60) DEF Decide
    <2> QED BY <2>1, <2>2
  <1>2. CASE TurnOff(r) BY <1>2, SMTT(60) DEF TurnOff
  <1>3. CASE TeardownFails(r) BY <1>3, SMTT(60) DEF TeardownFails, SelfDestruct
  <1>4. CASE BuildWorkload(r) BY <1>4, SMTT(60) DEF BuildWorkload
  <1>5. CASE BuildMetrics(r) BY <1>5, SMTT(60) DEF BuildMetrics
  <1>6. CASE WriteDone(r) BY <1>6, SMTT(60) DEF WriteDone, SetRow
  <1>7. CASE TimerFails(r) BY <1>7, SMTT(60) DEF TimerFails
  <1> QED BY <1>1, <1>2, <1>3, <1>4, <1>5, <1>6, <1>7 DEF StopStep

\* The service waits for its answer, gives up, marks the row or deletes it.
LEMMA ServiceIInv ==
  ASSUME TypeOK, IInv, NEW r \in Requests, ServiceStep(r)
  PROVE  IInv'
  <1> USE RequestsDisjoint
      DEF IInv, StopsBegun, LoopsOwned, SetupOrder, StopsAfterSetup,
      SetupVisible, LateComplete, LogKept, FinishClosesIpc, OneFinish,
      TypeOK, Row, Needs, Started, Acked, Requests, Loops, IsDone,
      storageVars, requestVars, stopVars, history
  <1>1. CASE Send(r)
    <2>1. \/ msg' = [msg EXCEPT ![r] = "sent"]
          \/ msg' = [msg EXCEPT ![r] = "lost"]
      BY <1>1 DEF Send
    <2>2. svc' = [svc EXCEPT ![r] = "waiting"] \/ svc' = [svc EXCEPT ![r] = "delRow"]
      BY <1>1 DEF Send
    <2>3. msg[r] # "got"
      BY <1>1 DEF Send
    <2> QED BY <1>1, <2>1, <2>2, <2>3, SMTT(60) DEF Send
  <1>2. CASE Answered(r) BY <1>2, SMTT(60) DEF Answered
  <1>3. CASE Timeout(r) BY <1>3, SMTT(60) DEF Timeout
  <1>4. CASE MarkFailed(r)
    <2>1. target[r] \in Captures /\ setup[target[r]] \in Acked
      BY <1>4 DEF MarkFailed
    <2>2. row' = row \/ row' = [row EXCEPT ![target[r]] = "FAILED"]
      BY <1>4 DEF MarkFailed, SetRow
    <2>3. UNCHANGED <<generalLog, proc, setup, logging, ipc, loop, target, msg, note,
                      stop, late, exposed>>
      BY <1>4 DEF MarkFailed
    <2>4. StopsBegun' /\ StopsAfterSetup'
      BY <1>4, <2>3 DEF MarkFailed
    <2>5. SetupOrder' /\ SetupVisible' /\ LateComplete' /\ LogKept'
      <3> SUFFICES ASSUME row' = [row EXCEPT ![target[r]] = "FAILED"]
                   PROVE  SetupOrder' /\ SetupVisible' /\ LateComplete' /\ LogKept'
        BY <2>2, <2>3
      <3>1. \A d \in Captures : row'[d] # row[d] => d = target[r] /\ row'[d] = "FAILED"
        OBVIOUS
      <3>2. SetupOrder' /\ SetupVisible'
        BY <2>1, <2>3, <3>1
      <3>3. LateComplete' /\ LogKept'
        BY <2>3, <3>1
      <3> QED BY <3>2, <3>3
    <2> QED BY <2>3, <2>4, <2>5
  <1>5. CASE DeleteRow(r) BY <1>5, SMTT(60) DEF DeleteRow
  <1> QED BY <1>1, <1>2, <1>3, <1>4, <1>5 DEF ServiceStep

\* Every step preserves the invariant.
LEMMA NextIInv == TypeOK /\ IInv /\ [Next]_vars => IInv'
  <1> SUFFICES ASSUME TypeOK, IInv, [Next]_vars PROVE IInv'
    OBVIOUS
  <1>1. CASE UNCHANGED vars
    BY <1>1 DEF vars, storageVars, requestVars, stopVars, history, IInv,
         StopsBegun, LoopsOwned, SetupOrder, StopsAfterSetup,
          SetupVisible, LateComplete, LogKept, FinishClosesIpc, OneFinish, IsDone
  <1>2. ASSUME NEW c \in Captures,
               \/ Post(c) \/ Launch(c) \/ SetupStep(c) \/ EndStep(c) \/ StartTick(c)
               \/ \E l \in Loops : LoopStep(c, l)
        PROVE  IInv'
    BY <1>2, CreateIInv, SetupIInv, EndIInv, LoopIInv
  <1>3. ASSUME NEW c \in Captures, NEW r \in Requests,
               UserStop(r, c) \/ TimedStop(r, c) \/ Delete(r, c)
        PROVE  IInv'
    BY <1>3, RequestIInv
  <1>4. ASSUME NEW r \in Requests,
               Deliver(r) \/ NoteStep(r) \/ StopStep(r) \/ ServiceStep(r)
        PROVE  IInv'
    BY <1>4, NoteIInv, StopIInv, ServiceIInv
  <1> QED BY <1>1, <1>2, <1>3, <1>4 DEF Next

\* The invariant holds throughout.
LEMMA Invariance == Spec => []IInv
  BY Typing, InitIInv, NextIInv, PTL DEF Spec

-----------------------------------------------------------------------------
(* The theorems                                                             *)

\* The general log is off under a RUNNING capture only if somebody turned it off
\* between his look at the rows and the capture's row.
THEOREM LogLost == Spec => []LogLostOnlyInWindow
  <1>1. IInv => LogLostOnlyInWindow
    BY DEF IInv, LogKept, LogLostOnlyInWindow, Needs
  <1> QED BY <1>1, Invariance, PTL

\* At most one request finishes a capture, whatever fails.
THEOREM FinishedOnce == Spec => []OneFinish
  <1>1. IInv => OneFinish
    BY DEF IInv
  <1> QED BY <1>1, Invariance, PTL

-----------------------------------------------------------------------------
(* A capture is not reopened                                                *)

RowStep(c) == Post(c) \/ WriteStarting(c) \/ WriteRunning(c) \/ WriteFailed(c)
RowWrite(r) == WriteStopping(r) \/ WriteDone(r) \/ MarkFailed(r) \/ DeleteRow(r)

\* The steps that write a status are these.
LEMMA RowSteps ==
  ASSUME Next
  PROVE  row' = row \/ (\E c \in Captures : RowStep(c)) \/ (\E r \in Requests : RowWrite(r))
  <1>1. ASSUME NEW c \in Captures,
               \/ Post(c) \/ Launch(c) \/ SetupStep(c) \/ EndStep(c) \/ StartTick(c)
               \/ \E l \in Loops : LoopStep(c, l)
               \/ \E r \in Requests : UserStop(r, c) \/ TimedStop(r, c) \/ Delete(r, c)
        PROVE  row' = row \/ RowStep(c)
    BY <1>1 DEF RowStep, Launch, SetupStep, Validate, IpcStarted, TurnOn, SetStartTime,
         SetupFails, EndStep, Exit, StartTick, LoopStep, LoopStored, LoopFails,
         MetricsSent, UserStop, TimedStop, Delete, Begin
  <1>2. ASSUME NEW r \in Requests,
               Deliver(r) \/ NoteStep(r) \/ StopStep(r) \/ ServiceStep(r)
        PROVE  row' = row \/ RowWrite(r)
    BY <1>2 DEF RowWrite, Deliver, NoteStep, Reply, NoteFails, StopStep, Decide, TurnOff,
         TeardownFails, BuildWorkload, BuildMetrics, TimerFails, ServiceStep, Send,
         Answered, Timeout
  <1> QED BY <1>1, <1>2 DEF Next

\* Only setup's own steps move setup.
LEMMA SetupMoves ==
  ASSUME Next
  PROVE  setup' = setup \/ \E c \in Captures : SetupStep(c)
  <1>1. ASSUME NEW c \in Captures,
               \/ Post(c) \/ Launch(c) \/ EndStep(c) \/ StartTick(c)
               \/ \E l \in Loops : LoopStep(c, l)
               \/ \E r \in Requests : UserStop(r, c) \/ TimedStop(r, c) \/ Delete(r, c)
        PROVE  setup' = setup
    BY <1>1 DEF Post, Launch, EndStep, WriteFailed, Exit, StartTick, LoopStep, LoopStored,
         LoopFails, MetricsSent, UserStop, TimedStop, Delete, Begin
  <1>2. ASSUME NEW r \in Requests,
               Deliver(r) \/ NoteStep(r) \/ StopStep(r) \/ ServiceStep(r)
        PROVE  setup' = setup
    BY <1>2 DEF Deliver, NoteStep, WriteStopping, Reply, NoteFails, StopStep, Decide,
         TurnOff, TeardownFails, BuildWorkload, BuildMetrics, WriteDone, TimerFails,
         ServiceStep, Send, Answered, Timeout, MarkFailed, DeleteRow
  <1> QED BY <1>1, <1>2 DEF Next

\* Setup does not go back.
LEMMA AckedStays ==
  ASSUME TypeOK, [Next]_vars, NEW c \in Captures
  PROVE  /\ setup[c] \in Acked => setup'[c] \in Acked
         /\ setup[c] \in Started => setup'[c] \in Started
  <1>1. CASE setup' = setup BY <1>1
  <1>2. ASSUME NEW d \in Captures, SetupStep(d)
        PROVE  /\ setup[c] \in Acked => setup'[c] \in Acked
               /\ setup[c] \in Started => setup'[c] \in Started
    <2> USE DEF TypeOK, Acked, Started
    <2>1. CASE Validate(d) BY <2>1 DEF Validate
    <2>2. CASE IpcStarted(d) BY <2>2 DEF IpcStarted
    <2>3. CASE WriteStarting(d) BY <2>3 DEF WriteStarting
    <2>4. CASE TurnOn(d) BY <2>4 DEF TurnOn
    <2>5. CASE WriteRunning(d) BY <2>5 DEF WriteRunning
    <2>6. CASE SetStartTime(d) BY <2>6 DEF SetStartTime
    <2>7. CASE SetupFails(d) BY <2>7 DEF SetupFails
    <2> QED BY <1>2, <2>1, <2>2, <2>3, <2>4, <2>5, <2>6, <2>7 DEF SetupStep
  <1> QED BY <1>1, <1>2, SetupMoves DEF vars

\* Who is begun has not stopped anything yet.
LEMMA TargetKept ==
  ASSUME TypeOK, IInv, [Next]_vars, NEW r \in Requests, stop[r] # "idle"
  PROVE  target'[r] = target[r] /\ target[r] \in Captures
  <1>1. svc[r] # "idle" /\ target[r] \in Captures
    BY DEF IInv, StopsBegun, TypeOK
  <1>2. CASE target' = target BY <1>1, <1>2
  <1>3. CASE \E q \in Requests, c \in Captures : \E at : Begin(q, c, at)
    BY <1>1, <1>3 DEF Begin, TypeOK
  <1>4. ASSUME NEW c \in Captures,
               \/ Post(c) \/ Launch(c) \/ SetupStep(c) \/ EndStep(c) \/ StartTick(c)
               \/ \E l \in Loops : LoopStep(c, l)
        PROVE  target' = target
    BY <1>4 DEF Post, Launch, SetupStep, Validate, IpcStarted, WriteStarting, TurnOn, WriteRunning,
         SetStartTime, SetupFails, EndStep, WriteFailed, Exit, StartTick, LoopStep, LoopStored,
         LoopFails, MetricsSent, requestVars
  <1>5. ASSUME NEW q \in Requests, Deliver(q) \/ NoteStep(q) \/ StopStep(q) \/ ServiceStep(q)
        PROVE  target' = target
    BY <1>5 DEF Deliver, NoteStep, WriteStopping, Reply, NoteFails, StopStep, Decide, TurnOff,
         TeardownFails, BuildWorkload, BuildMetrics, WriteDone, TimerFails, requestVars,
         ServiceStep, Send, Answered, Timeout, MarkFailed, DeleteRow
  <1> QED BY <1>2, <1>3, <1>4, <1>5 DEF Next, vars, requestVars, UserStop, TimedStop, Delete

\* A stop begins when its message arrives.
LEMMA StopBegins ==
  ASSUME TypeOK, IInv, [Next]_vars, NEW r \in Requests, stop[r] = "idle", stop'[r] # "idle"
  PROVE  Deliver(r)
  <1>1. ASSUME NEW c \in Captures,
               \/ Post(c) \/ Launch(c) \/ SetupStep(c) \/ EndStep(c) \/ StartTick(c)
               \/ \E q \in Requests : UserStop(q, c) \/ TimedStop(q, c) \/ Delete(q, c)
        PROVE  stop' = stop
    BY <1>1 DEF Post, Launch, SetupStep, Validate, IpcStarted, WriteStarting, TurnOn, WriteRunning,
         SetStartTime, SetupFails, EndStep, WriteFailed, Exit, StartTick, UserStop, TimedStop, Delete,
         Begin, stopVars
  <1>2. ASSUME NEW c \in Captures, NEW l \in Loops, LoopStep(c, l)
        PROVE  stop'[r] = stop[r]
    <2>1. loop[c][l] # "idle" BY <1>2 DEF LoopStep, LoopStored, LoopFails, MetricsSent
    <2>2. l # r BY <2>1 DEF IInv, LoopsOwned
    <2>3. CASE LoopStored(c, l) BY <2>2, <2>3 DEF LoopStored, TypeOK
    <2>4. CASE LoopFails(c, l) BY <2>2, <2>4 DEF LoopFails, TypeOK
    <2>5. CASE MetricsSent(c, l) BY <2>5 DEF MetricsSent, stopVars
    <2> QED BY <1>2, <2>3, <2>4, <2>5 DEF LoopStep
  <1>3. ASSUME NEW q \in Requests, NoteStep(q) \/ ServiceStep(q) PROVE stop' = stop
    BY <1>3 DEF NoteStep, WriteStopping, Reply, NoteFails, ServiceStep, Send, Answered, Timeout,
         MarkFailed, DeleteRow, stopVars
  <1>4. ASSUME NEW q \in Requests, q # r, Deliver(q) \/ StopStep(q) PROVE stop'[r] = stop[r]
    BY <1>4 DEF Deliver, StopStep, Decide, TurnOff, TeardownFails, BuildWorkload, BuildMetrics, WriteDone,
         TimerFails, TypeOK
  <1>5. ~StopStep(r)
    BY DEF StopStep, Decide, TurnOff, TeardownFails, BuildWorkload, BuildMetrics, WriteDone, TimerFails
  <1> QED BY <1>1, <1>2, <1>3, <1>4, <1>5 DEF Next, vars, stopVars

\* Who starts, ends and kills a process.
LEMMA ProcSteps ==
  ASSUME [Next]_vars
  PROVE  \/ proc' = proc
         \/ \E c \in Captures :
              \/ Launch(c) \/ Validate(c) \/ SetupFails(c) \/ EndStep(c)
              \/ \E l \in Loops : LoopStored(c, l)
         \/ \E r \in Requests : TeardownFails(r)
  <1>1. ASSUME NEW c \in Captures,
               \/ Post(c) \/ Launch(c) \/ SetupStep(c) \/ EndStep(c) \/ StartTick(c)
               \/ \E l \in Loops : LoopStep(c, l)
               \/ \E r \in Requests : UserStop(r, c) \/ TimedStop(r, c) \/ Delete(r, c)
        PROVE  \/ proc' = proc
               \/ Launch(c) \/ Validate(c) \/ SetupFails(c) \/ EndStep(c)
               \/ \E l \in Loops : LoopStored(c, l)
    BY <1>1 DEF Post, SetupStep, IpcStarted, WriteStarting, TurnOn, WriteRunning,
         SetStartTime, StartTick, LoopStep, LoopFails,
         MetricsSent, UserStop, TimedStop, Delete, Begin
  <1>2. ASSUME NEW r \in Requests, Deliver(r) \/ NoteStep(r) \/ StopStep(r) \/ ServiceStep(r)
        PROVE  proc' = proc \/ TeardownFails(r)
    BY <1>2 DEF Deliver, NoteStep, WriteStopping, Reply, NoteFails, StopStep, Decide, TurnOff,
         BuildWorkload, BuildMetrics, WriteDone, TimerFails, ServiceStep, Send, Answered, Timeout,
         MarkFailed, DeleteRow
  <1> QED BY <1>1, <1>2 DEF Next, vars

\* A stop waits for its extra loop.
ExtraLoops ==
  \A c \in Captures, r \in Requests : loop[c][r] = "query" => stop[r] = "loop"

LEMMA ExtraLoopsKept ==
  ASSUME TypeOK, IInv, ExtraLoops, [Next]_vars
  PROVE  ExtraLoops'
  <1> SUFFICES ASSUME NEW c \in Captures, NEW r \in Requests, loop'[c][r] = "query"
               PROVE  stop'[r] = "loop"
    BY DEF ExtraLoops
  <1> r \in Loops /\ r # "tick" BY RequestsDisjoint DEF Loops
  <1>1. CASE loop' = loop /\ stop' = stop BY <1>1 DEF ExtraLoops
  <1>2. ASSUME NEW d \in Captures, Exit(d) \/ StartTick(d)
        PROVE  stop'[r] = "loop"
    <2>1. stop' = stop BY <1>2 DEF Exit, StartTick, stopVars
    <2>2. loop[c][r] = "query"
      <3>1. CASE Exit(d) BY <3>1 DEF Exit, TypeOK
      <3>2. CASE StartTick(d) BY <3>2 DEF StartTick, TypeOK
      <3> QED BY <1>2, <3>1, <3>2
    <2> QED BY <2>1, <2>2 DEF ExtraLoops
  <1>3. ASSUME NEW d \in Captures, NEW l \in Loops, LoopStep(d, l)
        PROVE  stop'[r] = "loop"
    <2>1. loop[c][r] = "query" /\ ~(d = c /\ l = r) /\ loop[d][l] # "idle"
      <3>1. CASE LoopStored(d, l) BY <3>1 DEF LoopStored, TypeOK
      <3>2. CASE LoopFails(d, l) BY <3>2 DEF LoopFails, TypeOK
      <3>3. CASE MetricsSent(d, l) BY <3>3 DEF MetricsSent, TypeOK
      <3> QED BY <1>3, <3>1, <3>2, <3>3 DEF LoopStep
    <2>2. l # r BY <2>1 DEF IInv, LoopsOwned
    <2>3. stop'[r] = stop[r]
      <3>1. CASE LoopStored(d, l) BY <2>2, <3>1 DEF LoopStored, TypeOK
      <3>2. CASE LoopFails(d, l) BY <2>2, <3>2 DEF LoopFails, TypeOK
      <3>3. CASE MetricsSent(d, l) BY <3>3 DEF MetricsSent, stopVars
      <3> QED BY <1>3, <3>1, <3>2, <3>3 DEF LoopStep
    <2> QED BY <2>1, <2>3 DEF ExtraLoops
  <1>4. ASSUME NEW q \in Requests, Deliver(q)
        PROVE  stop'[r] = "loop"
    <2>1. stop[q] = "idle" /\ target[q] \in Captures /\ q \in Loops
      BY <1>4 DEF Deliver, IInv, StopsBegun, Loops, TypeOK
    <2>2. CASE LoopCanRun(target[q]) /\ q = r BY <1>4, <2>2 DEF Deliver, TypeOK
    <2>3. CASE LoopCanRun(target[q]) /\ q # r
      <3>1. loop' = [loop EXCEPT ![target[q]][q] = "query"] /\ stop' = [stop EXCEPT ![q] = "loop"]
        BY <1>4, <2>3 DEF Deliver
      <3>2. stop'[r] = stop[r] BY <2>3, <3>1 DEF TypeOK
      <3>3. loop'[c][r] = loop[c][r]
        <4>1. CASE c = target[q] BY <2>1, <2>3, <3>1, <4>1 DEF TypeOK
        <4>2. CASE c # target[q] BY <2>1, <3>1, <4>2 DEF TypeOK
        <4> QED BY <4>1, <4>2
      <3> QED BY <3>2, <3>3 DEF ExtraLoops
    <2>4. CASE ~LoopCanRun(target[q])
      <3>1. loop' = loop /\ stop' = [stop EXCEPT ![q] = "failed"] BY <1>4, <2>4 DEF Deliver
      <3>2. stop[r] = "loop" BY <3>1 DEF ExtraLoops
      <3> QED BY <2>1, <3>1, <3>2 DEF TypeOK
    <2> QED BY <2>2, <2>3, <2>4
  <1>5. ASSUME NEW q \in Requests, StopStep(q)
        PROVE  stop'[r] = "loop"
    <2> USE DEF StopStep, Decide, TurnOff, TeardownFails, BuildWorkload, BuildMetrics, WriteDone, TimerFails
    <2>1. loop' = loop /\ stop[q] # "loop" BY <1>5
    <2>2. stop[r] = "loop" BY <2>1 DEF ExtraLoops
    <2>3. stop'[r] = stop[r] BY <1>5, <2>1, <2>2 DEF TypeOK
    <2> QED BY <2>2, <2>3
  <1>6. ASSUME NEW d \in Captures,
               \/ Post(d) \/ Launch(d) \/ SetupStep(d) \/ WriteFailed(d)
               \/ \E q \in Requests : UserStop(q, d) \/ TimedStop(q, d) \/ Delete(q, d)
        PROVE  loop' = loop /\ stop' = stop
    BY <1>6 DEF Post, Launch, SetupStep, Validate, IpcStarted, WriteStarting, TurnOn, WriteRunning,
         SetStartTime, SetupFails, WriteFailed, UserStop, TimedStop, Delete, Begin, stopVars
  <1>7. ASSUME NEW q \in Requests, NoteStep(q) \/ ServiceStep(q) PROVE loop' = loop /\ stop' = stop
    BY <1>7 DEF NoteStep, WriteStopping, Reply, NoteFails, ServiceStep, Send, Answered, Timeout,
         MarkFailed, DeleteRow, stopVars
  <1>8. CASE UNCHANGED vars BY <1>1, <1>8 DEF vars, stopVars
  <1> QED BY <1>1, <1>2, <1>3, <1>4, <1>5, <1>6, <1>7, <1>8 DEF Next, EndStep

\* A stop that failed is not taken up again.
LEMMA FailedStays ==
  ASSUME TypeOK, IInv, ExtraLoops, [Next]_vars, NEW r \in Requests, stop[r] = "failed"
  PROVE  stop'[r] = "failed"
  <1>1. ASSUME NEW c \in Captures,
               \/ Post(c) \/ Launch(c) \/ SetupStep(c) \/ EndStep(c) \/ StartTick(c)
               \/ \E q \in Requests : UserStop(q, c) \/ TimedStop(q, c) \/ Delete(q, c)
        PROVE  stop' = stop
    BY <1>1 DEF Post, Launch, SetupStep, Validate, IpcStarted, WriteStarting, TurnOn, WriteRunning,
         SetStartTime, SetupFails, EndStep, WriteFailed, Exit, StartTick, UserStop, TimedStop, Delete,
         Begin, stopVars
  <1>2. ASSUME NEW c \in Captures, NEW l \in Loops, LoopStep(c, l)
        PROVE  stop'[r] = "failed"
    <2>1. loop[c][r] # "query" BY DEF ExtraLoops
    <2>2. CASE LoopStored(c, l)
      <3>1. l # r BY <2>1, <2>2 DEF LoopStored
      <3> QED BY <2>2, <3>1 DEF LoopStored, TypeOK
    <2>3. CASE LoopFails(c, l) BY <2>3 DEF LoopFails, TypeOK
    <2>4. CASE MetricsSent(c, l) BY <2>4 DEF MetricsSent, stopVars
    <2> QED BY <1>2, <2>2, <2>3, <2>4 DEF LoopStep
  <1>3. ASSUME NEW q \in Requests, NoteStep(q) \/ ServiceStep(q) PROVE stop' = stop
    BY <1>3 DEF NoteStep, WriteStopping, Reply, NoteFails, ServiceStep, Send, Answered, Timeout,
         MarkFailed, DeleteRow, stopVars
  <1>4. ASSUME NEW q \in Requests, Deliver(q) PROVE stop'[r] = "failed"
    <2>1. q # r BY <1>4 DEF Deliver, IInv, StopsBegun
    <2> QED BY <1>4, <2>1 DEF Deliver, TypeOK
  <1>5. ASSUME NEW q \in Requests, StopStep(q) PROVE stop'[r] = "failed"
    BY <1>5 DEF StopStep, Decide, TurnOff, TeardownFails, BuildWorkload, BuildMetrics, WriteDone,
         TimerFails, TypeOK
  <1> QED BY <1>1, <1>2, <1>3, <1>4, <1>5 DEF Next, vars, stopVars

\* A stop that goes on after its first step found startTime set: before that, loop()
\* throws.
StopsStarted ==
  \A r \in Requests : stop[r] \notin {"idle", "failed"} => setup[target[r]] \in Started

\* A process ends itself once its setup has sent the RUNNING update or has failed.
DyingAfterSetup == \A c \in Captures : proc[c] = "dying" => setup[c] \in Acked

\* A stop reached c that nothing but the process's own state could refuse, and failed.
StoppedEarly(c) == \E r \in TimedStops \cup Deletes : target[r] = c /\ stop[r] = "failed"

\* A capture whose setup is under way has never left the statuses before RUNNING, but
\* to be deleted or because of a stop that failed.
SetupInOrder ==
  \A c \in Captures : setup[c] \in Unacked =>
    \/ row[c] \in {"STARTED", "SCHEDULED", "STARTING", "deleted"}
    \/ row[c] = "STOPPING" /\ StoppedEarly(c)

SetupInv == ExtraLoops /\ StopsStarted /\ DyingAfterSetup /\ SetupInOrder

LEMMA StopsStartedKept ==
  ASSUME TypeOK, IInv, ExtraLoops, StopsStarted, [Next]_vars
  PROVE  StopsStarted'
  <1> SUFFICES ASSUME NEW r \in Requests, stop'[r] \notin {"idle", "failed"}
               PROVE  setup'[target'[r]] \in Started
    BY DEF StopsStarted
  <1>1. stop[r] # "failed" BY FailedStays
  <1>2. CASE stop[r] # "idle"
    BY <1>1, <1>2, TargetKept, AckedStays DEF StopsStarted
  <1>3. CASE stop[r] = "idle"
    <2>1. Deliver(r) BY <1>3, StopBegins
    <2>2. LoopCanRun(target[r]) BY <2>1 DEF Deliver, TypeOK
    <2> QED BY <2>1, <2>2 DEF Deliver, LoopCanRun
  <1> QED BY <1>2, <1>3

LEMMA DyingAfterSetupKept ==
  ASSUME TypeOK, IInv, SetupInv, [Next]_vars
  PROVE  DyingAfterSetup'
  <1> SUFFICES ASSUME NEW c \in Captures, proc'[c] = "dying" PROVE setup'[c] \in Acked
    BY DEF DyingAfterSetup
  <1>1. setup[c] \in Acked => setup'[c] \in Acked BY AckedStays
  <1>2. CASE proc[c] = "dying" BY <1>1, <1>2 DEF SetupInv, DyingAfterSetup
  <1>3. CASE proc[c] # "dying"
    <2>1. ASSUME NEW d \in Captures, Launch(d) \/ Validate(d) \/ EndStep(d) PROVE FALSE
      <3>1. CASE Launch(d) BY <1>3, <2>1, <3>1 DEF Launch, TypeOK
      <3>2. CASE Validate(d) BY <1>3, <2>1, <3>2 DEF Validate, TypeOK
      <3>3. CASE WriteFailed(d) BY <1>3, <2>1, <3>3 DEF WriteFailed, TypeOK
      <3>4. CASE Exit(d) BY <1>3, <2>1, <3>4 DEF Exit, TypeOK
      <3> QED BY <2>1, <3>1, <3>2, <3>3, <3>4 DEF EndStep
    <2>2. ASSUME NEW d \in Captures, SetupFails(d) PROVE setup'[c] \in Acked
      <3>1. d = c BY <1>3, <2>2 DEF SetupFails, SelfDestruct, TypeOK
      <3> QED BY <2>2, <3>1 DEF SetupFails, Acked, Started, TypeOK
    <2>3. ASSUME NEW d \in Captures, NEW l \in Loops, LoopStored(d, l) PROVE setup'[c] \in Acked
      <3>1. d = c /\ l \in Requests /\ loop[d][l] = "query"
        BY <1>3, <2>3 DEF LoopStored, SelfDestruct, TypeOK
      <3>2. target[l] = c /\ stop[l] = "loop" BY <3>1 DEF SetupInv, ExtraLoops, IInv, LoopsOwned
      <3> QED BY <1>1, <3>1, <3>2 DEF SetupInv, StopsStarted, Acked
    <2>4. ASSUME NEW r \in Requests, TeardownFails(r) PROVE setup'[c] \in Acked
      <3>1. stop[r] \in {"decide", "turnOff"} /\ target[r] \in Captures
        BY <2>4 DEF TeardownFails, IInv, StopsBegun, TypeOK
      <3>2. target[r] = c BY <1>3, <2>4, <3>1 DEF TeardownFails, SelfDestruct, TypeOK
      <3> QED BY <1>1, <3>1, <3>2 DEF SetupInv, StopsStarted, Acked
    <2> QED BY <1>3, <2>1, <2>2, <2>3, <2>4, ProcSteps
  <1> QED BY <1>2, <1>3

\* Every step keeps setup in order: what writes another status over it has found
\* setup past the RUNNING update, deletes the row, or is onStop for a stop that failed.
LEMMA SetupInOrderKept ==
  ASSUME TypeOK, IInv, SetupInv, [Next]_vars
  PROVE  SetupInOrder'
  <1> DEFINE Early == {"STARTED", "SCHEDULED", "STARTING", "deleted"}
  <1> SUFFICES ASSUME NEW c \in Captures, setup'[c] \in Unacked
               PROVE  row'[c] \in Early \/ (row'[c] = "STOPPING" /\ StoppedEarly(c)')
    BY DEF SetupInOrder
  <1>1. setup[c] \notin Acked
    <2>1. setup'[c] \notin Acked BY DEF Unacked, Acked, Started
    <2> QED BY <2>1, AckedStays
  <1>2. StoppedEarly(c) => StoppedEarly(c)'
    <2>1. \A r \in Requests : stop[r] = "failed" => stop'[r] = "failed" /\ target'[r] = target[r]
      BY FailedStays, TargetKept DEF SetupInv
    <2> QED BY <2>1 DEF StoppedEarly, Requests
  <1>3. CASE setup[c] = "valid"
    <2>1. Validate(c)
      <3>1. setup'[c] # setup[c] BY <1>3 DEF Unacked
      <3>2. PICK d \in Captures : SetupStep(d) BY <3>1, SetupMoves DEF vars
      <3>3. d = c
        BY <3>1, <3>2 DEF SetupStep, Validate, IpcStarted, WriteStarting, TurnOn, WriteRunning, SetStartTime,
             SetupFails, TypeOK
      <3> QED BY <1>3, <3>2, <3>3 DEF SetupStep, IpcStarted, WriteStarting, TurnOn, WriteRunning,
                SetStartTime, SetupFails
    <2> QED BY <1>3, <2>1 DEF Validate, Unacked
  <1>4. CASE setup[c] # "valid"
    <2>0. setup[c] \in Unacked BY <1>1, <1>4 DEF Unacked, Acked, Started, TypeOK
    <2>1. row[c] \in Early \/ (row[c] = "STOPPING" /\ StoppedEarly(c))
      BY <2>0 DEF SetupInv, SetupInOrder
    <2>2. CASE row'[c] = row[c] BY <1>2, <2>1, <2>2
    <2>3. ASSUME row'[c] # row[c], NEW d \in Captures, RowStep(d)
          PROVE  row'[c] \in Early
      <3>1. CASE Post(d) BY <2>3, <3>1 DEF Post, TypeOK
      <3>2. CASE WriteStarting(d) BY <2>3, <3>2 DEF WriteStarting, SetRow, TypeOK
      <3>3. CASE WriteRunning(d)
        <4>1. d = c BY <2>3, <3>3 DEF WriteRunning, SetRow, TypeOK
        <4> QED BY <3>3, <4>1 DEF WriteRunning, Unacked, TypeOK
      <3>4. CASE WriteFailed(d)
        <4>1. d = c BY <2>3, <3>4 DEF WriteFailed, SetRow, TypeOK
        <4> QED BY <1>1, <3>4, <4>1 DEF WriteFailed, SetupInv, DyingAfterSetup
      <3> QED BY <2>3, <3>1, <3>2, <3>3, <3>4 DEF RowStep
    <2>4. ASSUME row'[c] # row[c], NEW r \in Requests, RowWrite(r)
          PROVE  row'[c] \in Early \/ (row'[c] = "STOPPING" /\ StoppedEarly(c)')
      <3>1. target[r] = c
        BY <2>4 DEF RowWrite, WriteStopping, WriteDone, MarkFailed, DeleteRow, SetRow, TypeOK
      <3>2. svc[r] # "idle" /\ r \notin UserStops
        <4>1. stop[r] # "idle" \/ svc[r] \in {"markFailed", "delRow"}
          BY <2>4 DEF RowWrite, WriteStopping, WriteDone, MarkFailed, DeleteRow, IInv, StopsBegun
        <4>2. svc[r] # "idle" BY <4>1 DEF IInv, StopsBegun, TypeOK
        <4> QED BY <1>1, <3>1, <4>2 DEF IInv, StopsAfterSetup
      <3>3. CASE DeleteRow(r) BY <3>1, <3>3 DEF DeleteRow, TypeOK
      <3>4. CASE MarkFailed(r) BY <3>2, <3>4 DEF MarkFailed, IInv, StopsBegun
      <3>5. CASE WriteDone(r) BY <1>1, <3>1, <3>5 DEF WriteDone, SetupInv, StopsStarted, Acked
      <3>6. CASE WriteStopping(r)
        <4>1. stop[r] # "idle" BY <3>6 DEF WriteStopping, IInv, StopsBegun
        <4>2. stop[r] = "failed" BY <1>1, <3>1, <4>1 DEF SetupInv, StopsStarted, Acked
        <4>3. StoppedEarly(c) BY <3>1, <3>2, <4>2 DEF StoppedEarly, Requests
        <4> QED BY <1>2, <2>4, <3>6, <4>3 DEF WriteStopping, SetRow, TypeOK
      <3> QED BY <2>4, <3>3, <3>4, <3>5, <3>6 DEF RowWrite
    <2> QED BY <2>2, <2>3, <2>4, RowSteps DEF vars
  <1> QED BY <1>3, <1>4

LEMMA SetupInvKept ==
  ASSUME TypeOK, IInv, SetupInv, [Next]_vars
  PROVE  SetupInv'
  BY ExtraLoopsKept, StopsStartedKept, DyingAfterSetupKept, SetupInOrderKept DEF SetupInv

\* Nothing is under way at first.
LEMMA InitSetup == Init => SetupInv
  <1> SUFFICES ASSUME Init PROVE SetupInv OBVIOUS
  <1>1. \A c \in Captures : proc[c] = "none" /\ setup[c] = "valid" BY DEF Init
  <1>2. \A r \in Requests : stop[r] = "idle" BY DEF Init
  <1>3. \A c \in Captures, r \in Requests : loop[c][r] = "idle" BY DEF Init, Loops
  <1> QED BY <1>1, <1>2, <1>3 DEF SetupInv, ExtraLoops, StopsStarted, DyingAfterSetup, SetupInOrder, Unacked

\* Setup goes on writing over the STOPPING of a stop that failed, and over no other status.
LEMMA ReopeningStep ==
  ASSUME TypeOK, IInv, SetupInv, [Next]_vars, NEW c \in Captures,
         row[c] \notin Needs \cup {"absent", "SCHEDULED"}, row'[c] \in Needs
  PROVE  row[c] = "STOPPING" /\ StoppedEarly(c)
  <1>1. row'[c] # row[c] OBVIOUS
  <1>2. ASSUME NEW r \in Requests, RowWrite(r) PROVE FALSE
    BY <1>1, <1>2 DEF RowWrite, WriteStopping, WriteDone, MarkFailed, DeleteRow, SetRow, Needs, TypeOK
  <1>3. PICK d \in Captures : RowStep(d) BY <1>1, <1>2, RowSteps DEF vars
  <1>4. WriteStarting(d) \/ WriteRunning(d)
    BY <1>1, <1>3 DEF RowStep, Post, WriteFailed, SetRow, Needs, TypeOK
  <1>5. d = c /\ row[c] # "deleted" /\ setup[c] \in Unacked
    BY <1>1, <1>4 DEF WriteStarting, WriteRunning, SetRow, Unacked, Needs, TypeOK
  <1> QED BY <1>5 DEF SetupInv, SetupInOrder, Needs

\* A capture returns to the statuses in which others must keep the log on for it only
\* from the STOPPING of a timed stop or a deletion that failed in its setup: whatever
\* the requests, whatever fails and however late the answers are.
THEOREM NotReopened == Spec => NeverReopened
  <1>1. TypeOK /\ IInv /\ SetupInv /\ [Next]_vars
          => [\A c \in Captures :
                row[c] \notin Needs \cup {"absent", "SCHEDULED"} /\ row'[c] \in Needs =>
                  /\ row[c] = "STOPPING"
                  /\ \E r \in TimedStops \cup Deletes : target[r] = c /\ stop[r] = "failed"]_vars
    BY ReopeningStep DEF StoppedEarly
  <1>2. TypeOK /\ IInv /\ SetupInv /\ [Next]_vars => SetupInv' BY SetupInvKept
  <1> QED BY <1>1, <1>2, InitSetup, Typing, Invariance, PTL DEF Spec, NeverReopened

-----------------------------------------------------------------------------
(* A stop of a capture that has begun                                       *)

\* A stop finds setup past its last await but one, if it waits for the acknowledgement.
StopsAfterStart == \A r \in Requests : stop[r] # "idle" => setup[target[r]] \in Started

\* A message that arrives finds startTime set.
LEMMA StopsAfterStartKept ==
  ASSUME TypeOK, IInv, StopsAfterStart, "lateAck" \notin Faults, [Next]_vars
  PROVE  StopsAfterStart'
  <1> SUFFICES ASSUME NEW r \in Requests, stop'[r] # "idle" PROVE setup'[target'[r]] \in Started
    BY DEF StopsAfterStart
  <1>1. CASE stop[r] # "idle"
    BY <1>1, TargetKept, AckedStays DEF StopsAfterStart
  <1>2. CASE stop[r] = "idle"
    BY <1>2, StopBegins DEF Deliver
  <1> QED BY <1>1, <1>2

-----------------------------------------------------------------------------
(* What is DONE is complete                                                 *)

\* A capture has one request to stop it.
OneRequest ==
  \A q, r \in Requests :
    svc[q] # "idle" /\ svc[r] # "idle" /\ target[q] = target[r] => q = r

\* The final workload file is built once a stop has come and no fragment is on its
\* way, and the final metrics file after it, when no loop is left.
WorkloadLast ==
  \A c \in Captures : "workload" \in final[c] =>
    IsDone(c) /\ \A l \in Loops : loop[c][l] # "query"
MetricsLast ==
  \A c \in Captures : "metrics" \in final[c] =>
    "workload" \in final[c] /\ \A l \in Loops : loop[c][l] = "idle"

\* A teardown has built what it is past, and waits for the metrics still to come.
FinishedBuilt ==
  \A r \in Requests :
    /\ stop[r] \in {"metrics", "done", "over"} => "workload" \in final[target[r]]
    /\ stop[r] \in {"done", "over"} => "metrics" \in final[target[r]]
WaitsForAll ==
  \A r \in Requests : stop[r] = "metrics" =>
    \A l \in Loops : loop[target[r]][l] = "metrics" => l \in wait[r]

NoStray   == \A c \in Captures : stray[c] = {}
DoneBuilt == \A c \in Captures : row[c] = "DONE" => {"workload", "metrics"} \subseteq final[c]

ResultsInv ==
  /\ OneRequest /\ ExtraLoops /\ WorkloadLast /\ MetricsLast /\ FinishedBuilt /\ WaitsForAll
  /\ NoStray /\ DoneBuilt

\* There is nothing to say of before the first request.
LEMMA InitResults == Init => ResultsInv
  <1> SUFFICES ASSUME Init PROVE ResultsInv
    OBVIOUS
  <1>0. \A c \in Captures, l \in Loops : loop[c][l] = "idle" BY DEF Init
  <1>1. /\ \A r \in Requests : svc[r] = "idle" /\ stop[r] = "idle"
        /\ \A c \in Captures : final[c] = {} /\ stray[c] = {} /\ row[c] = "absent"
    BY DEF Init
  <1> QED BY <1>0, <1>1 DEF ResultsInv, OneRequest, ExtraLoops, Loops, WorkloadLast, MetricsLast, FinishedBuilt, WaitsForAll,
                      NoStray, DoneBuilt

\* Two requests that have been begun are of two captures.
LEMMA OneRequestKept ==
  ASSUME TypeOK, IInv, OneRequest, "double" \notin Faults, [Next]_vars
  PROVE  OneRequest'
  <1>1. \A r \in Requests : svc[r] # "idle" => target[r] \in Captures BY DEF IInv, StopsBegun
  <1>2. CASE UNCHANGED <<svc, target>> BY <1>2 DEF OneRequest
  <1>3. ASSUME NEW r \in Requests, NEW c \in Captures, NEW at, Begin(r, c, at)
        PROVE  OneRequest'
    <2>1. /\ \A q \in Requests : target[q] # c
          /\ \A q \in Requests : target'[q] = IF q = r THEN c ELSE target[q]
          /\ \A q \in Requests : q # r => svc'[q] = svc[q]
      BY <1>3 DEF Begin, Targeted, TypeOK
    <2> QED BY <2>1 DEF OneRequest
  <1>4. ASSUME NEW r \in Requests, ServiceStep(r)
        PROVE  OneRequest'
    <2>1. target' = target /\ svc[r] # "idle" /\ \A q \in Requests : q # r => svc'[q] = svc[q]
      BY <1>4 DEF ServiceStep, Send, Answered, Timeout, MarkFailed, DeleteRow, TypeOK
    <2> QED BY <2>1 DEF OneRequest
  <1>5. ASSUME NEW c \in Captures,
               \/ Post(c) \/ Launch(c) \/ SetupStep(c) \/ EndStep(c) \/ StartTick(c)
               \/ \E l \in Loops : LoopStep(c, l)
        PROVE  UNCHANGED <<svc, target>>
    BY <1>5 DEF Post, Launch, SetupStep, Validate, IpcStarted, WriteStarting, TurnOn, WriteRunning,
         SetStartTime, SetupFails, EndStep, WriteFailed, Exit, StartTick, LoopStep, LoopStored,
         LoopFails, MetricsSent, requestVars
  <1>6. ASSUME NEW r \in Requests, Deliver(r) \/ NoteStep(r) \/ StopStep(r)
        PROVE  UNCHANGED <<svc, target>>
    BY <1>6 DEF Deliver, NoteStep, WriteStopping, Reply, NoteFails, StopStep, Decide, TurnOff,
         TeardownFails, BuildWorkload, BuildMetrics, WriteDone, TimerFails, requestVars
  <1> QED BY <1>2, <1>3, <1>4, <1>5, <1>6 DEF Next, vars, requestVars, UserStop, TimedStop, Delete

FilesInv == ExtraLoops /\ WorkloadLast /\ MetricsLast /\ FinishedBuilt /\ WaitsForAll /\ NoStray

\* Steps that leave the loops, the stops and the files alone.
LEMMA FilesLeft ==
  ASSUME TypeOK, IInv, FilesInv, [Next]_vars, UNCHANGED <<loop, final, stray, stop, wait>>
  PROVE  FilesInv'
  <1>1. \A r \in Requests : stop[r] # "idle" => target'[r] = target[r] BY TargetKept
  <1>2. \A c \in Captures : IsDone(c) => IsDone(c)' BY <1>1 DEF IsDone
  <1>3. WorkloadLast' /\ ExtraLoops' BY <1>2 DEF FilesInv, WorkloadLast, ExtraLoops
  <1>4. MetricsLast' /\ NoStray' BY DEF FilesInv, MetricsLast, NoStray
  <1>5. FinishedBuilt' BY <1>1 DEF FilesInv, FinishedBuilt
  <1>6. WaitsForAll' BY <1>1 DEF FilesInv, WaitsForAll
  <1> QED BY <1>3, <1>4, <1>5, <1>6 DEF FilesInv

\* The steps of a process that are not those of its setup.
LEMMA FilesLoop ==
  ASSUME TypeOK, IInv, FilesInv, [Next]_vars, "slowLoop" \notin Faults, NEW c \in Captures, NEW l \in Loops,
         Exit(c) \/ StartTick(c) \/ LoopStep(c, l)
  PROVE  FilesInv'
  <1> USE DEF FilesInv
  <1>0. /\ UNCHANGED <<final, target, wait>> /\ l \in Loops /\ "tick" \in Loops /\ Requests \subseteq Loops
        /\ final[c] \subseteq {"workload", "metrics"}
    BY DEF Exit, StartTick, LoopStep, LoopStored, LoopFails, MetricsSent, requestVars, stopVars,
           storageVars, Loops, TypeOK
  <1>s. /\ \A r \in Requests : stop[r] # "idle" <=> stop'[r] # "idle"
        /\ \A r \in Requests : stop[r] \in {"metrics", "done", "over"} <=> stop'[r] \in {"metrics", "done", "over"}
        /\ \A r \in Requests : stop[r] = "metrics" <=> stop'[r] = "metrics"
        /\ \A r \in Requests : stop[r] \in {"done", "over"} <=> stop'[r] \in {"done", "over"}
    <2>1. CASE stop' = stop BY <2>1
    <2>2. CASE \E r \in Requests : stop[r] = "loop" /\ (stop' = [stop EXCEPT ![r] = "decide"] \/ stop' = [stop EXCEPT ![r] = "failed"])
      BY <2>2 DEF TypeOK
    <2>3. \A r \in Requests : loop[c][r] = "query" => stop[r] = "loop" BY DEF ExtraLoops
    <2> QED BY <2>1, <2>2, <2>3 DEF Exit, StartTick, LoopStep, LoopStored, LoopFails, MetricsSent, stopVars
  <1>d. \A d \in Captures : IsDone(d) <=> IsDone(d)' BY <1>0, <1>s DEF IsDone
  <1>f. FinishedBuilt' BY <1>0, <1>s DEF FinishedBuilt
  <1>1. CASE Exit(c)
    <2>1. /\ \A d \in Captures, k \in Loops : loop'[d][k] = IF d = c THEN "idle" ELSE loop[d][k]
          /\ stray' = stray
      BY <1>1 DEF Exit, TypeOK, storageVars
    <2>2. WorkloadLast' /\ MetricsLast' BY <2>1, <1>0, <1>d DEF WorkloadLast, MetricsLast
    <2>3. WaitsForAll' BY <2>1, <1>0, <1>s, TargetKept DEF WaitsForAll
    <2>4. ExtraLoops' BY <2>1, <1>0, <1>1 DEF ExtraLoops, Exit, stopVars
    <2> QED BY <2>1, <2>2, <2>3, <2>4, <1>f DEF NoStray
  <1>2. CASE StartTick(c)
    <2>1. /\ \A d \in Captures, k \in Loops : loop'[d][k] = IF d = c /\ k = "tick" THEN "query" ELSE loop[d][k]
          /\ stray' = stray /\ ~IsDone(c)
      BY <1>0, <1>2 DEF StartTick, TypeOK, storageVars
    <2>2. final[c] = {} BY <2>1, <1>0 DEF WorkloadLast, MetricsLast
    <2>3. WorkloadLast' /\ MetricsLast' BY <2>1, <2>2, <1>0, <1>d DEF WorkloadLast, MetricsLast
    <2>4. WaitsForAll' BY <2>1, <1>0, <1>s, TargetKept DEF WaitsForAll
    <2>5. ExtraLoops' BY <2>1, <1>0, <1>2, RequestsDisjoint DEF ExtraLoops, StartTick, stopVars
    <2> QED BY <2>1, <2>3, <2>4, <2>5, <1>f DEF NoStray
  <1>3. CASE LoopStored(c, l)
    <2>1. /\ \A d \in Captures, k \in Loops : loop'[d][k] = IF d = c /\ k = l THEN "metrics" ELSE loop[d][k]
          /\ loop[c][l] = "query" /\ Store(c, "workload")
      BY <1>0, <1>3 DEF LoopStored, TypeOK
    <2>2. final[c] = {} BY <2>1, <1>0 DEF WorkloadLast, MetricsLast
    <2>3. WorkloadLast' /\ MetricsLast' BY <2>1, <2>2, <1>0, <1>d DEF WorkloadLast, MetricsLast
    <2>4. \A r \in Requests : stop[r] = "metrics" => target[r] # c
      BY <2>2 DEF FinishedBuilt
    <2>5. WaitsForAll' BY <2>1, <2>4, <1>0, <1>s, TargetKept DEF WaitsForAll
    <2>6. NoStray' BY <2>1, <2>2 DEF Store, NoStray, TypeOK
    <2>7. \A d \in Captures, r \in Requests : loop'[d][r] = "query" => loop[d][r] = "query" /\ r # l
      <3>1. \A d \in Captures, r \in Requests : loop[d][r] = "query" /\ r = l => d = c
        BY <2>1 DEF IInv, LoopsOwned
      <3> QED BY <2>1, <3>1, <1>0
    <2>8. ExtraLoops' BY <2>7, <1>3 DEF ExtraLoops, LoopStored, TypeOK
    <2> QED BY <2>3, <2>5, <2>6, <2>8, <1>f
  <1>4. CASE LoopFails(c, l)
    <2>1. /\ \A d \in Captures, k \in Loops : loop'[d][k] = IF d = c /\ k = l THEN "idle" ELSE loop[d][k]
          /\ stray' = stray
      BY <1>0, <1>4 DEF LoopFails, TypeOK, storageVars
    <2>3. WorkloadLast' /\ MetricsLast' BY <2>1, <1>0, <1>d DEF WorkloadLast, MetricsLast
    <2>5. WaitsForAll' BY <2>1, <1>0, <1>s, TargetKept DEF WaitsForAll
    <2>7. \A d \in Captures, r \in Requests : loop'[d][r] = "query" => loop[d][r] = "query" /\ r # l
      <3>1. \A d \in Captures, r \in Requests : loop[d][r] = "query" /\ r = l => d = c
        BY <1>4 DEF IInv, LoopsOwned, LoopFails
      <3> QED BY <2>1, <3>1, <1>0
    <2>8. ExtraLoops' BY <2>7, <1>4 DEF ExtraLoops, LoopFails, TypeOK
    <2> QED BY <2>1, <2>3, <2>5, <2>8, <1>f DEF NoStray
  <1>5. CASE MetricsSent(c, l)
    <2>1. /\ \A d \in Captures, k \in Loops : loop'[d][k] = IF d = c /\ k = l THEN "idle" ELSE loop[d][k]
          /\ loop[c][l] = "metrics" /\ (Store(c, "metrics") \/ UNCHANGED stray)
      BY <1>0, <1>5 DEF MetricsSent, TypeOK
    <2>2. "metrics" \notin final[c] BY <2>1, <1>0 DEF MetricsLast
    <2>3. WorkloadLast' /\ MetricsLast' BY <2>1, <1>0, <1>d DEF WorkloadLast, MetricsLast
    <2>4. WaitsForAll' BY <2>1, <1>0, <1>s, TargetKept DEF WaitsForAll
    <2>5. NoStray' BY <2>1, <2>2 DEF Store, NoStray, TypeOK
    <2>6. ExtraLoops' BY <2>1, <1>0, <1>5 DEF ExtraLoops, MetricsSent, stopVars
    <2> QED BY <2>3, <2>4, <2>5, <2>6, <1>f
  <1> QED BY <1>1, <1>2, <1>3, <1>4, <1>5 DEF LoopStep

\* A stop that arrives finds no final file: the files are of another stop.
LEMMA FilesDeliver ==
  ASSUME TypeOK, IInv, FilesInv, OneRequest, [Next]_vars, NEW r \in Requests, Deliver(r)
  PROVE  FilesInv'
  <1> USE DEF FilesInv
  <1> DEFINE c == target[r]
  <1>0. /\ UNCHANGED <<final, stray, target, wait>> /\ r \in Loops /\ Requests \subseteq Loops
        /\ msg[r] = "sent"
    BY DEF Deliver, storageVars, Loops
  <1>1. svc[r] # "idle" /\ c \in Captures /\ stop[r] = "idle" /\ final[c] \subseteq {"workload", "metrics"}
    BY <1>0 DEF IInv, StopsBegun, TypeOK
  <1>2. ~IsDone(c)
    <2>1. SUFFICES ASSUME NEW q \in Requests, target[q] = c, stop[q] # "idle" PROVE FALSE
      BY DEF IsDone
    <2>2. svc[q] # "idle" BY <2>1 DEF IInv, StopsBegun, TypeOK
    <2> QED BY <2>1, <2>2, <1>1 DEF OneRequest
  <1>3. final[c] = {} BY <1>1, <1>2 DEF WorkloadLast, MetricsLast
  <1>4. \E s \in {"loop", "failed"} : stop' = [stop EXCEPT ![r] = s]
    BY DEF Deliver
  <1>5. \A q \in Requests : q # r => stop'[q] = stop[q] BY <1>4 DEF TypeOK
  <1>6. stop'[r] \in {"loop", "failed"} BY <1>4 DEF TypeOK
  <1>7. \A d \in Captures, k \in Loops : d # c \/ k # r => loop'[d][k] = loop[d][k]
    BY <1>0, <1>1 DEF Deliver, TypeOK
  <1>8. \A d \in Captures : IsDone(d) => IsDone(d)' BY <1>0, <1>1, <1>5 DEF IsDone
  <1>9. WorkloadLast' /\ MetricsLast'
    BY <1>0, <1>3, <1>7, <1>8 DEF WorkloadLast, MetricsLast
  <1>10. FinishedBuilt' BY <1>0, <1>5, <1>6 DEF FinishedBuilt
  <1>11. \A q \in Requests : stop[q] = "metrics" => target[q] # c
    BY <1>3 DEF FinishedBuilt
  <1>12. WaitsForAll'
    <2>1. SUFFICES ASSUME NEW q \in Requests, stop'[q] = "metrics", NEW k \in Loops, loop'[target'[q]][k] = "metrics"
          PROVE  k \in wait'[q]
      BY DEF WaitsForAll
    <2>2. q # r /\ stop[q] = "metrics" BY <2>1, <1>5, <1>6
    <2>3. target[q] # c /\ target[q] \in Captures BY <2>2, <1>11, TargetKept
    <2>4. loop[target[q]][k] = "metrics" BY <2>1, <2>3, <1>0, <1>7
    <2> QED BY <2>2, <2>4, <1>0 DEF WaitsForAll
  <1>13. ExtraLoops'
    <2>1. SUFFICES ASSUME NEW d \in Captures, NEW q \in Requests, loop'[d][q] = "query"
          PROVE  stop'[q] = "loop"
      BY DEF ExtraLoops
    <2>2. CASE d = c /\ q = r
      <3>1. CASE LoopCanRun(c)
        <4>1. stop' = [stop EXCEPT ![r] = "loop"] BY <3>1 DEF Deliver
        <4> QED BY <4>1, <2>2 DEF TypeOK
      <3>2. CASE ~LoopCanRun(c)
        <4>1. loop[c][r] = "query" BY <2>1, <2>2, <3>2 DEF Deliver
        <4> QED BY <4>1, <1>1 DEF ExtraLoops
      <3> QED BY <3>1, <3>2
    <2>3. CASE d # c \/ q # r
      <3>1. loop[d][q] = "query" BY <2>1, <2>3, <1>0, <1>7
      <3>2. stop[q] = "loop" /\ q # r BY <3>1, <1>1 DEF ExtraLoops
      <3> QED BY <3>2, <1>5
    <2> QED BY <2>2, <2>3
  <1> QED BY <1>0, <1>9, <1>10, <1>12, <1>13 DEF NoStray

\* A stop goes on: the only steps that build are those of its timer.
LEMMA FilesStop ==
  ASSUME TypeOK, IInv, FilesInv, [Next]_vars, "slowLoop" \notin Faults, NEW r \in Requests, StopStep(r)
  PROVE  FilesInv'
  <1> USE DEF FilesInv
  <1> DEFINE c == target[r]
  <1>0. UNCHANGED <<loop, stray, target>>
    BY DEF StopStep, Decide, TurnOff, TeardownFails, BuildWorkload, BuildMetrics, WriteDone, TimerFails,
           requestVars, storageVars
  <1>1. stop[r] \notin {"idle", "loop"} /\ stop'[r] \notin {"idle", "loop"} /\ c \in Captures
    <2>1. stop[r] \notin {"idle", "loop"} /\ stop'[r] \notin {"idle", "loop"}
      BY DEF StopStep, Decide, TurnOff, TeardownFails, BuildWorkload, BuildMetrics, WriteDone, TimerFails,
             TypeOK
    <2> QED BY <2>1, TargetKept
  <1>2. \A q \in Requests : q # r => stop'[q] = stop[q] /\ wait'[q] = wait[q]
    BY DEF StopStep, Decide, TurnOff, TeardownFails, BuildWorkload, BuildMetrics, WriteDone, TimerFails,
           TypeOK
  <1>3. \A d \in Captures : IsDone(d) <=> IsDone(d)' BY <1>0, <1>1, <1>2 DEF IsDone
  <1>4. ExtraLoops' /\ NoStray' BY <1>0, <1>1, <1>2 DEF ExtraLoops, NoStray
  <1>5. CASE Decide(r) \/ TurnOff(r) \/ TeardownFails(r) \/ WriteDone(r) \/ TimerFails(r)
    <2>1. /\ final' = final /\ stop'[r] # "metrics"
          /\ stop'[r] \in {"done", "over"} => stop[r] = "done"
      BY <1>5 DEF Decide, TurnOff, TeardownFails, WriteDone, TimerFails, storageVars, TypeOK
    <2>2. WorkloadLast' /\ MetricsLast' BY <2>1, <1>0, <1>3 DEF WorkloadLast, MetricsLast
    <2>3. FinishedBuilt' BY <2>1, <1>0, <1>2 DEF FinishedBuilt
    <2>4. WaitsForAll' BY <2>1, <1>0, <1>2 DEF WaitsForAll
    <2> QED BY <2>2, <2>3, <2>4, <1>4
  <1>6. CASE BuildWorkload(r)
    <2>1. /\ \A d \in Captures : final'[d] = IF d = c THEN final[d] \cup {"workload"} ELSE final[d]
          /\ stop'[r] = "metrics" /\ wait'[r] = {l \in Loops : loop[c][l] = "metrics"}
          /\ \A l \in Loops : loop[c][l] # "query"
      BY <1>1, <1>6 DEF BuildWorkload, TypeOK
    <2>b. \A d \in Captures : /\ "workload" \in final'[d] <=> "workload" \in final[d] \/ d = c
                              /\ "metrics" \in final'[d] <=> "metrics" \in final[d]
      BY <2>1
    <2>d. IsDone(c) BY <1>1 DEF IsDone
    <2>2. WorkloadLast' BY <2>1, <2>b, <2>d, <1>0, <1>1, <1>3 DEF WorkloadLast
    <2>3. MetricsLast' BY <2>b, <1>0 DEF MetricsLast
    <2>4. FinishedBuilt'
      <3>1. \A q \in Requests : q # r /\ stop'[q] \in {"metrics", "done", "over"} => target[q] \in Captures
        BY <1>2, TargetKept
      <3> QED BY <2>1, <3>1, <1>0, <1>1, <1>2 DEF FinishedBuilt
    <2>5. WaitsForAll' BY <2>1, <1>0, <1>2 DEF WaitsForAll
    <2> QED BY <2>2, <2>3, <2>4, <2>5, <1>4
  <1>7. CASE BuildMetrics(r)
    <2>1. /\ \A d \in Captures : final'[d] = IF d = c THEN final[d] \cup {"metrics"} ELSE final[d]
          /\ stop[r] = "metrics" /\ stop'[r] \in {"done", "failed"}
          /\ \A l \in wait[r] : loop[c][l] # "metrics"
      BY <1>1, <1>7 DEF BuildMetrics, TypeOK
    <2>2. "workload" \in final[c] /\ (\A l \in Loops : loop[c][l] \notin {"query", "metrics"})
      BY <2>1, <1>1 DEF FinishedBuilt, WaitsForAll, WorkloadLast
    <2>3. \A l \in Loops : loop[c][l] = "idle" BY <2>2, <1>1 DEF TypeOK
    <2>b. ASSUME NEW d \in Captures PROVE "workload" \in final'[d] <=> "workload" \in final[d]
      <3>1. CASE d = c
        <4>1. final'[d] = final[d] \cup {"metrics"} BY <2>1, <3>1
        <4> HIDE DEF c
        <4> QED BY <4>1
      <3>2. CASE d # c BY <2>1, <3>2
      <3> QED BY <3>1, <3>2
    <2>4. WorkloadLast' BY <2>b, <1>0, <1>3 DEF WorkloadLast
    <2>5. MetricsLast' BY <2>1, <2>2, <2>3, <1>0 DEF MetricsLast
    <2>6. FinishedBuilt'
      <3>1. \A q \in Requests : q # r /\ stop'[q] \in {"metrics", "done", "over"} => target[q] \in Captures
        BY <1>2, TargetKept
      <3> QED BY <2>1, <2>2, <3>1, <1>0, <1>1, <1>2, ZenonT(40) DEF FinishedBuilt
    <2>7. WaitsForAll' BY <2>1, <1>0, <1>2 DEF WaitsForAll
    <2> QED BY <2>4, <2>5, <2>6, <2>7, <1>4
  <1> QED BY <1>5, <1>6, <1>7 DEF StopStep

\* DONE is written by a stop that has built both files.
LEMMA DoneBuiltKept ==
  ASSUME TypeOK, IInv, FilesInv, DoneBuilt, [Next]_vars
  PROVE  DoneBuilt'
  <1>1. \A c \in Captures : final[c] \subseteq final'[c]
    <2>1. CASE final' = final BY <2>1
    <2>2. CASE \E r \in Requests : \E kind : final' = [final EXCEPT ![target[r]] = @ \cup {kind}]
      BY <2>2 DEF TypeOK
    <2>3. ASSUME NEW c \in Captures,
                 \/ Post(c) \/ Launch(c) \/ SetupStep(c) \/ EndStep(c) \/ StartTick(c)
                 \/ \E l \in Loops : LoopStep(c, l)
                 \/ \E r \in Requests : UserStop(r, c) \/ TimedStop(r, c) \/ Delete(r, c)
          PROVE  final' = final
      BY <2>3 DEF Post, Launch, SetupStep, Validate, IpcStarted, WriteStarting, TurnOn, WriteRunning,
           SetStartTime, SetupFails, EndStep, WriteFailed, Exit, StartTick, LoopStep, LoopStored,
           LoopFails, MetricsSent, UserStop, TimedStop, Delete, Begin, storageVars
    <2>4. ASSUME NEW r \in Requests, Deliver(r) \/ NoteStep(r) \/ StopStep(r) \/ ServiceStep(r)
          PROVE  \/ final' = final
                 \/ \E kind : final' = [final EXCEPT ![target[r]] = @ \cup {kind}]
      BY <2>4 DEF Deliver, NoteStep, WriteStopping, Reply, NoteFails, StopStep, Decide, TurnOff,
         TeardownFails, BuildWorkload, BuildMetrics, WriteDone, TimerFails, storageVars,
         ServiceStep, Send, Answered, Timeout, MarkFailed, DeleteRow
    <2> QED BY <2>1, <2>2, <2>3, <2>4 DEF Next, vars, storageVars
  <1>2. ASSUME NEW c \in Captures, row'[c] = "DONE", row[c] # "DONE"
        PROVE  {"workload", "metrics"} \subseteq final[c]
    <2>1. \A d \in Captures : RowStep(d) => row'[c] # "DONE"
      BY <1>2 DEF RowStep, Post, WriteStarting, WriteRunning, WriteFailed, SetRow, TypeOK
    <2>2. PICK r \in Requests : RowWrite(r) BY <1>2, <2>1, RowSteps DEF vars
    <2>3. WriteDone(r) BY <1>2, <2>2 DEF RowWrite, WriteStopping, MarkFailed, DeleteRow, SetRow, TypeOK
    <2>4. c = target[r] /\ stop[r] = "done" BY <1>2, <2>3 DEF WriteDone, SetRow, TypeOK
    <2> QED BY <2>4 DEF FilesInv, FinishedBuilt
  <1> QED BY <1>1, <1>2 DEF DoneBuilt

\* Every step keeps what is said of the files.
LEMMA FilesKept ==
  ASSUME TypeOK, IInv, FilesInv, OneRequest, "slowLoop" \notin Faults, [Next]_vars
  PROVE  FilesInv'
  <1>1. CASE UNCHANGED <<loop, final, stray, stop, wait>> BY <1>1, FilesLeft
  <1>2. ASSUME NEW c \in Captures, NEW l \in Loops, Exit(c) \/ StartTick(c) \/ LoopStep(c, l)
        PROVE  FilesInv'
    BY <1>2, FilesLoop
  <1>3. ASSUME NEW r \in Requests, Deliver(r) \/ StopStep(r) PROVE FilesInv'
    BY <1>3, FilesDeliver, FilesStop
  <1>4. ASSUME NEW c \in Captures,
               \/ Post(c) \/ Launch(c) \/ SetupStep(c) \/ WriteFailed(c)
               \/ \E r \in Requests : UserStop(r, c) \/ TimedStop(r, c) \/ Delete(r, c)
        PROVE  UNCHANGED <<loop, final, stray, stop, wait>>
    BY <1>4 DEF Post, Launch, SetupStep, Validate, IpcStarted, WriteStarting, TurnOn, WriteRunning,
         SetStartTime, SetupFails, WriteFailed, UserStop, TimedStop, Delete, Begin, storageVars, stopVars
  <1>5. ASSUME NEW r \in Requests, NoteStep(r) \/ ServiceStep(r)
        PROVE  UNCHANGED <<loop, final, stray, stop, wait>>
    BY <1>5 DEF NoteStep, WriteStopping, Reply, NoteFails, ServiceStep, Send, Answered, Timeout, MarkFailed,
         DeleteRow, storageVars, stopVars
  <1>6. "tick" \in Loops BY DEF Loops
  <1> QED BY <1>1, <1>2, <1>3, <1>4, <1>5, <1>6 DEF Next, EndStep, vars, storageVars, stopVars

\* As long as no loop outlasts filePrepDelay and a capture has one request to stop
\* it, its final files hold every sample once it is DONE, whatever else fails.
THEOREM DoneComplete ==
  ASSUME "slowLoop" \notin Faults, "double" \notin Faults
  PROVE  Spec => []DoneIsComplete
  <1>1. TypeOK /\ IInv /\ ResultsInv /\ [Next]_vars => ResultsInv'
    BY OneRequestKept, FilesKept, DoneBuiltKept DEF ResultsInv, FilesInv
  <1>2. TypeOK /\ ResultsInv => DoneIsComplete
    BY DEF ResultsInv, DoneBuilt, NoStray, DoneIsComplete, TypeOK
  <1> QED BY <1>1, <1>2, InitResults, Typing, Invariance, PTL DEF Spec
-----------------------------------------------------------------------------
(* The log has an owner                                                     *)

\* Where a stop is once it has looked at the rows.
Looked == {"turnOff", "timer", "metrics", "done", "over"}
\* The statuses of a capture that has not come to an end.
Pending == Needs \cup {"SCHEDULED"}
\* Where a process is that will exit.
Ending == {"dying", "exiting"}

\* Nothing is deleted, and no onStop fails.
NothingDeleted ==
  /\ \A c \in Captures : row[c] # "deleted"
  /\ \A r \in Requests : svc[r] \notin {"delSend", "delRow"} /\ note[r] # "failed"

\* The look at the rows comes after STOPPING is in this capture's own.
LooksAfterStopping == \A r \in Requests : stop[r] \in Looked => note[r] # "stopping"

\* The stops after which a capture has come to its end.
StoppedIsOver ==
  \A r \in Requests :
    stop[r] = "failed" \/ (stop[r] # "idle" /\ note[r] # "stopping") => row[target[r]] \notin Pending
MarkedIsOver ==
  \A r \in Requests :
    svc[r] = "markFailed" \/ (msg[r] = "lost" /\ r \in UserStops) => row[target[r]] \notin Pending

\* A capture that has not come to an end logs, listens and lives once it has begun to.
InProgress ==
  \A c \in Captures : row[c] \in Pending =>
    /\ setup[c] \in {"running"} \cup Acked => logging[c]
    /\ setup[c] \notin {"valid", "ipcStart"} => ipc[c]
    /\ setup[c] # "valid" => Alive(c)

\* A process that will exit has been stopped, and does not log.
EndingIsOver ==
  \A c \in Captures : proc[c] \in Ending => IsDone(c) /\ ~logging[c] /\ row[c] \notin Pending

ProgressInv ==
  /\ SetupInv /\ NothingDeleted /\ StopsAfterStart /\ LooksAfterStopping
  /\ StoppedIsOver /\ MarkedIsOver /\ InProgress /\ EndingIsOver

\* Loops may be late and a capture may be stopped twice; nothing else goes wrong.
Calm == Faults \subseteq {"slowLoop", "double"} /\ Deletes = {}

-----------------------------------------------------------------------------
(* What the steps of a calm environment do                                  *)

\* The steps of a stop, and the one that begins it.
StopMoves(r) ==
  Deliver(r) \/ StopStep(r) \/ \E c \in Captures : LoopStored(c, r)

LEMMA StopChanges ==
  ASSUME TypeOK, Calm, [Next]_vars, NEW r \in Requests
  PROVE  stop'[r] = stop[r] \/ StopMoves(r)
  <1>1. ASSUME NEW c \in Captures,
               \/ Post(c) \/ Launch(c) \/ SetupStep(c) \/ EndStep(c) \/ StartTick(c)
               \/ \E q \in Requests : UserStop(q, c) \/ TimedStop(q, c) \/ Delete(q, c)
        PROVE  stop' = stop
    BY <1>1 DEF Post, Launch, SetupStep, Validate, IpcStarted, WriteStarting, TurnOn, WriteRunning,
         SetStartTime, SetupFails, EndStep, WriteFailed, Exit, StartTick, UserStop, TimedStop, Delete,
         Begin, stopVars
  <1>2. ASSUME NEW c \in Captures, NEW l \in Loops, LoopStep(c, l)
        PROVE  stop'[r] = stop[r] \/ StopMoves(r)
    <2>1. CASE LoopStored(c, l) /\ l = r BY <2>1 DEF StopMoves
    <2>2. CASE LoopStored(c, l) /\ l # r BY <2>2 DEF LoopStored, TypeOK
    <2>3. CASE LoopFails(c, l) BY <2>3 DEF LoopFails, Calm
    <2>4. CASE MetricsSent(c, l) BY <2>4 DEF MetricsSent, stopVars
    <2> QED BY <1>2, <2>1, <2>2, <2>3, <2>4 DEF LoopStep
  <1>3. ASSUME NEW q \in Requests, NoteStep(q) \/ ServiceStep(q) PROVE stop' = stop
    BY <1>3 DEF NoteStep, WriteStopping, Reply, NoteFails, ServiceStep, Send, Answered, Timeout,
         MarkFailed, DeleteRow, stopVars
  <1>4. ASSUME NEW q \in Requests, q # r, Deliver(q) \/ StopStep(q) PROVE stop'[r] = stop[r]
    BY <1>4 DEF Deliver, StopStep, Decide, TurnOff, TeardownFails, BuildWorkload, BuildMetrics, WriteDone,
         TimerFails, TypeOK
  <1> QED BY <1>1, <1>2, <1>3, <1>4 DEF Next, StopMoves, vars, stopVars

\* What is past setup and over is over.
LEMMA OverStays ==
  ASSUME TypeOK, IInv, [Next]_vars, NEW c \in Captures, setup[c] \in Acked, row[c] \notin Pending
  PROVE  row'[c] \notin Pending
  <1> USE DEF Pending, Needs, TypeOK
  <1>1. ASSUME NEW d \in Captures, RowStep(d) PROVE row'[c] \notin Pending
    <2>1. CASE Post(d)
      <3>1. row[c] # "absent" BY DEF IInv, SetupOrder, Acked, Started
      <3> QED BY <2>1, <3>1 DEF Post
    <2>2. CASE WriteStarting(d) BY <2>2 DEF WriteStarting, SetRow, Acked, Started
    <2>3. CASE WriteRunning(d) BY <2>3 DEF WriteRunning, SetRow, Acked, Started
    <2>4. CASE WriteFailed(d) BY <2>4 DEF WriteFailed, SetRow
    <2> QED BY <1>1, <2>1, <2>2, <2>3, <2>4 DEF RowStep
  <1>2. ASSUME NEW r \in Requests, RowWrite(r) PROVE row'[c] \notin Pending
    BY <1>2 DEF RowWrite, WriteStopping, WriteDone, MarkFailed, DeleteRow, SetRow
  <1> QED BY <1>1, <1>2, RowSteps DEF vars

\* Who notes a stop, and when.
LEMMA NoteChanges ==
  ASSUME TypeOK, [Next]_vars, NEW r \in Requests
  PROVE  note'[r] = note[r] \/ Deliver(r) \/ NoteStep(r)
  <1>1. ASSUME NEW c \in Captures,
               \/ Post(c) \/ Launch(c) \/ SetupStep(c) \/ EndStep(c) \/ StartTick(c)
               \/ \E l \in Loops : LoopStep(c, l)
               \/ \E q \in Requests : UserStop(q, c) \/ TimedStop(q, c) \/ Delete(q, c)
        PROVE  note' = note
    BY <1>1 DEF Post, Launch, SetupStep, Validate, IpcStarted, WriteStarting, TurnOn, WriteRunning,
         SetStartTime, SetupFails, EndStep, WriteFailed, Exit, StartTick, LoopStep, LoopStored, LoopFails,
         MetricsSent, UserStop, TimedStop, Delete, Begin, stopVars
  <1>2. ASSUME NEW q \in Requests, StopStep(q) \/ ServiceStep(q) PROVE note' = note
    BY <1>2 DEF StopStep, Decide, TurnOff, TeardownFails, BuildWorkload, BuildMetrics, WriteDone,
         TimerFails, ServiceStep, Send, Answered, Timeout, MarkFailed, DeleteRow, stopVars
  <1>3. ASSUME NEW q \in Requests, q # r, Deliver(q) \/ NoteStep(q) PROVE note'[r] = note[r]
    BY <1>3 DEF Deliver, NoteStep, WriteStopping, Reply, NoteFails, TypeOK
  <1> QED BY <1>1, <1>2, <1>3 DEF Next, vars, stopVars

\* The service's part of a request is its handler's.
LEMMA ServiceChanges ==
  ASSUME TypeOK, [Next]_vars, NEW r \in Requests
  PROVE  /\ svc[r] # "idle" => target'[r] = target[r]
         /\ \/ UNCHANGED <<svc[r], msg[r]>> \/ Deliver(r) \/ ServiceStep(r)
            \/ \E c \in Captures : UserStop(r, c) \/ TimedStop(r, c) \/ Delete(r, c)
  <1>1. ASSUME NEW c \in Captures,
               \/ Post(c) \/ Launch(c) \/ SetupStep(c) \/ EndStep(c) \/ StartTick(c)
               \/ \E l \in Loops : LoopStep(c, l)
        PROVE  UNCHANGED <<target, svc, msg>>
    BY <1>1 DEF Post, Launch, SetupStep, Validate, IpcStarted, WriteStarting, TurnOn, WriteRunning,
         SetStartTime, SetupFails, EndStep, WriteFailed, Exit, StartTick, LoopStep, LoopStored, LoopFails,
         MetricsSent, requestVars
  <1>2. ASSUME NEW c \in Captures, NEW q \in Requests, UserStop(q, c) \/ TimedStop(q, c) \/ Delete(q, c)
        PROVE  /\ svc[r] # "idle" => target'[r] = target[r]
               /\ q # r => UNCHANGED <<svc[r], msg[r]>>
    <2>1. PICK at : Begin(q, c, at) BY <1>2 DEF UserStop, TimedStop, Delete
    <2> QED BY <2>1 DEF Begin, TypeOK
  <1>3. ASSUME NEW q \in Requests, NoteStep(q) \/ StopStep(q) PROVE UNCHANGED <<target, svc, msg>>
    BY <1>3 DEF NoteStep, WriteStopping, Reply, NoteFails, StopStep, Decide, TurnOff, TeardownFails,
         BuildWorkload, BuildMetrics, WriteDone, TimerFails, requestVars
  <1>4. ASSUME NEW q \in Requests, Deliver(q) \/ ServiceStep(q)
        PROVE  target' = target /\ (q # r => UNCHANGED <<svc[r], msg[r]>>)
    BY <1>4 DEF Deliver, ServiceStep, Send, Answered, Timeout, MarkFailed, DeleteRow, TypeOK
  <1> QED BY <1>1, <1>2, <1>3, <1>4 DEF Next, vars, requestVars

\* Who turns logging on and off.
LEMMA LoggingSteps ==
  ASSUME [Next]_vars
  PROVE  \/ UNCHANGED <<logging, generalLog>>
         \/ \E c \in Captures : TurnOn(c) \/ Exit(c)
         \/ \E r \in Requests : TurnOff(r)
  <1>1. ASSUME NEW c \in Captures,
               \/ Post(c) \/ Launch(c) \/ SetupStep(c) \/ EndStep(c) \/ StartTick(c)
               \/ \E l \in Loops : LoopStep(c, l)
               \/ \E r \in Requests : UserStop(r, c) \/ TimedStop(r, c) \/ Delete(r, c)
        PROVE  UNCHANGED <<logging, generalLog>> \/ TurnOn(c) \/ Exit(c)
    BY <1>1 DEF Post, Launch, SetupStep, Validate, IpcStarted, WriteStarting, WriteRunning,
         SetStartTime, SetupFails, EndStep, WriteFailed, StartTick, LoopStep, LoopStored, LoopFails,
         MetricsSent, UserStop, TimedStop, Delete, Begin
  <1>2. ASSUME NEW r \in Requests, Deliver(r) \/ NoteStep(r) \/ StopStep(r) \/ ServiceStep(r)
        PROVE  UNCHANGED <<logging, generalLog>> \/ TurnOff(r)
    BY <1>2 DEF Deliver, NoteStep, WriteStopping, Reply, NoteFails, StopStep, Decide, TeardownFails,
         BuildWorkload, BuildMetrics, WriteDone, TimerFails, ServiceStep, Send, Answered, Timeout,
         MarkFailed, DeleteRow
  <1> QED BY <1>1, <1>2 DEF Next, vars

\* Who starts and ends listening.
LEMMA IpcSteps ==
  ASSUME [Next]_vars
  PROVE  \/ ipc' = ipc
         \/ \E c \in Captures : IpcStarted(c) \/ Exit(c)
         \/ \E r \in Requests : BuildMetrics(r)
  <1>1. ASSUME NEW c \in Captures,
               \/ Post(c) \/ Launch(c) \/ SetupStep(c) \/ EndStep(c) \/ StartTick(c)
               \/ \E l \in Loops : LoopStep(c, l)
               \/ \E r \in Requests : UserStop(r, c) \/ TimedStop(r, c) \/ Delete(r, c)
        PROVE  ipc' = ipc \/ IpcStarted(c) \/ Exit(c)
    BY <1>1 DEF Post, Launch, SetupStep, Validate, WriteStarting, TurnOn, WriteRunning,
         SetStartTime, SetupFails, EndStep, WriteFailed, StartTick, LoopStep, LoopStored, LoopFails,
         MetricsSent, UserStop, TimedStop, Delete, Begin
  <1>2. ASSUME NEW r \in Requests, Deliver(r) \/ NoteStep(r) \/ StopStep(r) \/ ServiceStep(r)
        PROVE  ipc' = ipc \/ BuildMetrics(r)
    BY <1>2 DEF Deliver, NoteStep, WriteStopping, Reply, NoteFails, StopStep, Decide, TurnOff,
         TeardownFails, BuildWorkload, WriteDone, TimerFails, ServiceStep, Send, Answered, Timeout,
         MarkFailed, DeleteRow
  <1> QED BY <1>1, <1>2 DEF Next, vars

-----------------------------------------------------------------------------
(* Every step of a calm environment keeps it                                *)

\* Nobody asks for a deletion, and no update of onStop rejects.
LEMMA NothingDeletedKept ==
  ASSUME TypeOK, NothingDeleted, Calm, [Next]_vars
  PROVE  NothingDeleted'
  <1> USE DEF NothingDeleted
  <1>1. ASSUME NEW c \in Captures PROVE row'[c] # "deleted"
    <2>1. ASSUME NEW d \in Captures, RowStep(d) PROVE row'[c] # "deleted"
      BY <2>1 DEF RowStep, Post, WriteStarting, WriteRunning, WriteFailed, SetRow, TypeOK
    <2>2. ASSUME NEW r \in Requests, RowWrite(r) PROVE row'[c] # "deleted"
      BY <2>2 DEF RowWrite, WriteStopping, WriteDone, MarkFailed, DeleteRow, SetRow, TypeOK
    <2> QED BY <2>1, <2>2, RowSteps DEF vars
  <1>2. ASSUME NEW r \in Requests PROVE note'[r] # "failed"
    <2>1. CASE Deliver(r) BY <2>1 DEF Deliver, TypeOK
    <2>2. CASE NoteStep(r) BY <2>2, ZenonT(40) DEF NoteStep, WriteStopping, Reply, NoteFails, TypeOK, Calm
    <2> QED BY <2>1, <2>2, NoteChanges
  <1>3. ASSUME NEW r \in Requests PROVE svc'[r] \notin {"delSend", "delRow"}
    <2>1. CASE Deliver(r) BY <2>1 DEF Deliver
    <2>2. CASE ServiceStep(r)
      BY <2>2 DEF ServiceStep, Send, Answered, Timeout, MarkFailed, DeleteRow, TypeOK
    <2>3. ASSUME NEW c \in Captures, UserStop(r, c) \/ TimedStop(r, c) \/ Delete(r, c)
          PROVE  svc'[r] \notin {"delSend", "delRow"}
      BY <2>3 DEF UserStop, TimedStop, Delete, Begin, Calm, TypeOK
    <2> QED BY <2>1, <2>2, <2>3, ServiceChanges
  <1> QED BY <1>1, <1>2, <1>3

\* The look at the rows waits for the STOPPING update.
LEMMA LooksAfterStoppingKept ==
  ASSUME TypeOK, IInv, LooksAfterStopping, Calm, [Next]_vars
  PROVE  LooksAfterStopping'
  <1> USE DEF LooksAfterStopping, Looked
  <1> SUFFICES ASSUME NEW r \in Requests PROVE stop'[r] \in Looked => note'[r] # "stopping"
    OBVIOUS
  <1>1. CASE Deliver(r) BY <1>1 DEF Deliver, TypeOK
  <1>2. CASE StopStep(r)
    BY <1>2 DEF StopStep, Decide, TurnOff, TeardownFails, BuildWorkload, BuildMetrics, WriteDone,
         TimerFails, Calm, TypeOK
  <1>3. ASSUME NEW c \in Captures, LoopStored(c, r) PROVE stop'[r] \notin Looked
    <2>1. stop'[r] \in {"decide", "failed"} BY <1>3 DEF LoopStored, TypeOK
    <2> QED BY <2>1
  <1>4. CASE stop'[r] = stop[r] /\ NoteStep(r)
    BY <1>4 DEF NoteStep, WriteStopping, Reply, NoteFails, TypeOK
  <1> QED BY <1>1, <1>2, <1>3, <1>4, StopChanges, NoteChanges DEF StopMoves

\* A stop fails where logging was already off, and so the capture over.
LEMMA StoppedIsOverKept ==
  ASSUME TypeOK, IInv, ProgressInv, Calm, [Next]_vars
  PROVE  StoppedIsOver'
  <1> USE DEF ProgressInv, StoppedIsOver
  <1> DEFINE Stopped(s, n) == s = "failed" \/ (s # "idle" /\ n # "stopping")
  <1> SUFFICES ASSUME NEW r \in Requests, Stopped(stop'[r], note'[r])
               PROVE  row'[target'[r]] \notin Pending
    OBVIOUS
  <1> DEFINE c == target[r]
  <1>1. CASE Stopped(stop[r], note[r])
    <2>1. stop[r] # "idle" /\ row[c] \notin Pending BY <1>1
    <2>2. target'[r] = c /\ c \in Captures BY <2>1, TargetKept
    <2>3. setup[c] \in Acked BY <2>1 DEF StopsAfterStart, Acked
    <2> QED BY <2>1, <2>2, <2>3, OverStays
  <1>2. CASE ~Stopped(stop[r], note[r]) /\ stop[r] = "idle"
    <2>1. Deliver(r) BY <1>2, StopBegins
    <2>2. setup[c] \in Started /\ ~logging[c] /\ row' = row /\ target' = target /\ c \in Captures
      <3>1. note'[r] = "stopping" /\ svc[r] # "idle" BY <2>1 DEF Deliver, IInv, StopsBegun, TypeOK
      <3>2. stop'[r] = "failed" BY <3>1
      <3>3. ~LoopCanRun(c) BY <2>1, <3>2 DEF Deliver, TypeOK
      <3> QED BY <2>1, <3>1, <3>3 DEF Deliver, Calm, LoopCanRun, IInv, StopsBegun
    <2> QED BY <2>2 DEF InProgress, Acked
  <1>3. CASE ~Stopped(stop[r], note[r]) /\ stop[r] # "idle"
    <2>1. note[r] = "stopping" /\ stop[r] \notin Looked \cup {"failed"}
      BY <1>3 DEF LooksAfterStopping
    <2>2. target'[r] = c /\ c \in Captures /\ setup[c] \in Started
      BY <1>3, TargetKept DEF StopsAfterStart
    <2>3. CASE stop'[r] = "failed"
      <3>1. ~StopStep(r)
        <4>1. stop[r] \in {"loop", "decide"} BY <1>3, <2>1 DEF Looked, TypeOK
        <4>2. ~TeardownFails(r) /\ ~TimerFails(r) BY DEF TeardownFails, TimerFails, Calm
        <4>3. ~Decide(r) BY <2>3 DEF Decide, TypeOK
        <4> QED BY <4>1, <4>2, <4>3 DEF StopStep, TurnOff, BuildWorkload, BuildMetrics, WriteDone
      <3>2. ~Deliver(r) BY <1>3 DEF Deliver, IInv, StopsBegun
      <3>3. PICK d \in Captures : LoopStored(d, r) BY <2>1, <2>3, <3>1, <3>2, StopChanges DEF StopMoves
      <3>4. d = c BY <3>3 DEF LoopStored, IInv, LoopsOwned
      <3>5. ~logging[c] /\ row' = row BY <2>3, <3>3, <3>4 DEF LoopStored, TypeOK
      <3> QED BY <2>2, <3>5 DEF InProgress, Acked
    <2>4. CASE note'[r] # "stopping"
      <3>1. ~Deliver(r) BY <1>3 DEF Deliver, IInv, StopsBegun
      <3>2. WriteStopping(r) BY <2>1, <2>4, <3>1, NoteChanges DEF NoteStep, Reply, NoteFails, Calm
      <3>3. row'[c] \in {"STOPPING", "deleted"} BY <2>2, <3>2 DEF WriteStopping, SetRow, TypeOK
      <3> QED BY <2>2, <3>3 DEF Pending, Needs
    <2> QED BY <2>3, <2>4
  <1> QED BY <1>1, <1>2, <1>3

\* A user's stop finds nobody listening, or nobody answering, where nothing is in
\* progress any more.
LEMMA MarkedIsOverKept ==
  ASSUME TypeOK, IInv, ProgressInv, Calm, [Next]_vars
  PROVE  MarkedIsOver'
  <1> USE DEF ProgressInv, MarkedIsOver
  <1> DEFINE Marked(r, s, m) == s = "markFailed" \/ (m = "lost" /\ r \in UserStops)
  <1> SUFFICES ASSUME NEW r \in Requests, Marked(r, svc'[r], msg'[r])
               PROVE  row'[target'[r]] \notin Pending
    OBVIOUS
  <1> DEFINE c == target[r]
  <1>1. ASSUME svc[r] # "idle", r \in UserStops
        PROVE  c \in Captures /\ target'[r] = c /\ setup[c] \in Acked
    BY <1>1, ServiceChanges DEF IInv, StopsBegun, StopsAfterSetup
  <1>2. CASE Marked(r, svc[r], msg[r])
    <2>1. svc[r] # "idle" /\ r \in UserStops /\ row[c] \notin Pending BY <1>2 DEF IInv, StopsBegun
    <2> QED BY <2>1, <1>1, OverStays
  <1>3. CASE ~Marked(r, svc[r], msg[r])
    <2>1. ~Deliver(r) BY <1>3 DEF Deliver, TypeOK
    <2>2. ~\E d \in Captures : UserStop(r, d) \/ TimedStop(r, d) \/ Delete(r, d)
      BY <1>3 DEF UserStop, TimedStop, Delete, Begin, TypeOK
    <2>3. ServiceStep(r) BY <1>3, <2>1, <2>2, ServiceChanges
    <2>4. Send(r) \/ Timeout(r)
      BY <1>3, <2>3 DEF ServiceStep, Answered, MarkFailed, DeleteRow, TypeOK
    <2>5. svc[r] # "idle" /\ r \in UserStops /\ row' = row
      BY <1>3, <2>4 DEF Send, Timeout, TypeOK
    <2>6. ~ipc[c] \/ ~Alive(c)
      BY <1>3, <2>4, <2>5 DEF Send, Timeout, TypeOK, Calm, NothingDeleted
    <2> QED BY <1>1, <2>5, <2>6 DEF InProgress, Acked, Started
  <1> QED BY <1>2, <1>3

\* A capture that is over stays so, and nobody but its own loops finds it so.
LEMMA InProgressKept ==
  ASSUME TypeOK, IInv, ProgressInv, Calm, [Next]_vars
  PROVE  InProgress'
  <1> USE DEF ProgressInv
  <1> SUFFICES ASSUME NEW c \in Captures, row'[c] \in Pending
               PROVE  /\ setup'[c] \in {"running"} \cup Acked => logging'[c]
                      /\ setup'[c] \notin {"valid", "ipcStart"} => ipc'[c]
                      /\ setup'[c] # "valid" => Alive(c)'
    BY DEF InProgress
  <1>f. "op" \notin Faults
    BY DEF Calm
  <1>1. CASE row[c] \notin Pending
    <2>1. setup[c] \notin Acked BY <1>1, OverStays
    <2>2. setup[c] \notin Unacked
      <3>1. StoppedEarly(c) => setup[c] \in Acked BY DEF StopsAfterStart, StoppedEarly, Requests, Acked
      <3> QED BY <1>1, <2>1, <3>1 DEF SetupInv, SetupInOrder, NothingDeleted, Pending, Needs
    <2>3. setup[c] = "valid" BY <2>1, <2>2 DEF Acked, Unacked, TypeOK, Started
    <2>4. ASSUME NEW r \in Requests, RowWrite(r) PROVE FALSE
      BY <1>1, <2>4 DEF RowWrite, WriteStopping, WriteDone, MarkFailed, DeleteRow, SetRow, TypeOK, Pending, Needs
    <2>5. PICK d \in Captures : RowStep(d) BY <1>1, <2>4, RowSteps DEF vars
    <2>6. d = c /\ setup' = setup
      BY <1>1, <2>3, <2>5 DEF RowStep, Post, WriteStarting, WriteRunning, WriteFailed, SetRow, TypeOK, Pending, Needs
    <2> QED BY <2>3, <2>6 DEF Acked, Started
  <1>2. CASE row[c] \in Pending
    <2> USE DEF InProgress
    <2>0. /\ proc[c] \notin Ending
          /\ \A r \in Requests : target[r] = c => stop[r] \notin Looked
      BY <1>2 DEF EndingIsOver, LooksAfterStopping, StoppedIsOver, Looked
    <2>1. ASSUME NEW d \in Captures, SetupStep(d), d = c
          PROVE  /\ setup'[c] \in {"running"} \cup Acked => logging'[c]
                 /\ setup'[c] \notin {"valid", "ipcStart"} => ipc'[c]
                 /\ setup'[c] # "valid" => Alive(c)'
      <3> USE DEF TypeOK, Acked, Started, Alive
      <3>1. CASE Validate(d) BY <1>2, <2>1, <3>1 DEF Validate
      <3>2. CASE IpcStarted(d) BY <1>2, <2>1, <3>2 DEF IpcStarted
      <3>3. CASE WriteStarting(d)
        <4>1. ipc[c] /\ Alive(c) BY <1>2, <2>1, <3>3 DEF WriteStarting
        <4>2. setup'[c] = "loggingOn" /\ UNCHANGED <<ipc, proc>> BY <2>1, <3>3 DEF WriteStarting
        <4> QED BY <4>1, <4>2
      <3>4. CASE TurnOn(d)
        <4>1. ipc[c] /\ Alive(c) BY <1>2, <2>1, <3>4 DEF TurnOn
        <4>2. setup'[c] = "running" /\ logging'[c] /\ UNCHANGED <<ipc, proc>> BY <2>1, <3>4 DEF TurnOn
        <4> QED BY <4>1, <4>2
      <3>5. CASE WriteRunning(d) BY <1>2, <2>1, <3>5 DEF WriteRunning
      <3>6. CASE SetStartTime(d) BY <1>2, <2>1, <3>6 DEF SetStartTime
      <3>7. CASE SetupFails(d) BY <1>f, <3>7 DEF SetupFails
      <3> QED BY <2>1, <3>1, <3>2, <3>3, <3>4, <3>5, <3>6, <3>7 DEF SetupStep
    <2>2. ASSUME ~SetupStep(c)
          PROVE  setup'[c] = setup[c] /\ (logging[c] => logging'[c]) /\ (ipc[c] => ipc'[c])
                 /\ (Alive(c) => Alive(c)')
      <3>1. ~Exit(c) BY <2>0 DEF Exit, Calm, Ending
      <3>2. setup'[c] = setup[c]
        <4>1. ASSUME NEW d \in Captures, d # c, SetupStep(d) PROVE setup'[c] = setup[c]
          BY <4>1 DEF SetupStep, Validate, IpcStarted, WriteStarting, TurnOn, WriteRunning, SetStartTime,
               SetupFails, TypeOK
        <4> QED BY <2>2, <4>1, SetupMoves DEF vars
      <3>3. logging[c] => logging'[c]
        <4>1. ASSUME NEW d \in Captures, TurnOn(d) \/ (d # c /\ Exit(d)) PROVE logging[c] => logging'[c]
          BY <4>1 DEF TurnOn, Exit, TypeOK
        <4>2. ASSUME NEW r \in Requests, TurnOff(r) PROVE logging'[c] = logging[c]
          <5>1. target[r] # c BY <2>0, <4>2 DEF TurnOff, Looked
          <5> QED BY <4>2, <5>1, ZenonT(40) DEF TurnOff, TypeOK
        <4> QED BY <3>1, <4>1, <4>2, LoggingSteps
      <3>4. ipc[c] => ipc'[c]
        <4>1. ASSUME NEW d \in Captures, IpcStarted(d) \/ (d # c /\ Exit(d)) PROVE ipc[c] => ipc'[c]
          BY <4>1 DEF IpcStarted, Exit, TypeOK
        <4>2. ASSUME NEW r \in Requests, BuildMetrics(r) PROVE ipc'[c] = ipc[c]
          <5>1. target[r] # c BY <2>0, <4>2 DEF BuildMetrics, Looked
          <5> QED BY <4>2, <5>1, ZenonT(40) DEF BuildMetrics, TypeOK
        <4> QED BY <3>1, <4>1, <4>2, IpcSteps
      <3>5. Alive(c) => Alive(c)'
        <4> USE DEF Alive, TypeOK
        <4>1. ASSUME NEW d \in Captures, Launch(d) PROVE Alive(c) => Alive(c)'
          BY <4>1 DEF Launch
        <4>2. ASSUME NEW d \in Captures, Validate(d) PROVE Alive(c) => Alive(c)'
          <5>1. d # c BY <2>2, <4>2 DEF SetupStep
          <5> QED BY <4>2, <5>1 DEF Validate
        <4>3. ASSUME NEW d \in Captures, WriteFailed(d) \/ Exit(d) PROVE Alive(c) => Alive(c)'
          BY <3>1, <4>3 DEF WriteFailed, Exit
        <4>4. ASSUME NEW d \in Captures, NEW l \in Loops, LoopStored(d, l) PROVE Alive(c) => Alive(c)'
          BY <4>4 DEF LoopStored, SelfDestruct
        <4>5. ASSUME NEW d \in Captures, SetupFails(d) PROVE FALSE
          BY <1>f, <4>5 DEF SetupFails
        <4>6. ASSUME NEW r \in Requests, TeardownFails(r) PROVE FALSE
          BY <1>f, <4>6 DEF TeardownFails
        <4> QED BY <4>1, <4>2, <4>3, <4>4, <4>5, <4>6, ProcSteps DEF EndStep
      <3> QED BY <3>2, <3>3, <3>4, <3>5
    <2> QED BY <1>2, <2>1, <2>2
  <1> QED BY <1>1, <1>2

\* A process ends itself when an extra loop finds logging off, for good.
LEMMA EndingIsOverKept ==
  ASSUME TypeOK, IInv, ProgressInv, Calm, [Next]_vars
  PROVE  EndingIsOver'
  <1> USE DEF ProgressInv, Ending
  <1> SUFFICES ASSUME NEW c \in Captures, proc'[c] \in Ending
               PROVE  IsDone(c)' /\ ~logging'[c] /\ row'[c] \notin Pending
    BY DEF EndingIsOver
  <1>1. CASE proc[c] \in Ending
    <2>1. PICK r \in Requests : target[r] = c /\ stop[r] # "idle"
      BY <1>1 DEF EndingIsOver, IsDone
    <2>2. setup[c] \in Acked BY <2>1 DEF StopsAfterStart, Acked
    <2>3. row'[c] \notin Pending BY <1>1, <2>2, OverStays DEF EndingIsOver
    <2>4. ~logging'[c]
      <3>1. ASSUME NEW d \in Captures, TurnOn(d) \/ Exit(d) PROVE ~logging'[c]
        BY <1>1, <2>2, <3>1 DEF TurnOn, Exit, EndingIsOver, Acked, Started, TypeOK
      <3>2. ASSUME NEW q \in Requests, TurnOff(q) PROVE ~logging'[c]
        BY <1>1, <3>2 DEF TurnOff, EndingIsOver, TypeOK
      <3> QED BY <1>1, <3>1, <3>2, LoggingSteps DEF EndingIsOver
    <2>5. stop'[r] # "idle"
      <3>1. CASE Deliver(r) BY <3>1 DEF Deliver, TypeOK
      <3>2. CASE StopStep(r)
        BY <3>2 DEF StopStep, Decide, TurnOff, TeardownFails, BuildWorkload, BuildMetrics, WriteDone,
             TimerFails, TypeOK
      <3>3. ASSUME NEW d \in Captures, LoopStored(d, r) PROVE stop'[r] # "idle"
        <4>1. stop'[r] \in {"decide", "failed"} BY <3>3 DEF LoopStored, TypeOK
        <4> QED BY <4>1
      <3> QED BY <2>1, <3>1, <3>2, <3>3, StopChanges DEF StopMoves
    <2>6. target'[r] = c BY <2>1, TargetKept
    <2> QED BY <2>3, <2>4, <2>5, <2>6 DEF IsDone
  <1>2. CASE proc[c] \notin Ending
    <2>1. ASSUME NEW d \in Captures, Launch(d) \/ Validate(d) \/ SetupFails(d) \/ EndStep(d) PROVE FALSE
      <3>1. ~SetupFails(d) BY DEF SetupFails, Calm
      <3>2. CASE Launch(d) \/ Validate(d) BY <1>2, <3>2 DEF Launch, Validate, TypeOK
      <3>3. CASE WriteFailed(d) BY <1>2, <3>3 DEF WriteFailed, TypeOK
      <3>4. CASE Exit(d) BY <1>2, <3>4 DEF Exit, TypeOK
      <3> QED BY <2>1, <3>1, <3>2, <3>3, <3>4 DEF EndStep
    <2>2. ~\E r \in Requests : TeardownFails(r) BY DEF TeardownFails, Calm
    <2>3. PICK d \in Captures, l \in Loops : LoopStored(d, l)
      BY <1>2, <2>1, <2>2, ProcSteps
    <2>4. d = c /\ l \in Requests /\ ~logging[c]
      BY <1>2, <2>3 DEF LoopStored, SelfDestruct, TypeOK
    <2>5. target[l] = c /\ stop[l] # "idle" BY <2>3, <2>4 DEF LoopStored, IInv, LoopsOwned
    <2>6. UNCHANGED <<row, logging, target>> /\ stop'[l] = "failed"
      BY <2>3, <2>4 DEF LoopStored, requestVars, TypeOK
    <2>7. row[c] \notin Pending BY <2>4, <2>5 DEF StopsAfterStart, InProgress, Acked
    <2> QED BY <2>4, <2>5, <2>6, <2>7 DEF IsDone
  <1> QED BY <1>1, <1>2

\* Every step keeps all of it.
LEMMA ProgressKept ==
  ASSUME TypeOK, IInv, ProgressInv, Calm, [Next]_vars
  PROVE  ProgressInv'
  <1>1. SetupInv' BY SetupInvKept DEF ProgressInv
  <1>2. "lateAck" \notin Faults BY DEF Calm
  <1> QED BY <1>1, <1>2, NothingDeletedKept, StopsAfterStartKept, LooksAfterStoppingKept, StoppedIsOverKept,
             MarkedIsOverKept, InProgressKept, EndingIsOverKept DEF ProgressInv

\* The log is handed from whoever is in progress to whoever stops, and back.
LEMMA OwnerKept ==
  ASSUME TypeOK, IInv, ProgressInv, LogHasOwner, Calm, [Next]_vars
  PROVE  LogHasOwner'
  <1> USE DEF ProgressInv
  <1> DEFINE Stopping == {"loop", "decide", "turnOff"}
  <1> SUFFICES ASSUME generalLog'
               PROVE  \E c \in Captures :
                        \/ row'[c] \in Needs
                        \/ logging'[c] /\ \E r \in Requests : target'[r] = c /\ stop'[r] \in Stopping
    BY DEF LogHasOwner
  <1>1. ASSUME NEW c \in Captures, TurnOn(c) PROVE row'[c] \in Needs
    <2>1. setup[c] \in Unacked /\ setup[c] = "loggingOn" /\ row' = row BY <1>1 DEF TurnOn, Unacked
    <2>2. ~IsDone(c) BY <2>1 DEF IsDone, StopsAfterStart, Started
    <2>3. row[c] \in Needs \cup {"deleted"} BY <2>1, <2>2 DEF IInv, SetupVisible
    <2> QED BY <2>1, <2>3 DEF NothingDeleted
  <1>2. CASE ~\E c \in Captures : TurnOn(c)
    <2>1. ASSUME NEW r \in Requests PROVE ~TurnOff(r) BY DEF TurnOff
    <2>2. ASSUME NEW c \in Captures, logging[c] PROVE logging'[c]
      <3>1. ASSUME NEW d \in Captures, Exit(d) PROVE logging'[c]
        <4>1. d # c BY <2>2, <3>1 DEF Exit, Calm, EndingIsOver, Ending
        <4> QED BY <2>2, <3>1, <4>1 DEF Exit, TypeOK
      <3> QED BY <1>2, <2>1, <2>2, <3>1, LoggingSteps
    <2>3. generalLog
      <3>1. \A d \in Captures : Exit(d) => generalLog' = generalLog BY DEF Exit
      <3> QED BY <1>2, <2>1, <3>1, LoggingSteps
    <2>4. PICK c \in Captures :
            \/ row[c] \in Needs
            \/ logging[c] /\ \E r \in Requests : target[r] = c /\ stop[r] \in Stopping
      BY <2>3 DEF LogHasOwner
    <2>5. CASE row[c] \in Needs /\ row'[c] \notin Needs
      <3>1. row[c] \in Pending BY <2>5 DEF Pending
      <3>2. ASSUME NEW d \in Captures, RowStep(d) PROVE FALSE
        <4>1. CASE Post(d) BY <2>5, <4>1 DEF Post, TypeOK, Needs
        <4>2. CASE WriteStarting(d) BY <2>5, <4>2 DEF WriteStarting, SetRow, TypeOK, Needs
        <4>3. CASE WriteRunning(d) BY <2>5, <4>3 DEF WriteRunning, SetRow, TypeOK, Needs
        <4>4. CASE WriteFailed(d)
          <5>1. d # c BY <3>1, <4>4 DEF WriteFailed, EndingIsOver, Ending
          <5> QED BY <2>5, <4>4, <5>1 DEF WriteFailed, SetRow, TypeOK
        <4> QED BY <3>2, <4>1, <4>2, <4>3, <4>4 DEF RowStep
      <3>3. PICK r \in Requests : RowWrite(r) BY <2>5, <3>2, RowSteps DEF vars
      <3>4. target[r] = c
        <4>1. \E s : SetRow(target[r], s) \/ row' = [row EXCEPT ![target[r]] = s]
          BY <3>3 DEF RowWrite, WriteStopping, WriteDone, MarkFailed, DeleteRow
        <4> QED BY <2>5, <4>1 DEF SetRow, TypeOK
      <3>5. ~WriteDone(r) /\ ~MarkFailed(r) /\ ~DeleteRow(r)
        BY <3>1, <3>4 DEF WriteDone, MarkFailed, DeleteRow, LooksAfterStopping, Looked, StoppedIsOver,
             MarkedIsOver, NothingDeleted
      <3>6. WriteStopping(r) BY <3>3, <3>5 DEF RowWrite
      <3>7. note[r] = "stopping" /\ stop[r] # "idle" /\ target'[r] = c /\ stop' = stop /\ logging' = logging
        BY <3>4, <3>6 DEF WriteStopping, IInv, StopsBegun, requestVars
      <3>8. stop[r] \in Stopping
        BY <3>1, <3>4, <3>7 DEF LooksAfterStopping, StoppedIsOver, Looked, TypeOK
      <3>9. logging[c] BY <3>1, <3>4, <3>7 DEF StopsAfterStart, InProgress, Acked
      <3> QED BY <3>7, <3>8, <3>9
    <2>6. ASSUME logging[c], NEW r \in Requests, target[r] = c, stop[r] \in Stopping
          PROVE  \E d \in Captures :
                   \/ row'[d] \in Needs
                   \/ logging'[d] /\ \E q \in Requests : target'[q] = d /\ stop'[q] \in Stopping
      <3>1. target'[r] = c /\ logging'[c] BY <2>2, <2>6, TargetKept
      <3>2. CASE stop'[r] = stop[r] BY <2>6, <3>1, <3>2
      <3>3. ASSUME NEW d \in Captures, LoopStored(d, r) PROVE stop'[r] = "decide"
        <4>1. d = c BY <2>6, <3>3 DEF LoopStored, IInv, LoopsOwned
        <4> QED BY <2>6, <3>3, <4>1 DEF LoopStored, TypeOK
      <3>4. CASE Decide(r)
        <4>1. CASE RunningCaptures = {}
          <5>1. stop'[r] = "turnOff" BY <3>4, <4>1 DEF Decide, TypeOK
          <5> QED BY <3>1, <5>1
        <4>2. CASE RunningCaptures # {}
          BY <3>4, <4>2 DEF Decide, RunningCaptures
        <4> QED BY <4>1, <4>2
      <3>5. ~Deliver(r) BY <2>6 DEF Deliver, IInv, StopsBegun
      <3>6. StopStep(r) => Decide(r)
        BY <2>1, <2>6 DEF StopStep, TeardownFails, BuildWorkload, BuildMetrics, WriteDone, TimerFails, Calm
      <3> QED BY <3>1, <3>2, <3>3, <3>4, <3>5, <3>6, StopChanges DEF StopMoves
    <2> QED BY <2>4, <2>5, <2>6
  <1> QED BY <1>1, <1>2

\* There is nothing to say of before the first request.
LEMMA InitProgress == Init => ProgressInv
  <1> SUFFICES ASSUME Init PROVE ProgressInv OBVIOUS
  <1>1. \A c \in Captures : row[c] = "absent" /\ proc[c] = "none" /\ setup[c] = "valid" BY DEF Init
  <1>2. \A r \in Requests : svc[r] = "idle" /\ msg[r] = "none" /\ note[r] = "idle" /\ stop[r] = "idle"
    BY DEF Init
  <1> QED BY <1>1, <1>2, InitSetup DEF ProgressInv, NothingDeleted, StopsAfterStart,
             LooksAfterStopping, Looked, StoppedIsOver, MarkedIsOver, InProgress, Pending, Needs,
             EndingIsOver, Ending

\* However late the loops are and however often a capture is stopped, the general
\* log is not left on by everybody, if nothing else goes wrong and nothing is
\* deleted: a late acknowledgement or a late STOPPING is enough to break it.
THEOREM LogOwned ==
  ASSUME Faults \subseteq {"slowLoop", "double"}, Deletes = {}
  PROVE  Spec => []LogHasOwner
  <1>0. Calm BY DEF Calm
  <1>1. Init => ProgressInv /\ LogHasOwner
    BY InitProgress DEF Init, LogHasOwner
  <1>2. TypeOK /\ IInv /\ ProgressInv /\ LogHasOwner /\ [Next]_vars => ProgressInv' /\ LogHasOwner'
    BY <1>0, ProgressKept, OwnerKept
  <1> QED BY <1>1, <1>2, Typing, Invariance, PTL DEF Spec

-----------------------------------------------------------------------------
(* The status, when nothing fails and nothing is deleted                    *)

\* The row is where setup is, and then where the stop is. Whoever is past the
\* check of the row lives.
RowOfSetup ==
  \A c \in Captures :
    /\ setup[c] \in {"ipcStart", "starting"} => row[c] \in {"STARTED", "SCHEDULED"}
    /\ setup[c] \in {"loggingOn", "running"} => row[c] = "STARTING"
    /\ setup[c] \in {"ack"} \cup Started /\ ~IsDone(c) => row[c] = "RUNNING"
    /\ setup[c] # "valid" => proc[c] = "up"
    /\ setup[c] # "failed"
RowOfStop ==
  \A r \in Requests : stop[r] # "idle" =>
    row[target[r]] = IF note[r] = "stopping" THEN "RUNNING"
                     ELSE IF stop[r] = "over" THEN "DONE" ELSE "STOPPING"

\* A stop finds logging on until it turns it off, and the ipc node listening until
\* the last file is built.
KeptOpen ==
  \A r \in Requests :
    /\ stop[r] \in {"loop", "decide", "turnOff"} => logging[target[r]]
    /\ stop[r] \in {"loop", "decide", "turnOff", "timer", "metrics"} => ipc[target[r]]

NoStopFails ==
  \A r \in Requests :
    stop[r] # "failed" /\ svc[r] # "markFailed" /\ (r \in UserStops => msg[r] # "lost")

StatusInv == RowOfSetup /\ RowOfStop /\ KeptOpen /\ NoStopFails
Quiet == Faults = {} /\ Deletes = {}
QuietInv == TypeOK /\ IInv /\ ProgressInv /\ ResultsInv /\ StatusInv /\ Quiet

\* Quiet is calm.
LEMMA QuietIsCalm == Quiet => Calm
  BY DEF Quiet, Calm

\* A capture's stop is the only one, and before it comes the capture runs.
LEMMA OneStop ==
  ASSUME QuietInv, NEW q \in Requests, NEW r \in Requests,
         svc[q] # "idle" \/ stop[q] # "idle" \/ note[q] = "stopping",
         svc[r] # "idle" \/ stop[r] # "idle" \/ note[r] = "stopping",
         target[q] = target[r]
  PROVE  q = r
  BY DEF QuietInv, TypeOK, IInv, StopsBegun, ResultsInv, OneRequest

LEMMA RunsUntilStopped ==
  ASSUME QuietInv, NEW r \in Requests, svc[r] # "idle", stop[r] = "idle", setup[target[r]] \in Acked
  PROVE  /\ target[r] \in Captures /\ row[target[r]] = "RUNNING"
         /\ logging[target[r]] /\ ipc[target[r]] /\ Alive(target[r])
  <1> DEFINE c == target[r]
  <1>1. c \in Captures BY DEF QuietInv, IInv, StopsBegun
  <1>2. ~IsDone(c) BY OneStop DEF IsDone
  <1>3. setup[c] \in {"ack"} \cup Started BY <1>1 DEF QuietInv, StatusInv, RowOfSetup, Acked
  <1>4. row[c] = "RUNNING" BY <1>1, <1>2, <1>3 DEF QuietInv, StatusInv, RowOfSetup
  <1>5. row[c] \in Pending /\ setup[c] \notin {"valid", "ipcStart"} /\ setup[c] # "valid"
    BY <1>3, <1>4 DEF Pending, Needs, Started
  <1> QED BY <1>1, <1>4, <1>5 DEF QuietInv, ProgressInv, InProgress

\* Without faults no process ends once it has found its row.
LEMMA NobodyEnds ==
  ASSUME QuietInv, [Next]_vars, NEW c \in Captures
  PROVE  /\ proc[c] \notin Ending /\ ~EndStep(c) /\ ~SetupFails(c)
         /\ setup[c] # "valid" => proc'[c] = "up"
  <1> USE DEF QuietInv, TypeOK
  <1>1. proc[c] \notin Ending
    <2>1. proc[c] \in Ending => setup[c] # "valid"
      BY DEF ProgressInv, EndingIsOver, IsDone, StopsAfterStart, Started
    <2> QED BY <2>1 DEF StatusInv, RowOfSetup, Ending
  <1>2. ~EndStep(c) BY <1>1 DEF EndStep, WriteFailed, Exit, Quiet, Ending
  <1>3. \A d \in Captures : ~SetupFails(d) BY DEF SetupFails, Quiet
  <1>4. ASSUME setup[c] # "valid" PROVE proc'[c] = "up"
    <2>0. proc[c] = "up" BY <1>4 DEF StatusInv, RowOfSetup
    <2>1. ASSUME NEW d \in Captures, Launch(d) \/ Validate(d) PROVE proc'[c] = "up"
      BY <1>4, <2>0, <2>1 DEF Launch, Validate
    <2>2. ASSUME NEW d \in Captures, d # c, EndStep(d) PROVE proc'[c] = "up"
      BY <2>0, <2>2 DEF EndStep, WriteFailed, Exit
    <2>3. ASSUME NEW d \in Captures, NEW l \in Loops, LoopStored(d, l) PROVE proc'[c] = "up"
      <3>1. CASE l \notin Requests BY <2>0, <2>3, <3>1 DEF LoopStored
      <3>2. CASE l \in Requests
        <4>1. target[l] = d /\ stop[l] = "loop"
          BY <2>3, <3>2 DEF LoopStored, IInv, LoopsOwned, ResultsInv, ExtraLoops
        <4>2. logging[d] BY <3>2, <4>1 DEF StatusInv, KeptOpen
        <4> QED BY <2>0, <2>3, <3>2, <4>2 DEF LoopStored
      <3> QED BY <3>1, <3>2
    <2>4. ~\E r \in Requests : TeardownFails(r) BY DEF TeardownFails, Quiet
    <2> QED BY <2>0, <1>2, <1>3, <2>1, <2>2, <2>3, <2>4, ProcSteps
  <1> QED BY <1>1, <1>2, <1>3, <1>4

\* A stop that has begun is not undone.
LEMMA DoneStays ==
  ASSUME QuietInv, [Next]_vars, NEW r \in Requests, stop[r] # "idle"
  PROVE  stop'[r] # "idle" /\ target'[r] = target[r]
  <1>0. TypeOK BY DEF QuietInv
  <1>1. ASSUME Deliver(r) PROVE stop'[r] # "idle" BY <1>0, <1>1 DEF Deliver, TypeOK
  <1>2. ASSUME StopStep(r) PROVE stop'[r] # "idle"
    BY <1>0, <1>2 DEF StopStep, Decide, TurnOff, TeardownFails, BuildWorkload, BuildMetrics, WriteDone,
         TimerFails, TypeOK
  <1>3. ASSUME NEW d \in Captures, LoopStored(d, r) PROVE stop'[r] # "idle"
    <2>1. stop'[r] \in {"decide", "failed"} BY <1>0, <1>3 DEF LoopStored, TypeOK
    <2> QED BY <2>1
  <1> QED BY <1>1, <1>2, <1>3, StopChanges, TargetKept, QuietIsCalm DEF StopMoves, QuietInv

\* Setup moves the row as it goes, until the stop comes.
LEMMA RowOfSetupKept ==
  ASSUME QuietInv, [Next]_vars
  PROVE  RowOfSetup'
  <1> USE DEF QuietInv, TypeOK, StatusInv, RowOfSetup
  <1> SUFFICES ASSUME NEW c \in Captures
      PROVE  /\ setup'[c] \in {"ipcStart", "starting"} => row'[c] \in {"STARTED", "SCHEDULED"}
             /\ setup'[c] \in {"loggingOn", "running"} => row'[c] = "STARTING"
             /\ setup'[c] \in {"ack"} \cup Started /\ ~IsDone(c)' => row'[c] = "RUNNING"
             /\ setup'[c] # "valid" => proc'[c] = "up"
             /\ setup'[c] # "failed"
    OBVIOUS
  <1>1. IsDone(c) => IsDone(c)' BY DoneStays DEF IsDone
  <1>0. row[c] # "deleted" BY DEF ProgressInv, NothingDeleted
  <1>2. CASE SetupStep(c)
    <2> USE <1>2 DEF Started
    <2>1. CASE Validate(c)
      <3>1. /\ row' = row
            /\ \/ setup'[c] = "ipcStart" /\ row[c] \in {"STARTED", "SCHEDULED"} /\ proc' = proc
               \/ setup'[c] = "valid"
        BY <2>1 DEF Validate
      <3>2. proc[c] = "up" BY <2>1, NobodyEnds DEF Validate, Alive, Ending
      <3> QED BY <3>1, <3>2
    <2>2. CASE IpcStarted(c)
      <3>1. setup[c] = "ipcStart" /\ setup'[c] = "starting" /\ UNCHANGED <<row, proc>>
        BY <2>2 DEF IpcStarted
      <3> QED BY <3>1
    <2>3. CASE WriteStarting(c)
      <3>1. setup[c] = "starting" /\ setup'[c] = "loggingOn" /\ proc' = proc /\ row'[c] = "STARTING"
        BY <1>0, <2>3 DEF WriteStarting, SetRow
      <3> QED BY <3>1
    <2>4. CASE TurnOn(c)
      <3>1. setup[c] = "loggingOn" /\ setup'[c] = "running" /\ UNCHANGED <<row, proc>>
        BY <2>4 DEF TurnOn
      <3> QED BY <3>1
    <2>5. CASE WriteRunning(c)
      <3>1. setup[c] = "running" /\ setup'[c] = "ack" /\ proc' = proc /\ row'[c] = "RUNNING"
        BY <1>0, <2>5 DEF WriteRunning, SetRow
      <3> QED BY <3>1
    <2>6. CASE SetStartTime(c)
      <3>1. setup[c] \in {"ack", "startTime"} /\ setup'[c] \in {"startTime", "ready"} /\ UNCHANGED <<row, proc>>
        BY <2>6 DEF SetStartTime
      <3> QED BY <3>1, <1>1
    <2> QED BY <2>1, <2>2, <2>3, <2>4, <2>5, <2>6, NobodyEnds DEF SetupStep
  <1>3. CASE ~SetupStep(c)
    <2>1. setup'[c] = setup[c]
      <3>1. ASSUME NEW d \in Captures, d # c, SetupStep(d) PROVE setup'[c] = setup[c]
        BY <3>1 DEF SetupStep, Validate, IpcStarted, WriteStarting, TurnOn, WriteRunning, SetStartTime,
             SetupFails
      <3> QED BY <1>3, <3>1, SetupMoves DEF vars
    <2>2. setup[c] # "valid" => proc'[c] = "up" BY NobodyEnds
    <2>3. row'[c] = row[c] \/ setup[c] = "valid" \/ (setup[c] \in Started /\ IsDone(c))
      <3>1. ASSUME NEW d \in Captures, RowStep(d) PROVE row'[c] = row[c] \/ setup[c] = "valid"
        <4>1. CASE Post(d) BY <4>1 DEF Post, IInv, SetupOrder
        <4>2. CASE WriteStarting(d) \/ WriteRunning(d)
          BY <1>3, <4>2 DEF SetupStep, WriteStarting, WriteRunning, SetRow
        <4>3. CASE WriteFailed(d) BY <4>3, NobodyEnds DEF EndStep
        <4> QED BY <3>1, <4>1, <4>2, <4>3 DEF RowStep
      <3>2. ASSUME NEW r \in Requests, RowWrite(r), row'[c] # row[c]
            PROVE  setup[c] \in Started /\ IsDone(c)
        <4>1. target[r] = c
          <5>1. \E s : SetRow(target[r], s) \/ row' = [row EXCEPT ![target[r]] = s]
            BY <3>2 DEF RowWrite, WriteStopping, WriteDone, MarkFailed, DeleteRow
          <5> QED BY <3>2, <5>1 DEF SetRow
        <4>2. stop[r] # "idle"
          BY <3>2 DEF RowWrite, WriteStopping, WriteDone, MarkFailed, DeleteRow, IInv, StopsBegun, NoStopFails,
               ProgressInv, NothingDeleted
        <4> QED BY <4>1, <4>2 DEF IsDone, ProgressInv, StopsAfterStart
      <3> QED BY <3>1, <3>2, RowSteps DEF vars
    <2> QED BY <1>1, <2>1, <2>2, <2>3 DEF Started
  <1> QED BY <1>2, <1>3

\* The stop moves the row as it goes.
LEMMA RowOfStopKept ==
  ASSUME QuietInv, [Next]_vars
  PROVE  RowOfStop'
  <1> USE DEF QuietInv, TypeOK, StatusInv, RowOfStop
  <1> SUFFICES ASSUME NEW r \in Requests, stop'[r] # "idle"
      PROVE  row'[target'[r]] = IF note'[r] = "stopping" THEN "RUNNING"
                                ELSE IF stop'[r] = "over" THEN "DONE" ELSE "STOPPING"
    OBVIOUS
  <1> DEFINE c == target[r]
  <1>1. CASE stop[r] = "idle"
    <2>1. Deliver(r) BY <1>1, StopBegins, QuietIsCalm
    <2>2. svc[r] # "idle" BY <2>1 DEF Deliver, IInv, StopsBegun
    <2>3. setup[c] \in Acked BY <2>1 DEF Deliver, Quiet, Acked
    <2>4. row[c] = "RUNNING" BY <1>1, <2>2, <2>3, RunsUntilStopped
    <2> QED BY <2>1, <2>4 DEF Deliver
  <1>2. CASE stop[r] # "idle"
    <2>0. /\ target'[r] = c /\ c \in Captures /\ setup[c] \in Started
          /\ svc[r] # "idle" /\ ~Deliver(r) /\ ~NoteFails(r)
      BY <1>2, TargetKept DEF ProgressInv, StopsAfterStart, IInv, StopsBegun, Deliver, NoteFails, Quiet
    <2>1. CASE WriteStopping(r)
      <3>1. /\ note[r] = "stopping" /\ note'[r] = "reply" /\ stop' = stop
            /\ row'[c] = IF row[c] = "deleted" THEN row[c] ELSE "STOPPING"
        BY <2>0, <2>1 DEF WriteStopping, SetRow
      <3>2. stop[r] # "over" /\ row[c] # "deleted"
        BY <2>0, <3>1 DEF ProgressInv, LooksAfterStopping, Looked, NothingDeleted
      <3> QED BY <2>0, <3>1, <3>2
    <2>2. CASE WriteDone(r)
      <3>1. /\ stop[r] = "done" /\ stop'[r] = "over" /\ note' = note
            /\ row'[c] = IF row[c] = "deleted" THEN row[c] ELSE "DONE"
        BY <2>0, <2>2 DEF WriteDone, SetRow
      <3>2. note[r] # "stopping" /\ row[c] # "deleted"
        BY <2>0, <3>1 DEF ProgressInv, LooksAfterStopping, Looked, NothingDeleted
      <3> QED BY <2>0, <3>1, <3>2
    <2>3. CASE ~WriteStopping(r) /\ ~WriteDone(r)
      <3>1. row'[c] = row[c]
        <4>1. ASSUME NEW d \in Captures, RowStep(d) PROVE row'[c] = row[c]
          <5>1. CASE Post(d)
            <6>1. setup[d] = "valid" BY <5>1 DEF Post, IInv, SetupOrder
            <6> QED BY <2>0, <5>1, <6>1 DEF Post, Started
          <5>2. CASE WriteStarting(d) \/ WriteRunning(d)
            BY <2>0, <5>2 DEF WriteStarting, WriteRunning, SetRow, Started
          <5>3. CASE WriteFailed(d) BY <5>3, NobodyEnds DEF EndStep
          <5> QED BY <4>1, <5>1, <5>2, <5>3 DEF RowStep
        <4>2. ASSUME NEW q \in Requests, RowWrite(q) PROVE row'[c] = row[c]
          <5>1. ~MarkFailed(q) /\ ~DeleteRow(q)
            BY DEF MarkFailed, DeleteRow, NoStopFails, ProgressInv, NothingDeleted
          <5>2. WriteStopping(q) \/ WriteDone(q) BY <4>2, <5>1 DEF RowWrite
          <5>3. q # r /\ (stop[q] # "idle" \/ note[q] = "stopping")
            BY <2>3, <5>2 DEF WriteStopping, WriteDone
          <5>4. target[q] # c BY <2>0, <5>3, OneStop
          <5>5. \E s : SetRow(target[q], s) BY <5>2 DEF WriteStopping, WriteDone
          <5> QED BY <5>4, <5>5 DEF SetRow
        <4> QED BY <4>1, <4>2, RowSteps DEF vars
      <3>2. note'[r] = note[r] \/ (note[r] = "reply" /\ note'[r] = "replied")
        BY <2>0, <2>3, NoteChanges DEF NoteStep, Reply
      <3>3. stop'[r] = "over" <=> stop[r] = "over"
        <4>1. ASSUME NEW d \in Captures, LoopStored(d, r) PROVE stop'[r] # "over" /\ stop[r] # "over"
          <5>1. stop'[r] \in {"decide", "failed"} BY <4>1 DEF LoopStored
          <5>2. stop[r] = "loop" BY <4>1 DEF LoopStored, ResultsInv, ExtraLoops
          <5> QED BY <5>1, <5>2
        <4>2. CASE StopStep(r)
          BY <2>3, <4>2 DEF StopStep, Decide, TurnOff, TeardownFails, BuildWorkload, BuildMetrics, TimerFails
        <4> QED BY <2>0, <4>1, <4>2, StopChanges, QuietIsCalm DEF StopMoves
      <3> QED BY <1>2, <2>0, <3>1, <3>2, <3>3
    <2> QED BY <2>1, <2>2, <2>3
  <1> QED BY <1>1, <1>2

\* What a stop needs is taken from it by itself only.
LEMMA KeptOpenKept ==
  ASSUME QuietInv, [Next]_vars
  PROVE  KeptOpen'
  <1> DEFINE Logs    == {"loop", "decide", "turnOff"}
             Listens == Logs \cup {"timer", "metrics"}
  <1>0. TypeOK /\ IInv /\ Calm BY QuietIsCalm DEF QuietInv
  <1> SUFFICES ASSUME NEW r \in Requests, stop'[r] \in Listens
      PROVE  (stop'[r] \in Logs => logging'[target'[r]]) /\ ipc'[target'[r]]
    BY DEF KeptOpen
  <1> DEFINE c == target[r]
  <1>1. CASE stop[r] = "idle"
    <2>1. Deliver(r) BY <1>0, <1>1, StopBegins
    <2>2. svc[r] # "idle" /\ setup[c] \in Acked
      BY <1>0, <2>1 DEF Deliver, IInv, StopsBegun, Acked, QuietInv, Quiet
    <2>3. logging[c] /\ ipc[c] BY <1>1, <2>2, RunsUntilStopped
    <2> QED BY <2>1, <2>3 DEF Deliver
  <1>2. CASE stop[r] # "idle"
    <2>0. target'[r] = c /\ c \in Captures /\ ~Deliver(r)
      BY <1>0, <1>2, TargetKept DEF IInv, StopsBegun, Deliver
    <2>1. (stop'[r] \in Logs => stop[r] \in Logs /\ ~TurnOff(r)) /\ stop[r] \in Listens /\ ~BuildMetrics(r)
      <3>1. CASE stop'[r] = stop[r]
        BY <1>0, <3>1 DEF TurnOff, BuildMetrics, TypeOK
      <3>2. ASSUME NEW d \in Captures, LoopStored(d, r)
            PROVE  stop[r] = "loop" /\ ~TurnOff(r) /\ ~BuildMetrics(r)
        <4>1. stop[r] = "loop" BY <3>2 DEF LoopStored, QuietInv, ResultsInv, ExtraLoops
        <4> QED BY <4>1 DEF TurnOff, BuildMetrics
      <3>3. CASE StopStep(r)
        <4> USE <1>0 DEF TypeOK
        <4>1. CASE Decide(r) BY <4>1 DEF Decide, TurnOff, BuildMetrics
        <4>2. CASE TurnOff(r) BY <4>2 DEF TurnOff, BuildMetrics
        <4>3. CASE BuildWorkload(r) BY <4>3 DEF BuildWorkload, TurnOff, BuildMetrics
        <4>4. ~BuildMetrics(r) /\ ~WriteDone(r) BY DEF BuildMetrics, WriteDone
        <4>5. ~TeardownFails(r) /\ ~TimerFails(r) BY DEF TeardownFails, TimerFails, QuietInv, Quiet
        <4> QED BY <3>3, <4>1, <4>2, <4>3, <4>4, <4>5 DEF StopStep
      <3> QED BY <1>0, <2>0, <3>1, <3>2, <3>3, StopChanges DEF StopMoves
    <2>2. (stop[r] \in Logs => logging[c]) /\ ipc[c]
      BY <2>1 DEF QuietInv, StatusInv, KeptOpen
    <2>3. ~Exit(c) BY <2>0, NobodyEnds DEF EndStep
    <2>4. ASSUME stop'[r] \in Logs PROVE logging'[c]
      <3>1. ASSUME NEW d \in Captures, TurnOn(d) \/ (d # c /\ Exit(d)) PROVE logging'[c]
        <4>1. logging[c] BY <2>1, <2>2, <2>4
        <4>2. CASE TurnOn(d) BY <1>0, <2>0, <4>1, <4>2 DEF TurnOn, TypeOK
        <4>3. CASE d # c /\ Exit(d) BY <1>0, <2>0, <4>1, <4>3 DEF Exit, TypeOK
        <4> QED BY <3>1, <4>2, <4>3
      <3>2. ASSUME NEW q \in Requests, TurnOff(q) PROVE logging'[c]
        <4>1. q # r BY <2>1, <2>4, <3>2
        <4>2. stop[q] # "idle" BY <3>2 DEF TurnOff
        <4>3. target[q] # c BY <1>2, <4>1, <4>2, OneStop
        <4> QED BY <2>1, <2>2, <2>4, <3>2, <4>3, <1>0, <2>0 DEF TurnOff, TypeOK
      <3> QED BY <2>1, <2>2, <2>3, <2>4, <3>1, <3>2, LoggingSteps
    <2>5. ipc'[c]
      <3>1. ASSUME NEW d \in Captures, IpcStarted(d) \/ (d # c /\ Exit(d)) PROVE ipc'[c]
        <4>1. ipc[c] BY <2>2
        <4>2. CASE IpcStarted(d) BY <1>0, <2>0, <4>1, <4>2 DEF IpcStarted, TypeOK
        <4>3. CASE d # c /\ Exit(d) BY <1>0, <2>0, <4>1, <4>3 DEF Exit, TypeOK
        <4> QED BY <3>1, <4>2, <4>3
      <3>2. ASSUME NEW q \in Requests, BuildMetrics(q) PROVE ipc'[c]
        <4>1. q # r BY <2>1, <3>2
        <4>2. stop[q] # "idle" BY <3>2 DEF BuildMetrics
        <4>3. target[q] # c BY <1>2, <4>1, <4>2, OneStop
        <4> QED BY <2>2, <3>2, <4>3, <1>0, <2>0 DEF BuildMetrics, TypeOK
      <3> QED BY <2>2, <2>3, <3>1, <3>2, IpcSteps
    <2> QED BY <2>0, <2>4, <2>5
  <1> QED BY <1>1, <1>2

\* The stop of a running capture finds it logging, listening and alive.
LEMMA NoStopFailsKept ==
  ASSUME QuietInv, [Next]_vars
  PROVE  NoStopFails'
  <1>0. TypeOK /\ IInv /\ Calm BY QuietIsCalm DEF QuietInv
  <1> SUFFICES ASSUME NEW r \in Requests
      PROVE  stop'[r] # "failed" /\ svc'[r] # "markFailed" /\ (r \in UserStops => msg'[r] # "lost")
    BY DEF NoStopFails
  <1>h. stop[r] # "failed" /\ svc[r] # "markFailed" /\ (r \in UserStops => msg[r] # "lost")
    BY DEF QuietInv, StatusInv, NoStopFails
  <1>1. stop'[r] # "failed"
    <2>1. CASE Deliver(r)
      <3>1. svc[r] # "idle" /\ stop[r] = "idle" /\ setup[target[r]] \in Started
        BY <1>0, <2>1 DEF Deliver, IInv, StopsBegun, QuietInv, Quiet
      <3>2. logging[target[r]] BY <3>1, RunsUntilStopped DEF Acked
      <3>3. LoopCanRun(target[r]) BY <3>1, <3>2 DEF LoopCanRun
      <3> QED BY <1>0, <2>1, <3>3 DEF Deliver, TypeOK
    <2>2. ASSUME NEW d \in Captures, LoopStored(d, r) PROVE stop'[r] # "failed"
      <3>1. target[r] = d /\ stop[r] = "loop"
        BY <1>0, <2>2 DEF LoopStored, IInv, LoopsOwned, QuietInv, ResultsInv, ExtraLoops
      <3>2. logging[d] BY <3>1 DEF QuietInv, StatusInv, KeptOpen
      <3> QED BY <1>0, <2>2, <3>2 DEF LoopStored, TypeOK
    <2>3. CASE StopStep(r)
      <3> USE <1>0 DEF TypeOK
      <3>1. CASE Decide(r) BY <3>1 DEF Decide
      <3>2. CASE TurnOff(r) BY <3>2 DEF TurnOff
      <3>3. CASE BuildWorkload(r) BY <3>3 DEF BuildWorkload
      <3>4. CASE BuildMetrics(r)
        <4>1. ipc[target[r]] BY <3>4 DEF BuildMetrics, QuietInv, StatusInv, KeptOpen
        <4> QED BY <3>4, <4>1 DEF BuildMetrics
      <3>5. CASE WriteDone(r) BY <3>5 DEF WriteDone
      <3>6. ~TeardownFails(r) /\ ~TimerFails(r) BY DEF TeardownFails, TimerFails, QuietInv, Quiet
      <3> QED BY <2>3, <3>1, <3>2, <3>3, <3>4, <3>5, <3>6 DEF StopStep
    <2> QED BY <1>0, <1>h, <2>1, <2>2, <2>3, StopChanges DEF StopMoves
  <1>2. svc'[r] # "markFailed" /\ (r \in UserStops => msg'[r] # "lost")
    <2>1. ASSUME r \in UserStops, svc[r] # "idle", stop[r] = "idle"
          PROVE  ipc[target[r]] /\ Alive(target[r])
      BY <1>0, <2>1, RunsUntilStopped DEF IInv, StopsAfterSetup
    <2>2. ASSUME r \in UserStops, svc[r] # "idle" PROVE Alive(target[r])
      <3>1. setup[target[r]] \in Acked /\ target[r] \in Captures
        BY <1>0, <2>2 DEF IInv, StopsAfterSetup, StopsBegun
      <3>2. proc[target[r]] = "up"
        BY <3>1 DEF QuietInv, StatusInv, RowOfSetup, Acked, Started
      <3> QED BY <3>2 DEF Alive
    <2>3. CASE Send(r)
      <3>1. svc[r] # "idle" /\ stop[r] = "idle" BY <1>0, <2>3 DEF Send, IInv, StopsBegun
      <3>2. r \in UserStops => msg'[r] # "lost"
        BY <1>0, <2>1, <2>3, <3>1 DEF Send, TypeOK
      <3> QED BY <1>0, <2>3, <3>2 DEF Send, TypeOK
    <2>4. CASE Timeout(r)
      <3>1. svc[r] # "idle" /\ msg' = msg BY <2>4 DEF Timeout
      <3>2. ASSUME r \in UserStops PROVE FALSE
        <4>1. msg[r] = "sent" /\ ~ipc[target[r]]
          BY <1>h, <2>2, <2>4, <3>1, <3>2 DEF Timeout, QuietInv, Quiet, ProgressInv, NothingDeleted
        <4>2. stop[r] = "idle" BY <1>0, <4>1 DEF IInv, StopsBegun
        <4> QED BY <2>1, <3>1, <3>2, <4>1, <4>2
      <3> QED BY <1>0, <2>4, <3>2 DEF Timeout, TypeOK
    <2>5. CASE Answered(r) \/ MarkFailed(r) \/ DeleteRow(r)
      BY <1>0, <1>h, <2>5 DEF Answered, MarkFailed, DeleteRow, TypeOK
    <2>6. CASE Deliver(r) BY <1>0, <1>h, <2>6 DEF Deliver, TypeOK
    <2>7. ASSUME NEW d \in Captures, UserStop(r, d) \/ TimedStop(r, d) \/ Delete(r, d)
          PROVE  svc'[r] # "markFailed" /\ msg' = msg
      BY <1>0, <2>7 DEF UserStop, TimedStop, Delete, Begin, TypeOK
    <2> QED BY <1>0, <1>h, <2>3, <2>4, <2>5, <2>6, <2>7, ServiceChanges DEF ServiceStep
  <1> QED BY <1>1, <1>2

\* Every step keeps all of it.
LEMMA QuietKept ==
  ASSUME QuietInv, [Next]_vars
  PROVE  ProgressInv' /\ ResultsInv' /\ StatusInv'
  <1>1. TypeOK /\ IInv /\ ProgressInv /\ ResultsInv /\ Calm /\ "double" \notin Faults /\ "slowLoop" \notin Faults
    BY QuietIsCalm DEF QuietInv, Quiet
  <1>2. ProgressInv' BY <1>1, ProgressKept
  <1>3. ResultsInv'
    BY <1>1, OneRequestKept, FilesKept, DoneBuiltKept DEF ResultsInv, FilesInv
  <1>4. StatusInv' BY RowOfSetupKept, RowOfStopKept, KeptOpenKept, NoStopFailsKept DEF StatusInv
  <1> QED BY <1>2, <1>3, <1>4

\* A write of a status is a move of CaptureStatus.
LEMMA RowImplements ==
  ASSUME QuietInv, [Next]_vars, row' # row
  PROVE  Status!Next
  <1> USE DEF Status!Next, Status!Announce, Status!Start, Status!Run, Status!Halt, Status!Finish,
              Status!Move
  <1>0. TypeOK /\ \A c \in Captures : row[c] # "deleted" BY DEF QuietInv, ProgressInv, NothingDeleted
  <1>1. ASSUME NEW c \in Captures, RowStep(c) PROVE Status!Next
    <2>0. Post(c) \/ WriteStarting(c) \/ WriteRunning(c) BY <1>1, NobodyEnds DEF RowStep, EndStep
    <2>1. Results' = Results
      BY <2>0 DEF Results, Post, WriteStarting, WriteRunning, storageVars
    <2>2. CASE Post(c) BY <2>1, <2>2 DEF Post
    <2>3. CASE WriteStarting(c)
      <3>1. row[c] \in {"STARTED", "SCHEDULED"}
        BY <2>3 DEF WriteStarting, QuietInv, StatusInv, RowOfSetup
      <3> QED BY <1>0, <2>1, <2>3, <3>1 DEF WriteStarting, SetRow
    <2>4. CASE WriteRunning(c)
      <3>1. row[c] = "STARTING" BY <2>4 DEF WriteRunning, QuietInv, StatusInv, RowOfSetup
      <3> QED BY <1>0, <2>1, <2>4, <3>1 DEF WriteRunning, SetRow
    <2> QED BY <2>0, <2>2, <2>3, <2>4
  <1>2. ASSUME NEW r \in Requests, RowWrite(r) PROVE Status!Next
    <2> DEFINE c == target[r]
    <2>0. WriteStopping(r) \/ WriteDone(r)
      BY <1>2 DEF RowWrite, MarkFailed, DeleteRow, QuietInv, StatusInv, NoStopFails, ProgressInv, NothingDeleted
    <2>1. Results' = Results
      BY <2>0 DEF Results, WriteStopping, WriteDone, storageVars
    <2>2. stop[r] # "idle"
      BY <2>0 DEF WriteStopping, WriteDone, QuietInv, IInv, StopsBegun
    <2>3. c \in Captures BY <2>2, TargetKept DEF QuietInv
    <2>4. CASE WriteStopping(r)
      <3>1. row[c] = "RUNNING" BY <2>2, <2>4 DEF WriteStopping, QuietInv, StatusInv, RowOfStop
      <3> QED BY <2>1, <2>3, <2>4, <3>1 DEF WriteStopping, SetRow
    <2>5. CASE WriteDone(r)
      <3>1. stop[r] = "done" BY <2>5 DEF WriteDone
      <3>2. row[c] = "STOPPING"
        BY <3>1 DEF QuietInv, StatusInv, RowOfStop, ProgressInv, LooksAfterStopping, Looked
      <3>3. {"workload", "metrics"} \subseteq final[c] /\ stray[c] = {}
        BY <2>3, <3>1 DEF QuietInv, ResultsInv, FinishedBuilt, NoStray
      <3>4. Results[c] = "sealed" BY <1>0, <2>3, <3>3 DEF Results, TypeOK
      <3> QED BY <2>1, <2>3, <2>5, <3>2, <3>4 DEF WriteDone, SetRow
    <2> QED BY <2>0, <2>4, <2>5
  <1> QED BY <1>1, <1>2, RowSteps DEF vars

\* The files of a capture are built while it is STOPPING, and sealed at once.
LEMMA FilesImplement ==
  ASSUME QuietInv, [Next]_vars, row' = row
  PROVE  [Status!Next]_(Status!statusVars)
  <1> USE DEF Status!Next, Status!Seal, Status!statusVars
  <1>0. /\ TypeOK /\ NoStray /\ NoStray' /\ MetricsLast /\ FinishedBuilt
    BY QuietKept DEF QuietInv, ResultsInv
  <1>1. CASE final' = final
    <2>1. Results' = Results BY <1>0, <1>1 DEF Results, NoStray
    <2> QED BY <2>1
  <1>2. ASSUME NEW r \in Requests, BuildWorkload(r) PROVE Results' = Results
    <2> DEFINE c == target[r]
    <2>1. final' = [final EXCEPT ![c] = @ \cup {"workload"}] BY <1>2 DEF BuildWorkload
    <2>2. \A d \in Captures : "metrics" \in final[d] => "workload" \in final[d]
      BY <1>0 DEF MetricsLast
    <2>3. \A d \in Captures : final'[d] = {"workload", "metrics"} <=> final[d] = {"workload", "metrics"}
      BY <1>0, <2>1, <2>2 DEF TypeOK
    <2> QED BY <1>0, <2>3 DEF Results, NoStray
  <1>3. ASSUME NEW r \in Requests, BuildMetrics(r) PROVE [Status!Next]_(Status!statusVars)
    <2> DEFINE c == target[r]
    <2>1. /\ final' = [final EXCEPT ![c] = @ \cup {"metrics"}] /\ stop[r] = "metrics"
          /\ c \in Captures /\ "workload" \in final[c]
      BY <1>0, <1>3, TargetKept DEF BuildMetrics, FinishedBuilt, QuietInv
    <2>2. CASE "metrics" \in final[c]
      <3>1. final' = final BY <1>0, <2>1, <2>2 DEF TypeOK
      <3> QED BY <1>1, <3>1
    <2>3. CASE "metrics" \notin final[c]
      <3>1. row[c] = "STOPPING"
        BY <2>1 DEF QuietInv, StatusInv, RowOfStop, ProgressInv, LooksAfterStopping, Looked
      <3>2. Results[c] = "open" BY <1>0, <2>1, <2>3 DEF Results, NoStray
      <3>3. final'[c] = {"workload", "metrics"} /\ \A d \in Captures : d # c => final'[d] = final[d]
        BY <1>0, <2>1 DEF TypeOK
      <3>4. Results' = [Results EXCEPT ![c] = "sealed"]
        <4> DEFINE Of(f) == [d \in Captures |->
                               IF f[d] = {"workload", "metrics"} THEN "sealed" ELSE "open"]
        <4>1. Results = Of(final) /\ Results' = Of(final') BY <1>0 DEF Results, NoStray
        <4>2. Of(final') = [Of(final) EXCEPT ![c] = "sealed"] BY <2>1, <3>3
        <4> QED BY <4>1, <4>2
      <3> QED BY <2>1, <3>1, <3>2, <3>4
    <2> QED BY <2>2, <2>3
  <1>4. final' = final \/ \E r \in Requests : BuildWorkload(r) \/ BuildMetrics(r)
    <2>3. ASSUME NEW c \in Captures,
                 \/ Post(c) \/ Launch(c) \/ SetupStep(c) \/ EndStep(c) \/ StartTick(c)
                 \/ \E l \in Loops : LoopStep(c, l)
                 \/ \E r \in Requests : UserStop(r, c) \/ TimedStop(r, c) \/ Delete(r, c)
          PROVE  final' = final
      BY <2>3 DEF Post, Launch, SetupStep, Validate, IpcStarted, WriteStarting, TurnOn, WriteRunning,
           SetStartTime, SetupFails, EndStep, WriteFailed, Exit, StartTick, LoopStep, LoopStored,
           LoopFails, MetricsSent, UserStop, TimedStop, Delete, Begin, storageVars
    <2>4. ASSUME NEW r \in Requests, Deliver(r) \/ NoteStep(r) \/ StopStep(r) \/ ServiceStep(r)
          PROVE  final' = final \/ BuildWorkload(r) \/ BuildMetrics(r)
      BY <2>4 DEF Deliver, NoteStep, WriteStopping, Reply, NoteFails, StopStep, Decide, TurnOff,
         TeardownFails, WriteDone, TimerFails, storageVars,
         ServiceStep, Send, Answered, Timeout, MarkFailed, DeleteRow
    <2> QED BY <2>3, <2>4 DEF Next, vars, storageVars
  <1> QED BY <1>1, <1>2, <1>3, <1>4

\* When nothing fails and nothing is deleted, what a reader sees of a capture is what
\* CaptureStatus says: the statuses in their order, DONE with sealed results only.
\* (The safety part of ImplementsStatus; its fairness is TLC's.)
THEOREM StatusImplemented ==
  ASSUME Faults = {}, Deletes = {}
  PROVE  Spec => Status!Spec
  <1>0. Quiet BY DEF Quiet
  <1>1. Init => Status!Init /\ QuietInv
    <2> SUFFICES ASSUME Init PROVE Status!Init /\ QuietInv OBVIOUS
    <2>1. \A c \in Captures : row[c] = "absent" /\ proc[c] = "none" /\ setup[c] = "valid" BY DEF Init
    <2>2. \A r \in Requests : svc[r] = "idle" /\ msg[r] = "none" /\ note[r] = "idle" /\ stop[r] = "idle"
      BY DEF Init
    <2>4. StatusInv
      BY <2>1, <2>2 DEF StatusInv, RowOfSetup, RowOfStop, KeptOpen, NoStopFails, Started
    <2>5. Status!Init
      <3>1. Results = [c \in Captures |-> "open"] BY DEF Init, Results
      <3> QED BY <3>1 DEF Init, Status!Init
    <2> QED BY <1>0, <2>4, <2>5, InitProgress, InitTyped, InitIInv, InitResults DEF QuietInv
  <1>2. QuietInv /\ TypeOK' /\ IInv' /\ [Next]_vars => QuietInv'
    BY <1>0, QuietKept DEF QuietInv
  <1>3. QuietInv /\ [Next]_vars => [Status!Next]_(Status!statusVars)
    BY RowImplements, FilesImplement
  <1> QED BY <1>1, <1>2, <1>3, Typing, Invariance, PTL DEF Spec, Status!Spec

===============================================================================
