------------------------------ MODULE Replay_proofs ------------------------------
(***************************************************************************)
(* Theorems about Replay, for any workload, configuration, lateness and    *)
(* failures.                                                               *)
(***************************************************************************)
EXTENDS Replay, SequenceTheorems, TLAPS

\* A finished loop has found no command left and the replay's time over.
Finishing == {"stopping", "teardown", "build", "done", "endTime", "ipc"}
FinishedAtEnd ==
  /\ \A k \in Loops : loop[k] \in Finishing => finished[k]
  /\ \A k \in Loops : finished[k] => index = Len(workload) /\ Length <= now

\* The commands up to the index have been scheduled, and a timer is at most MaxLate late.
IndexCounts ==
  /\ \A i \in Commands : command[i] = "waiting" <=> index < i
  /\ \A i \in Commands : command[i] = "scheduled" => now <= workload[i] + MaxLate

\* The timer of a teardown comes after those of the commands.
TeardownLast ==
  \A k \in Loops : loop[k] = "teardown" => Length + FilePrepDelay <= due[k]

\* What DoneRanAll needs of the states before DONE.
AllStarted == index = Len(workload) /\ \A i \in Commands : command[i] = "started"
RanAll ==
  /\ \A k \in Loops : loop[k] \in {"build", "done", "endTime", "ipc"} => AllStarted
  /\ row = "DONE" => AllStarted

\* The next command is one for the next tick, or is lost.
NextIsAhead ==
  /\ nextTick <= now + Interval
  /\ firstLook <= now \/ firstLook = Horizon + 1
  /\ setup \in {"starting", "load"} => firstLook = Horizon + 1
  /\ index < Len(workload) /\ firstLook <= Horizon =>
       \/ workload[index + 1] < firstLook
       \/ workload[index + 1] \in gaps
       \/ nextTick <= workload[index + 1]

IInv == FinishedAtEnd /\ IndexCounts /\ TeardownLast /\ RanAll /\ NextIsAhead

-----------------------------------------------------------------------------
(* The types                                                                *)

\* A workload is a sequence of times, in order.
LEMMA WorkloadSorted ==
  ASSUME workload \in Workloads
  PROVE  /\ workload \in Seq(Nat)
         /\ Len(workload) \in Nat
         /\ DOMAIN workload = 1..Len(workload)
         /\ \A i \in Commands : workload[i] \in 0..Length
         /\ \A i, j \in Commands : i <= j => workload[i] <= workload[j]
  <1>1. PICK n \in 0..MaxCommands : workload \in [1..n -> 0..Length]
    BY DEF Workloads
  <1>2. n \in Nat BY <1>1, ReplayAssumption
  <1>3. workload \in Seq(0..Length) /\ Len(workload) = n
    <2>1. workload \in UNION {[1..m -> 0..Length] : m \in Nat} BY <1>1, <1>2
    <2>2. workload \in Seq(0..Length) BY <2>1, SeqDef
    <2>3. DOMAIN workload = 1..n /\ DOMAIN workload = 1..Len(workload) /\ Len(workload) \in Nat
      BY <1>1, <2>2
    <2> QED BY <1>2, <2>2, <2>3
  <1>4. workload \in Seq(Nat) BY <1>3, ReplayAssumption
  <1> QED BY <1>1, <1>2, <1>3, <1>4, ReplayAssumption DEF Workloads, Sorted, Commands

\* The initial state is well typed.
LEMMA InitTyped == Init => TypeOK
  <1> SUFFICES ASSUME Init PROVE TypeOK
    OBVIOUS
  <1>1. Len(workload) \in Nat BY WorkloadSorted DEF Init
  <1>2. command \in [Commands -> {"waiting"}] BY DEF Init
  <1>3. loop \in [Loops -> {"none"}] /\ finished \in [Loops -> {FALSE}]
        /\ due \in [Loops -> {0}] /\ end \in [Loops -> {0}]
    BY DEF Init
  <1>4. 0 \in Nat /\ 0 \in 0..Horizon /\ 0 \in 0..MaxSlow /\ 0 \in 0..MaxRejects
        /\ 0 \in 0..MaxLoops /\ 0 \in 0..(Horizon + Interval) /\ 0 \in 0..Len(workload)
        /\ Horizon + 1 \in 0..(Horizon + 1)
    BY <1>1, ReplayAssumption
  <1> QED BY <1>2, <1>3, <1>4 DEF Init, TypeOK, Clock

\* Measuring keeps the types.
LEMMA MeasureTyped ==
  ASSUME TypeOK, NEW k \in Loops, NEW b \in BOOLEAN, Measure(k, b)
  PROVE  /\ loop' \in [Loops -> {"none", "stopping", "delay", "teardown", "build", "done",
                                 "endTime", "ipc", "over", "threw", "rejected"}]
         /\ due' \in [Loops -> Nat] /\ end' \in [Loops -> Clock] /\ cleared' \in BOOLEAN
  <1>1. now \in Nat /\ now + MetricsDelay \in Nat /\ now + FilePrepDelay \in Nat
    BY ReplayAssumption DEF TypeOK, Clock
  <1> QED BY <1>1 DEF Measure, TypeOK

\* Beginning a loop keeps the types of what it changes.
LEMMA LoopTyped ==
  ASSUME TypeOK, LoopBegins
  PROVE  /\ loop' \in [Loops -> {"none", "stopping", "delay", "teardown", "build", "done",
                                 "endTime", "ipc", "over", "threw", "rejected"}]
         /\ due' \in [Loops -> Nat] /\ end' \in [Loops -> Clock] /\ cleared' \in BOOLEAN
         /\ finished' \in [Loops -> BOOLEAN] /\ count' \in 0..MaxLoops
         /\ index' \in 0..Len(workload)
         /\ command' \in [Commands -> {"waiting", "scheduled", "started"}]
         /\ firstLook' \in 0..(Horizon + 1)
  <1>1. PICK j \in index..Len(workload) :
          /\ Taken(j) /\ Schedule(j)
          /\ Throws(count + 1, j) \/ Finishes(count + 1, j) \/ GoesOn(count + 1, j)
    BY DEF LoopBegins
  <1>2. Len(workload) \in Nat BY WorkloadSorted DEF TypeOK
  <1>3. index' \in 0..Len(workload) /\ firstLook' \in 0..(Horizon + 1)
    BY <1>1, <1>2, ReplayAssumption DEF Schedule, TypeOK, Clock
  <1>4. command' \in [Commands -> {"waiting", "scheduled", "started"}]
    BY <1>1 DEF Schedule, TypeOK
  <1>5. count + 1 \in Loops /\ count' \in 0..MaxLoops
    BY ReplayAssumption DEF LoopBegins, TypeOK, Loops
  <1>6. CASE Throws(count + 1, j) BY <1>3, <1>4, <1>5, <1>6 DEF Throws, TypeOK
  <1>7. CASE Finishes(count + 1, j) BY <1>3, <1>4, <1>5, <1>7 DEF Finishes, TypeOK
  <1>8. CASE GoesOn(count + 1, j)
    BY <1>3, <1>4, <1>5, <1>8, MeasureTyped DEF GoesOn, TypeOK
  <1> QED BY <1>1, <1>6, <1>7, <1>8

\* Each step keeps the types.
LEMMA NextTyped == TypeOK /\ [Next]_vars => TypeOK'
  <1> SUFFICES ASSUME TypeOK, [Next]_vars PROVE TypeOK'
    OBVIOUS
  <1> USE DEF process, time, loops, metrics, looks
  <1>c. Commands' = Commands /\ Len(workload)' = Len(workload)
    BY DEF Commands, Next, vars, Setup, WriteStarting, Load, SetStartTime, WriteRunning, WriteFailed, Exit,
           SetupFails, Tick, Advance, RunCommand, LoopStep, DelayOver, TeardownFires,
           WriteStopping, Build, WriteDone, WriteEndTime, StopIpc, Sent, SendFails, LoopFails
  <1>1. CASE WriteStarting \/ SetStartTime \/ Exit
    BY <1>1, <1>c DEF WriteStarting, SetStartTime, Exit, TypeOK
  <1>2. CASE Load
    <2>1. 0..Interval \subseteq 0..(Horizon + Interval) BY ReplayAssumption
    <2> QED BY <1>2, <1>c, <2>1 DEF Load, TypeOK
  <1>3. CASE WriteRunning BY <1>3, <1>c, LoopTyped DEF WriteRunning, TypeOK
  <1>4. CASE WriteFailed \/ SetupFails
    <2>1. rejects' \in 0..MaxRejects
      BY <1>4, ReplayAssumption DEF WriteFailed, SetupFails, Rejects, TypeOK
    <2> QED BY <1>4, <1>c, <2>1 DEF WriteFailed, SetupFails, TypeOK
  <1>5. CASE Tick
    <2>1. now + Interval \in 0..(Horizon + Interval) /\ nextTick..(now - 1) \subseteq Clock
      BY ReplayAssumption DEF TypeOK, Clock
    <2> QED BY <1>5, <1>c, <2>1, LoopTyped DEF Tick, TypeOK
  <1>6. CASE Advance
    BY <1>6, <1>c, ReplayAssumption DEF Advance, TypeOK, Clock
  <1>7. ASSUME NEW i \in Commands, RunCommand(i) PROVE TypeOK'
    BY <1>7, <1>c DEF RunCommand, TypeOK
  <1>8. ASSUME NEW k \in Loops, LoopStep(k) PROVE TypeOK'
    <2>1. now + FilePrepDelay \in Nat /\ 0 \in Nat
      BY ReplayAssumption DEF TypeOK, Clock
    <2>2. CASE DelayOver(k)
      <3>1. loop' = [loop EXCEPT ![k] = "teardown"] \/ loop' = [loop EXCEPT ![k] = "over"]
        BY <2>2 DEF DelayOver
      <3>2. due' \in [Loops -> Nat] BY <2>1, <2>2 DEF DelayOver, TypeOK
      <3>3. cleared' \in BOOLEAN BY <2>2 DEF DelayOver, TypeOK
      <3>4. sending' \subseteq Loops BY <2>2 DEF DelayOver, TypeOK
      <3>5. UNCHANGED <<workload, row, rejects, setup, ipc, now, slow, nextTick, index, command, count,
                        finished, end, samples, isBuilt, final, firstLook, gaps>>
        BY <2>2 DEF DelayOver
      <3> QED BY <1>c, <3>1, <3>2, <3>3, <3>4, <3>5 DEF TypeOK
    <2>3. CASE TeardownFires(k) BY <2>1, <2>3, <1>c DEF TeardownFires, TypeOK
    <2>4. CASE WriteStopping(k) BY <2>4, <1>c, MeasureTyped DEF WriteStopping, TypeOK
    <2>5. CASE Build(k) BY <2>5, <1>c DEF Build, Goes, TypeOK
    <2>6. CASE WriteDone(k) BY <2>6, <1>c DEF WriteDone, Goes, TypeOK
    <2>7. CASE WriteEndTime(k) BY <2>7, <1>c DEF WriteEndTime, Goes, TypeOK
    <2>8. CASE StopIpc(k) BY <2>8, <1>c DEF StopIpc, Goes, TypeOK
    <2> QED BY <1>8, <2>2, <2>3, <2>4, <2>5, <2>6, <2>7, <2>8 DEF LoopStep
  <1>9. ASSUME NEW k \in Loops, Sent(k) PROVE TypeOK' BY <1>9, <1>c DEF Sent, TypeOK
  <1>10. ASSUME NEW k \in Loops, SendFails(k) \/ LoopFails(k) PROVE TypeOK'
    <2>1. rejects' \in 0..MaxRejects
      BY <1>10, ReplayAssumption DEF SendFails, LoopFails, Rejects, TypeOK
    <2> QED BY SMTT(20), <1>10, <1>c, <2>1 DEF SendFails, LoopFails, Goes, TypeOK
  <1>11. CASE UNCHANGED vars BY <1>11, <1>c DEF vars, TypeOK
  <1> QED BY <1>1, <1>2, <1>3, <1>4, <1>5, <1>6, <1>7, <1>8, <1>9, <1>10, <1>11
          DEF Next, Setup

-----------------------------------------------------------------------------
(* The invariant                                                            *)

\* A look takes the commands up to the first that is not in the interval.
LEMMA LookTakes ==
  ASSUME TypeOK, LoopBegins
  PROVE  \E j \in index..Len(workload) :
           /\ Taken(j) /\ Schedule(j)
           /\ Throws(count + 1, j) \/ Finishes(count + 1, j) \/ GoesOn(count + 1, j)
  BY DEF LoopBegins

\* After a look now, the next command is not before the end of the interval, or it is
\* the one from before and its time has passed.
LEMMA NextAfterLook ==
  ASSUME TypeOK, LoopBegins, UNCHANGED <<workload, now>>, index' < Len(workload)
  PROVE  \/ now + Interval <= workload[index' + 1]
         \/ index' = index /\ workload[index' + 1] < now
  <1>1. PICK j \in index..Len(workload) : Taken(j) /\ Schedule(j)
    BY DEF LoopBegins
  <1>2. index' = j BY <1>1 DEF Schedule
  <1>3. /\ Len(workload) \in Nat
        /\ \A i \in Commands : workload[i] \in 0..Length
        /\ \A i, l \in Commands : i <= l => workload[i] <= workload[l]
    BY WorkloadSorted DEF TypeOK
  <1>4. index \in Nat /\ j \in Nat /\ j < Len(workload) /\ index <= j /\ now \in Nat
    BY <1>2, <1>3 DEF TypeOK, Clock
  <1>5. j + 1 \in Commands /\ workload[j + 1] \in Nat /\ ~InInterval(j + 1)
    BY <1>1, <1>3, <1>4, ReplayAssumption DEF Taken, Commands
  <1>6. CASE j = index
    BY <1>2, <1>4, <1>5, <1>6, ReplayAssumption DEF InInterval
  <1>7. CASE j > index
    <2>1. j \in Commands /\ InInterval(j) /\ workload[j] \in Nat
      BY <1>1, <1>3, <1>4, <1>7, ReplayAssumption DEF Taken, Commands
    <2>2. workload[j] <= workload[j + 1] BY <1>3, <1>4, <1>5, <2>1
    <2> QED BY <1>2, <1>4, <1>5, <2>1, <2>2, ReplayAssumption DEF InInterval
  <1> QED BY <1>4, <1>6, <1>7

\* The first look is the earliest.
LEMMA FirstLookKept ==
  ASSUME TypeOK, NextIsAhead, LoopBegins
  PROVE  /\ firstLook' <= now
         /\ firstLook <= Horizon => firstLook' = firstLook
         /\ ~(firstLook <= Horizon) => firstLook' = now
  BY ReplayAssumption DEF LoopBegins, Schedule, NextIsAhead, TypeOK, Clock

\* Everything but looking and time leaves the next command where it is.
LEMMA NextIsAheadKept == TypeOK /\ NextIsAhead /\ [Next]_vars => NextIsAhead'
  <1> SUFFICES ASSUME TypeOK, NextIsAhead, [Next]_vars PROVE NextIsAhead'
    OBVIOUS
  <1> USE DEF process, time, loops, metrics, looks
  <1>0. /\ now \in Nat /\ nextTick \in Nat /\ index \in Nat /\ firstLook \in Nat
        /\ now <= Horizon
        /\ Len(workload) \in Nat
        /\ \A i \in Commands : workload[i] \in Nat
    BY WorkloadSorted, ReplayAssumption DEF TypeOK, Clock
  <1>a. setup' \in {"starting", "load"} => setup \in {"starting", "load"}
    BY DEF Next, vars, Setup, WriteStarting, Load, SetStartTime, WriteRunning, WriteFailed, Exit,
           SetupFails, Tick, Advance, RunCommand, LoopStep, DelayOver, TeardownFires,
           WriteStopping, Build, WriteDone, WriteEndTime, StopIpc, Sent, SendFails, LoopFails
  <1>1. CASE UNCHANGED <<workload, now, nextTick, index, looks>>
    BY <1>1, <1>a DEF NextIsAhead
  <1>2. CASE Load
    <2>2. nextTick' \in Nat /\ nextTick' <= Interval BY <1>2, ReplayAssumption DEF Load
    <2>3. firstLook = Horizon + 1 BY <1>2 DEF Load, NextIsAhead
    <2> QED BY <1>0, <1>2, <2>2, <2>3, ReplayAssumption DEF Load, NextIsAhead
  <1>3. CASE /\ LoopBegins /\ UNCHANGED <<workload, now, nextTick, gaps>>
             /\ setup' \notin {"starting", "load"}
    <2>1. nextTick' <= now' + Interval BY <1>3 DEF NextIsAhead
    <2>2. firstLook' <= now' BY <1>3, FirstLookKept
    <2>3. ASSUME index' < Len(workload)' , firstLook' <= Horizon
          PROVE  \/ workload'[index' + 1] < firstLook'
                 \/ workload'[index' + 1] \in gaps'
                 \/ nextTick' <= workload'[index' + 1]
      <3>1. index' + 1 \in Commands /\ workload[index' + 1] \in Nat
        BY <1>0, <1>3, <2>3, LoopTyped DEF Commands
      <3>2. CASE now + Interval <= workload[index' + 1]
        BY <1>0, <1>3, <2>1, <3>1, <3>2, ReplayAssumption
      <3>3. CASE index' = index /\ workload[index' + 1] < now
        BY <1>3, <2>3, <3>3, FirstLookKept DEF NextIsAhead
      <3> QED BY <1>3, <2>3, <3>2, <3>3, NextAfterLook
    <2> QED BY <1>3, <2>1, <2>2, <2>3 DEF NextIsAhead
  <1>4. CASE Tick
    <2>1. LoopBegins /\ setup' \notin {"starting", "load"} /\ nextTick <= now /\ nextTick' = now + Interval
          /\ gaps' = gaps \cup nextTick..(now - 1) /\ UNCHANGED <<workload, now>>
      BY <1>4 DEF Tick
    <2>2. firstLook' <= now' BY <2>1, FirstLookKept
    <2>3. ASSUME index' < Len(workload)' , firstLook' <= Horizon
          PROVE  \/ workload'[index' + 1] < firstLook'
                 \/ workload'[index' + 1] \in gaps'
                 \/ nextTick' <= workload'[index' + 1]
      <3>1. index' + 1 \in Commands /\ workload[index' + 1] \in Nat
        BY <1>0, <2>1, <2>3, LoopTyped DEF Commands
      <3>2. CASE now + Interval <= workload[index' + 1]
        BY <2>1, <3>2
      <3>3. CASE index' = index /\ workload[index' + 1] < now
        <4>1. CASE firstLook <= Horizon
          <5>1. firstLook' = firstLook BY <2>1, <4>1, FirstLookKept
          <5>2. \/ workload[index + 1] < firstLook
                \/ workload[index + 1] \in gaps
                \/ nextTick <= workload[index + 1]
            BY <2>1, <2>3, <3>3, <4>1 DEF NextIsAhead
          <5> QED BY <1>0, <2>1, <3>1, <3>3, <5>1, <5>2
        <4>2. CASE ~(firstLook <= Horizon)
          BY <2>1, <3>3, <4>2, FirstLookKept
        <4> QED BY <4>1, <4>2
      <3> QED BY <2>1, <2>3, <3>2, <3>3, NextAfterLook
    <2> QED BY <1>0, <2>1, <2>2, <2>3, ReplayAssumption DEF NextIsAhead
  <1>5. CASE Advance
    BY <1>0, <1>5, ReplayAssumption DEF Advance, NextIsAhead
  <1>6. CASE WriteRunning BY <1>3, <1>6 DEF WriteRunning
  <1> QED BY <1>1, <1>2, <1>4, <1>5, <1>6
          DEF Next, vars, Setup, WriteStarting, SetStartTime, WriteFailed, Exit, SetupFails,
              RunCommand, LoopStep, DelayOver, TeardownFires, WriteStopping, Build,
              WriteDone, WriteEndTime, StopIpc, Sent, SendFails, LoopFails

\* A look that finds the index at the end changes no command.
LEMMA LookAtEnd ==
  ASSUME TypeOK, LoopBegins, index = Len(workload)
  PROVE  index' = index /\ command' = command
  <1>1. PICK j \in index..Len(workload) : Schedule(j) BY DEF LoopBegins
  <1>2. Len(workload) \in Nat /\ j = index BY WorkloadSorted DEF TypeOK
  <1>3. \A i \in Commands : ~(index < i /\ i <= j) BY <1>2 DEF Commands
  <1>4. command' = [i \in Commands |-> command[i]] BY <1>1, <1>3 DEF Schedule
  <1>5. command = [i \in Commands |-> command[i]] BY DEF TypeOK
  <1> QED BY <1>1, <1>2, <1>4, <1>5 DEF Schedule

\* What a loop that begins may become, and when it is a finished one.
LEMMA LoopBecomes ==
  ASSUME TypeOK, LoopBegins
  PROVE  \A k \in Loops :
           /\ \/ loop'[k] = loop[k] /\ finished'[k] = finished[k] /\ due'[k] = due[k]
              \/ loop'[k] \in {"threw", "delay", "over"} /\ finished'[k] = finished[k]
              \/ /\ loop'[k] = "stopping" /\ finished'[k] /\ due'[k] = due[k]
                 /\ index' = Len(workload) /\ Length <= now
  <1>1. PICK j \in index..Len(workload) :
          /\ Schedule(j)
          /\ Throws(count + 1, j) \/ Finishes(count + 1, j) \/ GoesOn(count + 1, j)
    BY DEF LoopBegins
  <1>2. index' = j /\ j \in Nat /\ Len(workload) \in Nat /\ now \in Nat /\ j <= Len(workload)
    BY <1>1, WorkloadSorted DEF Schedule, TypeOK, Clock
  <1>3. CASE Throws(count + 1, j) BY <1>3 DEF Throws, TypeOK
  <1>4. CASE Finishes(count + 1, j)
    <2>1. j = Len(workload) /\ Length <= now
      BY <1>2, <1>4, ReplayAssumption DEF Finishes, NothingLeft, Continue
    <2> QED BY <1>2, <1>4, <2>1 DEF Finishes, TypeOK
  <1>5. CASE GoesOn(count + 1, j) BY <1>5 DEF GoesOn, Measure, TypeOK
  <1> QED BY <1>1, <1>3, <1>4, <1>5

\* A finished loop stays one, and its replay's time over.
LEMMA FinishedAtEndKept == TypeOK /\ FinishedAtEnd /\ [Next]_vars => FinishedAtEnd'
  <1> SUFFICES ASSUME TypeOK, FinishedAtEnd, [Next]_vars PROVE FinishedAtEnd'
    OBVIOUS
  <1> USE DEF process, time, loops, metrics, looks, Finishing
  <1>0. now \in Nat /\ Length \in Nat BY ReplayAssumption DEF TypeOK, Clock
  <1>1. CASE UNCHANGED <<workload, now, index, loop, finished>>
    BY <1>1 DEF FinishedAtEnd
  <1>2. CASE LoopBegins /\ UNCHANGED <<workload, now>>
    <2>1. ASSUME NEW k \in Loops
          PROVE  /\ loop'[k] \in Finishing => finished'[k]
                 /\ finished'[k] => index' = Len(workload)' /\ Length <= now'
      <3>1. finished[k] => index' = Len(workload) /\ Length <= now
        BY <1>2, LookAtEnd DEF FinishedAtEnd
      <3> QED BY <1>2, <3>1, LoopBecomes DEF FinishedAtEnd
    <2> QED BY <2>1 DEF FinishedAtEnd
  <1>3. CASE Advance BY <1>0, <1>3 DEF Advance, FinishedAtEnd
  <1>4. ASSUME NEW k \in Loops, LoopStep(k) \/ LoopFails(k) PROVE FinishedAtEnd'
    <2>1. UNCHANGED <<workload, now, index, finished>>
      BY <1>4 DEF LoopStep, DelayOver, TeardownFires, WriteStopping, Build, WriteDone,
                  WriteEndTime, StopIpc, LoopFails, Goes
    <2>2. ASSUME NEW l \in Loops, loop'[l] \in Finishing PROVE finished[l]
      <3>1. CASE DelayOver(k) BY <2>2, <3>1 DEF DelayOver, FinishedAtEnd, TypeOK
      <3>2. CASE TeardownFires(k) BY <2>2, <3>2 DEF TeardownFires, FinishedAtEnd, TypeOK
      <3>3. CASE WriteStopping(k) BY <2>2, <3>3 DEF WriteStopping, Measure, FinishedAtEnd, TypeOK
      <3>4. CASE Build(k) \/ WriteDone(k) \/ WriteEndTime(k)
        BY <2>2, <3>4 DEF Build, WriteDone, WriteEndTime, Goes, FinishedAtEnd, TypeOK
      <3>5. CASE StopIpc(k) \/ LoopFails(k)
        BY <2>2, <3>5 DEF StopIpc, LoopFails, Goes, FinishedAtEnd, TypeOK
      <3> QED BY <1>4, <3>1, <3>2, <3>3, <3>4, <3>5 DEF LoopStep
    <2> QED BY <2>1, <2>2 DEF FinishedAtEnd
  <1>5. CASE Tick BY <1>2, <1>5 DEF Tick
  <1>6. CASE WriteRunning BY <1>2, <1>6 DEF WriteRunning
  <1> QED BY <1>1, <1>3, <1>4, <1>5, <1>6
          DEF Next, vars, Setup, WriteStarting, Load, SetStartTime, WriteFailed, Exit, SetupFails,
              RunCommand, Sent, SendFails

\* Commands are scheduled by the index, and no timer is left waiting.
LEMMA IndexCountsKept == TypeOK /\ IndexCounts /\ [Next]_vars => IndexCounts'
  <1> SUFFICES ASSUME TypeOK, IndexCounts, [Next]_vars PROVE IndexCounts'
    OBVIOUS
  <1> USE DEF process, time, loops, metrics, looks
  <1>0. /\ now \in Nat /\ index \in Nat /\ MaxLate \in Nat /\ Len(workload) \in Nat
        /\ \A i \in Commands : workload[i] \in Nat /\ i \in Nat
    BY WorkloadSorted, ReplayAssumption DEF TypeOK, Clock, Commands
  <1>1. CASE UNCHANGED <<workload, now, index, command>>
    BY <1>1 DEF IndexCounts, Commands
  <1>2. CASE LoopBegins /\ UNCHANGED <<workload, now>>
    <2>1. PICK j \in index..Len(workload) : Taken(j) /\ Schedule(j)
      BY <1>2 DEF LoopBegins
    <2>2. ASSUME NEW i \in Commands
          PROVE  /\ command'[i] = "waiting" <=> index' < i
                 /\ command'[i] = "scheduled" => now <= workload[i] + MaxLate
      <3>1. index' = j /\ command'[i] = IF index < i /\ i <= j THEN "scheduled" ELSE command[i]
        BY <2>1 DEF Schedule
      <3>2. CASE index < i /\ i <= j
        <4>1. InInterval(i) BY <1>0, <2>1, <3>2 DEF Taken
        <4> QED BY <1>0, <2>1, <3>1, <3>2, <4>1 DEF InInterval
      <3>3. CASE ~(index < i /\ i <= j)
        <4>1. command'[i] = command[i] BY <3>1, <3>3
        <4>2. index < i <=> index' < i BY <1>0, <2>1, <3>1, <3>3
        <4> QED BY <4>1, <4>2 DEF IndexCounts
      <3> QED BY <3>2, <3>3
    <2> QED BY <1>2, <2>2 DEF IndexCounts, Commands
  <1>3. CASE Advance
    <2>1. ASSUME NEW i \in Commands, command[i] = "scheduled"
          PROVE  now + 1 <= workload[i] + MaxLate
      <3>1. workload[i] \in Timers BY <2>1 DEF Timers
      <3>2. now < workload[i] + MaxLate BY <1>3, <3>1 DEF Advance
      <3> QED BY <1>0, <3>2
    <2> QED BY <1>3, <2>1 DEF Advance, IndexCounts, Commands
  <1>4. ASSUME NEW i \in Commands, RunCommand(i) PROVE IndexCounts'
    BY <1>4 DEF RunCommand, IndexCounts, Commands, TypeOK
  <1>5. CASE Tick BY <1>2, <1>5 DEF Tick
  <1>6. CASE WriteRunning BY <1>2, <1>6 DEF WriteRunning
  <1> QED BY <1>1, <1>3, <1>4, <1>5, <1>6
          DEF Next, vars, Setup, WriteStarting, Load, SetStartTime, WriteFailed, Exit, SetupFails,
              Sent, SendFails, LoopFails, Goes, LoopStep, DelayOver, TeardownFires, WriteStopping,
              Build, WriteDone, WriteEndTime, StopIpc

\* A teardown waits filePrepDelay from when the replay's time was over.
LEMMA TeardownLastKept == TypeOK /\ FinishedAtEnd /\ TeardownLast /\ [Next]_vars => TeardownLast'
  <1> SUFFICES ASSUME TypeOK, FinishedAtEnd, TeardownLast, [Next]_vars PROVE TeardownLast'
    OBVIOUS
  <1> USE DEF process, time, loops, metrics, looks
  <1>0. now \in Nat /\ Length \in Nat /\ FilePrepDelay \in Nat
    BY ReplayAssumption DEF TypeOK, Clock
  <1>1. CASE UNCHANGED <<loop, due>> BY <1>1 DEF TeardownLast
  <1>2. CASE LoopBegins BY <1>2, LoopBecomes DEF TeardownLast
  <1>3. ASSUME NEW k \in Loops, LoopStep(k) \/ LoopFails(k) PROVE TeardownLast'
    <2>1. finished[k] => Length + FilePrepDelay <= now + FilePrepDelay
      BY <1>0 DEF FinishedAtEnd
    <2>2. CASE DelayOver(k) BY <2>1, <2>2 DEF DelayOver, TeardownLast, TypeOK
    <2>3. CASE WriteStopping(k)
      <3>1. finished[k] BY <2>3 DEF WriteStopping, FinishedAtEnd, Finishing
      <3> QED BY <2>1, <2>3, <3>1 DEF WriteStopping, Measure, TeardownLast, TypeOK
    <2>4. CASE TeardownFires(k) BY <2>4 DEF TeardownFires, TeardownLast, TypeOK
    <2>5. CASE Build(k) \/ WriteDone(k) \/ WriteEndTime(k) \/ StopIpc(k) \/ LoopFails(k)
      BY <2>5 DEF Build, WriteDone, WriteEndTime, StopIpc, LoopFails, Goes, TeardownLast, TypeOK
    <2> QED BY <1>3, <2>2, <2>3, <2>4, <2>5 DEF LoopStep
  <1>4. CASE Tick \/ WriteRunning BY <1>2, <1>4 DEF Tick, WriteRunning
  <1> QED BY <1>1, <1>3, <1>4
          DEF Next, vars, Setup, WriteStarting, Load, SetStartTime, WriteFailed, Exit, SetupFails,
              RunCommand, Advance, Sent, SendFails

\* When the timer of a teardown fires, those of the commands have.
LEMMA TeardownAfterAll ==
  ASSUME TypeOK, FinishedAtEnd, IndexCounts, TeardownLast, NEW k \in Loops, TeardownFires(k)
  PROVE  AllStarted
  <1>1. index = Len(workload) BY DEF TeardownFires, FinishedAtEnd, Finishing
  <1>2. /\ now \in Nat /\ Len(workload) \in Nat
        /\ \A i \in Commands : workload[i] \in 0..Length
    BY WorkloadSorted DEF TypeOK, Clock
  <1>3. Length + FilePrepDelay <= now
    BY <1>2, ReplayAssumption DEF TeardownFires, TeardownLast, TypeOK
  <1>4. ASSUME NEW i \in Commands PROVE command[i] = "started"
    <2>1. command[i] # "waiting" BY <1>1, <1>2 DEF IndexCounts, Commands
    <2>2. command[i] # "scheduled" BY <1>2, <1>3, ReplayAssumption DEF IndexCounts
    <2> QED BY <2>1, <2>2 DEF TypeOK
  <1> QED BY <1>1, <1>4 DEF AllStarted

\* A teardown that has begun, and a DONE row, have all commands started.
LEMMA RanAllKept ==
  TypeOK /\ FinishedAtEnd /\ IndexCounts /\ TeardownLast /\ RanAll /\ [Next]_vars => RanAll'
  <1> SUFFICES ASSUME TypeOK, FinishedAtEnd, IndexCounts, TeardownLast, RanAll, [Next]_vars
               PROVE  RanAll'
    OBVIOUS
  <1> USE DEF process, time, loops, metrics, looks
  <1>1. AllStarted => AllStarted'
    <2> SUFFICES ASSUME AllStarted PROVE AllStarted'
      OBVIOUS
    <2>1. CASE UNCHANGED <<workload, index, command>> BY <2>1 DEF AllStarted, Commands
    <2>2. CASE LoopBegins /\ UNCHANGED workload
      BY <2>2, LookAtEnd DEF AllStarted, Commands
    <2>3. ASSUME NEW i \in Commands, RunCommand(i) PROVE AllStarted'
      BY <2>3 DEF RunCommand, AllStarted
    <2> QED BY <2>1, <2>2, <2>3
            DEF Next, vars, Setup, WriteStarting, Load, SetStartTime, WriteRunning, WriteFailed,
                Exit, SetupFails, Tick, Advance, Sent, SendFails, LoopFails, LoopStep, DelayOver,
                TeardownFires, WriteStopping, Build, WriteDone, WriteEndTime, StopIpc
  <1> DEFINE Late == {"build", "done", "endTime", "ipc"}
  <1>2. CASE UNCHANGED loop /\ (row' = row \/ row' \in {"STARTING", "FAILED"})
    BY <1>1, <1>2 DEF RanAll
  <1>3. CASE LoopBegins /\ (row' = row \/ row' = "RUNNING")
    <2>1. \A k \in Loops : loop'[k] \in Late => loop[k] \in Late
      BY <1>3, LoopBecomes
    <2> QED BY <1>1, <1>3, <2>1 DEF RanAll
  <1>4. ASSUME NEW k \in Loops, TeardownFires(k) PROVE RanAll'
    BY <1>1, <1>4, TeardownAfterAll DEF RanAll
  <1>5. ASSUME NEW k \in Loops, DelayOver(k) \/ WriteStopping(k) PROVE RanAll'
    <2>1. \A l \in Loops : loop'[l] \in Late => loop[l] \in Late
      BY <1>5 DEF DelayOver, WriteStopping, Measure, TypeOK
    <2>2. row' = row \/ row' = "STOPPING" BY <1>5 DEF DelayOver, WriteStopping
    <2> QED BY <1>1, <2>1, <2>2 DEF RanAll
  <1>6. ASSUME NEW k \in Loops, Build(k) \/ WriteDone(k) \/ WriteEndTime(k) PROVE RanAll'
    <2>1. AllStarted BY <1>6 DEF Build, WriteDone, WriteEndTime, RanAll
    <2> QED BY <1>1, <2>1 DEF RanAll
  <1>7. ASSUME NEW k \in Loops, StopIpc(k) \/ LoopFails(k) PROVE RanAll'
    <2>1. \A l \in Loops : loop'[l] \in Late => loop[l] \in Late
      BY <1>7 DEF StopIpc, LoopFails, Goes, TypeOK
    <2>2. row' = row BY <1>7 DEF StopIpc, LoopFails
    <2> QED BY <1>1, <2>1, <2>2 DEF RanAll
  <1>8. CASE Tick \/ WriteRunning BY <1>3, <1>8 DEF Tick, WriteRunning
  <1> QED BY <1>2, <1>4, <1>5, <1>6, <1>7, <1>8
          DEF Next, vars, Setup, WriteStarting, Load, SetStartTime, WriteFailed, Exit, SetupFails,
              RunCommand, Advance, Sent, SendFails, LoopStep

\* The invariant holds at first.
LEMMA InitInv == Init => IInv
  <1> SUFFICES ASSUME Init PROVE IInv
    OBVIOUS
  <1>1. Len(workload) \in Nat /\ Commands = 1..Len(workload)
    BY WorkloadSorted DEF Init, Commands
  <1>2. \A i \in Commands : command[i] = "waiting" /\ 0 < i BY <1>1 DEF Init
  <1>3. \A k \in Loops : loop[k] = "none" /\ ~finished[k] BY DEF Init
  <1>4. NextIsAhead BY <1>1, ReplayAssumption DEF Init, NextIsAhead
  <1> QED BY <1>2, <1>3, <1>4
          DEF Init, IInv, FinishedAtEnd, IndexCounts, TeardownLast, RanAll, Finishing

\* The types and the invariant hold throughout.
LEMMA Invariance == Spec => [](TypeOK /\ IInv)
  <1>1. Init => TypeOK /\ IInv BY InitTyped, InitInv
  <1>2. TypeOK /\ IInv /\ [Next]_vars => (TypeOK /\ IInv)'
    BY NextTyped, NextIsAheadKept, FinishedAtEndKept, IndexCountsKept, TeardownLastKept,
       RanAllKept DEF IInv
  <1> QED BY <1>1, <1>2, PTL DEF Spec

-----------------------------------------------------------------------------
(* The theorems                                                             *)

\* Every replay is well typed.
THEOREM ReplayTyped == Spec => []TypeOK
  BY Invariance, PTL

\* A replay is DONE only after every command of its workload was started, as long as
\* no timer is as late as filePrepDelay.
THEOREM DoneAfterAll == Spec => []DoneRanAll
  <1>1. IInv => DoneRanAll BY DEF IInv, RanAll, AllStarted, DoneRanAll
  <1> QED BY <1>1, Invariance, PTL

\* A replay that waits for ever waits for a command whose time was over at the first
\* look, or that a late tick passed over.
THEOREM LostInGap == Spec => []OverdueInGap
  <1>1. TypeOK /\ IInv => OverdueInGap
    <2> SUFFICES ASSUME TypeOK, NextIsAhead, Overdue
                 PROVE  \/ workload[index + 1] < firstLook
                        \/ workload[index + 1] \in gaps \cup nextTick..(now - 1)
      BY DEF IInv, OverdueInGap
    <2>1. index + 1 \in Commands
      BY WorkloadSorted DEF Overdue, TypeOK, Commands
    <2>2. workload[index + 1] \in Nat /\ now \in Nat /\ nextTick \in Nat /\ firstLook \in Nat
          /\ now <= Horizon
      BY <2>1, WorkloadSorted, ReplayAssumption DEF TypeOK, Clock
    <2> QED BY <2>2, ReplayAssumption DEF Overdue, NextIsAhead
  <1> QED BY <1>1, Invariance, PTL

-----------------------------------------------------------------------------
(* The metrics                                                              *)

\* What MetricsCover asks for.
OnTime == rejects = 0 /\ slow <= IntervalOverlap /\ slow < FilePrepDelay /\ IntervalOverlap < Length

Covers(k, u) == WindowStart(end[k]) <= u /\ u <= end[k]
Covered(S)   == \A u \in slow..Length : \E k \in S : Covers(k, u)

\* The loops that have metrics, and those whose metrics are sent, or have been due at t.
Measured == {k \in Loops : loop[k] = "delay"} \cup sending \cup samples
Ripe(t)  == {k \in Loops : loop[k] = "delay" /\ due[k] <= t} \cup sending \cup samples

\* A loop has no metrics before it measures, and the final file only those that were sent.
MeasuredOnce ==
  /\ \A k \in Loops : k > count => loop[k] = "none"
  /\ \A k \in Loops : loop[k] \in {"none", "stopping"} => k \notin sending \cup samples
  /\ final \subseteq samples
  /\ \A k \in Loops : loop[k] \in {"done", "endTime", "ipc"} => isBuilt
  /\ row = "DONE" => isBuilt

\* Setup takes no time but lost time.
SetupInTime == setup \in {"starting", "load", "startTime", "running"} => now <= slow

\* Up to an interval before e, what the loops measured covers the replay; or e is so early
\* that the next window reaches back to the beginning.
Reach(e) ==
  \/ e <= Interval + IntervalOverlap
  \/ \A u \in slow..Length : u + Interval <= e => \E k \in Measured : Covers(k, u)

\* Until the whole replay is covered, the next window reaches back far enough: it is that of
\* the next tick, or of a loop that has finished and writes STOPPING.
NextReaches ==
  \/ Covered(Measured)
  \/ \E e \in Nat :
       /\ Reach(e) /\ now <= e + slow
       /\ (~cleared /\ nextTick = e) \/ (\E k \in Loops : loop[k] = "stopping")

\* A finished loop that has measured completes it, and the tear down of another does not come
\* before.
FinishedCovers ==
  /\ \A k \in Loops : finished[k] => loop[k] = "stopping" \/ Covered(Measured)
  /\ cleared => Covered(Measured)

\* The metrics a finished loop relies on are due no later than its own.
DelaysInOrder ==
  /\ \A k \in Loops : loop[k] = "delay" => due[k] <= now + MetricsDelay
  /\ \A k \in Loops : loop[k] = "delay" /\ finished[k] => Covered(Ripe(due[k]))

\* As long as one of them is missing from the depot, the time of the teardown's delay is lost.
Awaited(k, S) ==
  /\ S \subseteq Ripe(now) /\ Covered(S)
  /\ S \subseteq samples \/ now + FilePrepDelay <= slow + due[k]
TeardownWaits == \A k \in Loops : loop[k] = "teardown" => \E S \in SUBSET Loops : Awaited(k, S)

BuiltCovers ==
  /\ \A k \in Loops : loop[k] = "build" => Covered(samples)
  /\ isBuilt => Covered(final)

Covering == /\ NextReaches /\ FinishedCovers /\ DelaysInOrder /\ TeardownWaits /\ BuiltCovers


\* A loop has no metrics before it measures.
LEMMA MeasuredOnceKept == TypeOK /\ MeasuredOnce /\ [Next]_vars => MeasuredOnce'
  <1> SUFFICES ASSUME TypeOK, MeasuredOnce, [Next]_vars PROVE MeasuredOnce'
    OBVIOUS
  <1> USE DEF process, time, loops, metrics, looks
  <1>1. CASE UNCHANGED <<count, loop, isBuilt, final, sending, samples>> /\ (row' = "DONE" => row = "DONE")
    BY <1>1 DEF MeasuredOnce
  <1>2. CASE LoopBegins /\ UNCHANGED <<isBuilt, final, sending, samples>> /\ (row' = "DONE" => row = "DONE")
    <2>1. count' = count + 1 /\ count \in Nat /\ count + 1 \in Loops
      BY <1>2, ReplayAssumption DEF LoopBegins, TypeOK, Loops
    <2>2. \A k \in Loops : k # count + 1 => loop'[k] = loop[k]
      BY <1>2, <2>1 DEF LoopBegins, Throws, Finishes, GoesOn, Measure, TypeOK
    <2>3. loop'[count + 1] \in {"threw", "stopping", "delay", "over"}
      BY <1>2, <2>1 DEF LoopBegins, Throws, Finishes, GoesOn, Measure, TypeOK
    <2>4. \A k \in Loops : k > count + 1 => k > count /\ k # count + 1
      BY <2>1 DEF Loops
    <2>5. loop[count + 1] = "none"
      BY <2>1 DEF MeasuredOnce
    <2> QED BY <1>2, <2>1, <2>2, <2>3, <2>4, <2>5 DEF MeasuredOnce
  <1>3. ASSUME NEW k \in Loops, LoopStep(k) \/ Sent(k) \/ SendFails(k) \/ LoopFails(k) PROVE MeasuredOnce'
    <2>1. loop[k] # "none" => k <= count
      BY DEF MeasuredOnce, TypeOK, Loops
    <2>2. CASE DelayOver(k) \/ TeardownFires(k)
      BY <2>1, <2>2 DEF DelayOver, TeardownFires, MeasuredOnce, TypeOK
    <2>3. CASE WriteStopping(k)
      BY <2>1, <2>3 DEF WriteStopping, Measure, MeasuredOnce, TypeOK
    <2>4. CASE Build(k) \/ WriteDone(k) \/ WriteEndTime(k) \/ StopIpc(k) \/ LoopFails(k)
      BY <2>1, <2>4 DEF Build, WriteDone, WriteEndTime, StopIpc, LoopFails, Goes, MeasuredOnce, TypeOK
    <2>5. CASE Sent(k) \/ SendFails(k)
      BY <2>5 DEF Sent, SendFails, MeasuredOnce
    <2> QED BY <1>3, <2>2, <2>3, <2>4, <2>5 DEF LoopStep
  <1>4. CASE Tick BY <1>2, <1>4 DEF Tick
  <1>5. CASE WriteRunning BY <1>2, <1>5 DEF WriteRunning
  <1> QED BY <1>1, <1>3, <1>4, <1>5
          DEF Next, vars, Setup, WriteStarting, Load, SetStartTime, WriteFailed, Exit, SetupFails,
              RunCommand, Advance

\* The time of setup is lost time.
LEMMA SetupInTimeKept == TypeOK /\ SetupInTime /\ [Next]_vars => SetupInTime'
  <1> SUFFICES ASSUME TypeOK, SetupInTime, [Next]_vars PROVE SetupInTime'
    OBVIOUS
  <1> USE DEF process, time, loops, metrics, looks
  <1>1. CASE Advance
    <2>1. setup \in {"startTime", "running"} => now' = now + 1 /\ slow' = slow + 1
      BY <1>1 DEF Advance, Awaiting
    <2>2. now \in Nat /\ slow \in Nat /\ setup' = setup /\ setup \notin {"starting", "load"}
      BY <1>1, ReplayAssumption DEF Advance, TypeOK, Clock
    <2> QED BY <2>1, <2>2 DEF SetupInTime
  <1>2. CASE UNCHANGED <<now, slow>> /\ (setup' \in {"starting", "load", "startTime", "running"}
                                         => setup \in {"starting", "load", "startTime", "running"})
    BY <1>2 DEF SetupInTime
  <1> QED BY <1>1, <1>2
          DEF Next, vars, Setup, WriteStarting, Load, SetStartTime, WriteRunning, WriteFailed, Exit, SetupFails,
              Tick, RunCommand, LoopStep, DelayOver, TeardownFires, WriteStopping, Build, WriteDone,
              WriteEndTime, StopIpc, Sent, SendFails, LoopFails, Goes

\* Sets of loops that cover the replay go on covering it.
LEMMA CoveredGrows ==
  ASSUME TypeOK, TypeOK', slow <= slow'
  PROVE  /\ Covered(Measured) /\ Measured \subseteq Measured' /\ (\A k \in Measured : end'[k] = end[k])
              => Covered(Measured)'
         /\ Covered(samples) /\ samples \subseteq samples' /\ (\A k \in samples : end'[k] = end[k])
              => Covered(samples)'
         /\ Covered(final) /\ final \subseteq final' /\ (\A k \in final : end'[k] = end[k])
              => Covered(final)'
         /\ \A S : Covered(S) /\ (\A k \in S : end'[k] = end[k]) => Covered(S)'
  <1>1. ASSUME NEW u, NEW k, Covers(k, u), end'[k] = end[k] PROVE Covers(k, u)'
    BY <1>1 DEF Covers, WindowStart
  <1>2. \A u \in slow'..Length : u \in slow..Length
    BY ReplayAssumption DEF TypeOK
  <1> QED BY <1>1, <1>2 DEF Covered

LEMMA RipeGrows ==
  ASSUME TypeOK, TypeOK', slow <= slow', NEW t, Covered(Ripe(t)), Ripe(t) \subseteq Ripe(t)',
         \A k \in Ripe(t) : end'[k] = end[k]
  PROVE  Covered(Ripe(t))'
  <1>1. ASSUME NEW u, NEW k, Covers(k, u), end'[k] = end[k] PROVE Covers(k, u)'
    BY <1>1 DEF Covers, WindowStart
  <1>2. \A u \in slow'..Length : u \in slow..Length
    BY ReplayAssumption DEF TypeOK
  <1> QED BY <1>1, <1>2 DEF Covered

\* A window that is too short is one at the beginning.
LEMMA ShortWindow ==
  ASSUME TypeOK, ~LongEnough
  PROVE  now <= IntervalOverlap
  BY ReplayAssumption DEF LongEnough, WindowStart, TypeOK, Clock

\* A window that ends now reaches back to what is covered.
LEMMA WindowReaches ==
  ASSUME TypeOK, OnTime, NEW e \in Nat, Reach(e), now <= e + slow, NEW u \in slow..Length
  PROVE  WindowStart(now) <= u \/ \E k \in Measured : Covers(k, u)
  <1>1. /\ now \in Nat /\ slow \in Nat /\ u \in Nat /\ slow <= u /\ Interval \in Nat /\ IntervalOverlap \in Nat
        /\ slow <= IntervalOverlap
    BY ReplayAssumption DEF TypeOK, Clock, OnTime
  <1>2. CASE e <= Interval + IntervalOverlap BY <1>1, <1>2 DEF WindowStart
  <1>3. CASE u + Interval <= e BY <1>1, <1>2, <1>3 DEF Reach
  <1>4. CASE ~(u + Interval <= e) BY <1>1, <1>4 DEF WindowStart
  <1> QED BY <1>2, <1>3, <1>4


\* A step that touches one loop, and keeps what has been measured.
LEMMA CoveringKept ==
  ASSUME TypeOK, TypeOK', MeasuredOnce, Covering, UNCHANGED <<now, slow>>, NEW k \in Loops,
         \A l \in Loops \ {k} : /\ loop'[l] = loop[l] /\ finished'[l] = finished[l]
                                /\ due'[l] = due[l] /\ end'[l] = end[l],
         Measured \subseteq Measured', k \in Measured => end'[k] = end[k],
         samples \subseteq samples', \A t \in Nat : Ripe(t) \subseteq Ripe(t)',
         loop'[k] = "delay" => due'[k] <= now + MetricsDelay /\ (finished'[k] => Covered(Ripe(due[k]))'),
         finished'[k] => loop'[k] = "stopping" \/ Covered(Measured)',
         cleared' => Covered(Measured)',
         loop'[k] = "teardown" => \E S \in SUBSET Loops : Awaited(k, S)',
         loop'[k] = "build" => Covered(samples)',
         isBuilt' => Covered(final)',
         NextReaches'
  PROVE  Covering'
  <1>0. /\ Measured \subseteq Loops /\ samples \subseteq Measured /\ \A t : Ripe(t) \subseteq Measured
        /\ now \in Nat /\ \A l \in Loops : due[l] \in Nat
    BY ReplayAssumption DEF TypeOK, Measured, Ripe, Clock
  <1>1. slow <= slow'
    BY ReplayAssumption DEF TypeOK
  <1>2. \A l \in Measured : end'[l] = end[l]
    BY <1>0
  <1>3. Covered(Measured) => Covered(Measured)'
    BY <1>1, <1>2, CoveredGrows
  <1>4. Covered(samples) => Covered(samples)'
    BY <1>0, <1>1, <1>2, CoveredGrows
  <1>5. FinishedCovers'
    <2> SUFFICES ASSUME NEW l \in Loops, finished'[l] PROVE loop'[l] = "stopping" \/ Covered(Measured)'
      BY DEF FinishedCovers
    <2>1. CASE l = k BY <2>1
    <2>2. CASE l # k BY <1>3, <2>2 DEF Covering, FinishedCovers
    <2> QED BY <2>1, <2>2
  <1>6. DelaysInOrder'
    <2>1. ASSUME NEW l \in Loops, loop'[l] = "delay" PROVE due'[l] <= now' + MetricsDelay
      BY <2>1 DEF Covering, DelaysInOrder
    <2>2. ASSUME NEW l \in Loops, loop'[l] = "delay", finished'[l] PROVE Covered(Ripe(due[l]))'
      <3>1. CASE l = k BY <2>2, <3>1
      <3>2. CASE l # k
        <4>1. due'[l] = due[l] /\ due[l] \in Nat /\ Covered(Ripe(due[l]))
          BY <1>0, <2>2, <3>2 DEF Covering, DelaysInOrder
        <4>2. PICK t \in Nat : t = due[l]
          BY <4>1
        <4>3. Covered(Ripe(t)) /\ Ripe(t) \subseteq Ripe(t)' /\ \A m \in Ripe(t) : end'[m] = end[m]
          BY <1>0, <1>2, <4>1, <4>2
        <4>4. Covered(Ripe(t))'
          BY <1>1, <4>3, RipeGrows
        <4>5. t = due'[l]
          BY <4>1, <4>2
        <4> QED BY <4>4, <4>5 DEF Covered, Ripe
      <3> QED BY <3>1, <3>2
    <2> QED BY <2>1, <2>2 DEF DelaysInOrder
  <1>7. TeardownWaits'
    <2> SUFFICES ASSUME NEW l \in Loops, loop'[l] = "teardown" PROVE \E S \in SUBSET Loops : Awaited(l, S)'
      BY DEF TeardownWaits
    <2>1. CASE l = k BY <2>1
    <2>2. CASE l # k
      <3>1. PICK S \in SUBSET Loops : Awaited(l, S)
        BY <2>2 DEF Covering, TeardownWaits
      <3>2. PICK t \in Nat : t = now
        BY <1>0
      <3>3. S \subseteq Ripe(t) /\ Covered(S) /\ (S \subseteq samples \/ now + FilePrepDelay <= slow + due[l])
        BY <3>1, <3>2 DEF Awaited
      <3>4. Ripe(t) \subseteq Ripe(t)' /\ \A m \in S : end'[m] = end[m]
        BY <1>0, <1>2, <3>3
      <3>5. Covered(S)'
        BY <1>1, <3>3, <3>4, CoveredGrows
      <3>6. Ripe(t)' = Ripe(now)'
        <4>1. t = now' BY <3>2
        <4> QED BY <4>1 DEF Ripe
      <3>7. S \subseteq samples' \/ now' + FilePrepDelay <= slow' + due'[l]
        BY <2>2, <3>3
      <3> QED BY <3>3, <3>4, <3>5, <3>6, <3>7 DEF Awaited
    <2> QED BY <2>1, <2>2
  <1>8. BuiltCovers'
    BY <1>4 DEF Covering, BuiltCovers
  <1> QED BY <1>5, <1>6, <1>7, <1>8 DEF Covering

LEMMA CoveringUntouched ==
  ASSUME Covering, UNCHANGED <<now, slow, nextTick, cleared, loop, finished, due, end, sending, samples,
                               isBuilt, final>>
  PROVE  Covering'
  <1>1. Measured' = Measured /\ (\A t : Ripe(t)' = Ripe(t)) /\ (\A k, u : Covers(k, u)' <=> Covers(k, u))
    BY DEF Measured, Ripe, Covers, WindowStart
  <1>2. \A S : Covered(S)' <=> Covered(S)
    BY <1>1 DEF Covered
  <1>3. (Covered(Measured)' <=> Covered(Measured)) /\ (Covered(samples)' <=> Covered(samples))
        /\ (Covered(final)' <=> Covered(final)) /\ \A k \in Loops : Covered(Ripe(due[k]))' <=> Covered(Ripe(due[k]))
    BY <1>1 DEF Covered, Ripe, Measured
  <1>4. NextReaches'
    BY <1>1, <1>3 DEF Covering, NextReaches, Reach
  <1>5. FinishedCovers' /\ DelaysInOrder' /\ BuiltCovers'
    BY <1>3 DEF Covering, FinishedCovers, DelaysInOrder, BuiltCovers
  <1>6. TeardownWaits'
    BY <1>1, <1>2 DEF Covering, TeardownWaits, Awaited, Ripe
  <1> QED BY <1>4, <1>5, <1>6 DEF Covering


\* The next window is still the next one.
LEMMA NextReachesKept ==
  ASSUME TypeOK, TypeOK', NextReaches, UNCHANGED <<now, slow, nextTick>>,
         Measured \subseteq Measured', \A k \in Measured : end'[k] = end[k],
         \A k \in Loops : loop[k] = "stopping" => loop'[k] = "stopping",
         cleared' => cleared \/ Covered(Measured)'
  PROVE  NextReaches'
  <1>1. CASE Covered(Measured)
    <2>1. slow <= slow' BY ReplayAssumption DEF TypeOK
    <2> QED BY <1>1, <2>1, CoveredGrows DEF NextReaches
  <1>2. CASE ~Covered(Measured) /\ ~Covered(Measured)'
    <2>1. PICK e \in Nat :
            /\ Reach(e) /\ now <= e + slow
            /\ (~cleared /\ nextTick = e) \/ (\E k \in Loops : loop[k] = "stopping")
      BY <1>2 DEF NextReaches
    <2>2. \A u, k : k \in Measured /\ Covers(k, u) => k \in Measured' /\ Covers(k, u)'
      BY DEF Covers, WindowStart
    <2>3. Reach(e)'
      BY <2>1, <2>2 DEF Reach
    <2>4. (~cleared' /\ nextTick' = e) \/ (\E k \in Loops : loop'[k] = "stopping")
      BY <1>2, <2>1
    <2> QED BY <2>1, <2>3, <2>4 DEF NextReaches
  <1>3. CASE Covered(Measured)' BY <1>3 DEF NextReaches
  <1> QED BY <1>1, <1>2, <1>3

\* What a loop that begins does.
LEMMA BeginDoes ==
  ASSUME TypeOK, MeasuredOnce, LoopBegins
  PROVE  \E k \in Loops :
           /\ loop[k] = "none" /\ k \notin Measured
           /\ \A l \in Loops \ {k} : /\ loop'[l] = loop[l] /\ finished'[l] = finished[l]
                                     /\ due'[l] = due[l] /\ end'[l] = end[l]
           /\ cleared' = cleared
           /\ \/ loop'[k] = "threw" /\ setup = "startTime" /\ finished'[k] = finished[k]
              \/ loop'[k] = "stopping"
              \/ loop'[k] = "delay" /\ LongEnough /\ end'[k] = now /\ due'[k] = now + MetricsDelay
                                    /\ finished'[k] = finished[k]
              \/ loop'[k] = "over" /\ ~LongEnough /\ finished'[k] = finished[k]
  <1>1. PICK j \in index..Len(workload) :
          Throws(count + 1, j) \/ Finishes(count + 1, j) \/ GoesOn(count + 1, j)
    BY DEF LoopBegins
  <1>2. count + 1 \in Loops /\ count + 1 > count
    BY ReplayAssumption DEF LoopBegins, TypeOK, Loops
  <1>3. loop[count + 1] = "none" /\ count + 1 \notin Measured
    BY <1>2 DEF MeasuredOnce, Measured
  <1>4. /\ \A l \in Loops \ {count + 1} : /\ loop'[l] = loop[l] /\ finished'[l] = finished[l]
                                          /\ due'[l] = due[l] /\ end'[l] = end[l]
        /\ cleared' = cleared
    BY <1>1, <1>2 DEF Throws, Finishes, GoesOn, Measure, TypeOK
  <1>5. \/ loop'[count + 1] = "threw" /\ setup = "startTime" /\ finished'[count + 1] = finished[count + 1]
        \/ loop'[count + 1] = "stopping"
        \/ loop'[count + 1] = "delay" /\ LongEnough /\ end'[count + 1] = now /\ due'[count + 1] = now + MetricsDelay
                                      /\ finished'[count + 1] = finished[count + 1]
        \/ loop'[count + 1] = "over" /\ ~LongEnough /\ finished'[count + 1] = finished[count + 1]
    BY <1>1, <1>2 DEF Throws, Finishes, GoesOn, Measure, TypeOK
  <1> QED BY <1>2, <1>3, <1>4, <1>5

\* A tick's window reaches back to the one before.
LEMMA TickReaches ==
  ASSUME TypeOK, TypeOK', MeasuredOnce, SetupInTime, OnTime, Covering, Tick
  PROVE  NextReaches'
  <1> USE DEF process, time, loops, metrics, looks
  <1>1. UNCHANGED <<now, slow, sending, samples>> /\ ~cleared /\ nextTick' = now + Interval /\ LoopBegins
    BY DEF Tick
  <1>2. PICK k \in Loops :
           /\ loop[k] = "none" /\ k \notin Measured
           /\ \A l \in Loops \ {k} : loop'[l] = loop[l] /\ end'[l] = end[l]
           /\ cleared' = cleared
           /\ \/ loop'[k] = "threw" /\ setup = "startTime"
              \/ loop'[k] = "stopping"
              \/ loop'[k] = "delay" /\ end'[k] = now
              \/ loop'[k] = "over" /\ ~LongEnough
    BY <1>1, BeginDoes
  <1>3. Measured \subseteq Measured' /\ Measured \subseteq Loops /\ \A l \in Measured : end'[l] = end[l]
    BY <1>1, <1>2 DEF Measured, TypeOK
  <1>4. now \in Nat /\ slow \in Nat /\ Interval \in Nat /\ IntervalOverlap \in Nat /\ slow <= IntervalOverlap
        /\ nextTick \in Nat /\ nextTick' \in Nat
    BY <1>1, ReplayAssumption DEF TypeOK, Clock, OnTime
  <1>n. PICK n \in Nat : n = now + Interval /\ nextTick' = n
    BY <1>1, <1>4
  <1>5. \A u, l : l \in Measured /\ Covers(l, u) => l \in Measured' /\ Covers(l, u)'
    BY <1>3 DEF Covers, WindowStart
  <1>6. CASE Covered(Measured)
    BY <1>1, <1>3, <1>4, <1>6, CoveredGrows DEF NextReaches
  <1>7. CASE ~Covered(Measured)
    <2>1. PICK e \in Nat : Reach(e) /\ now <= e + slow
      BY <1>7 DEF Covering, NextReaches
    <2>2. CASE loop'[k] = "stopping"
      <3>1. Reach(e)' BY <1>1, <1>5, <2>1 DEF Reach
      <3> QED BY <1>1, <2>1, <2>2, <3>1 DEF NextReaches
    <2>3. CASE now <= IntervalOverlap
      <3>1. Reach(n)' BY <1>4, <1>n, <2>3 DEF Reach
      <3>2. now' <= n + slow' BY <1>1, <1>4, <1>n
      <3>3. ~cleared' BY <1>1, <1>2
      <3> QED BY <1>n, <3>1, <3>2, <3>3 DEF NextReaches
    <2>4. CASE loop'[k] = "delay" /\ end'[k] = now
      <3>1. ASSUME NEW u \in slow'..Length, u + Interval <= n PROVE \E l \in Measured' : Covers(l, u)'
        <4>1. u \in slow..Length /\ u <= now
          BY <1>1, <1>4, <1>n, <3>1, ReplayAssumption
        <4>2. CASE WindowStart(now) <= u
          <5>1. k \in Measured' /\ Covers(k, u)'
            BY <2>4, <4>1, <4>2 DEF Measured, Covers, WindowStart
          <5> QED BY <5>1
        <4>3. CASE \E l \in Measured : Covers(l, u)
          BY <1>5, <4>3
        <4> QED BY <2>1, <4>1, <4>2, <4>3, WindowReaches
      <3>2. Reach(n)' BY <3>1 DEF Reach
      <3>3. now' <= n + slow' BY <1>1, <1>4, <1>n
      <3>4. ~cleared' BY <1>1, <1>2
      <3> QED BY <1>n, <3>2, <3>3, <3>4 DEF NextReaches
    <2>5. CASE loop'[k] = "threw" /\ setup = "startTime"
      <3>1. now <= IntervalOverlap
        BY <1>4, <2>5 DEF SetupInTime
      <3> QED BY <2>3, <3>1
    <2>6. CASE loop'[k] = "over" /\ ~LongEnough
      BY <2>3, <2>6, ShortWindow
    <2> QED BY <1>2, <2>2, <2>4, <2>5, <2>6
  <1> QED BY <1>6, <1>7

\* A loop begins.
LEMMA BeginCovering ==
  ASSUME TypeOK, TypeOK', MeasuredOnce, SetupInTime, OnTime, Covering, Tick \/ WriteRunning
  PROVE  Covering'
  <1> USE DEF process, time, loops, metrics, looks
  <1>1. UNCHANGED <<now, slow, sending, samples, isBuilt, final>> /\ LoopBegins
    BY DEF Tick, WriteRunning
  <1>2. PICK k \in Loops :
           /\ loop[k] = "none" /\ k \notin Measured
           /\ \A l \in Loops \ {k} : /\ loop'[l] = loop[l] /\ finished'[l] = finished[l]
                                     /\ due'[l] = due[l] /\ end'[l] = end[l]
           /\ cleared' = cleared
           /\ \/ loop'[k] = "threw" /\ finished'[k] = finished[k]
              \/ loop'[k] = "stopping"
              \/ loop'[k] = "delay" /\ due'[k] = now + MetricsDelay /\ finished'[k] = finished[k]
              \/ loop'[k] = "over" /\ finished'[k] = finished[k]
    BY <1>1, BeginDoes
  <1>3. Measured \subseteq Measured' /\ Measured \subseteq Loops /\ \A l \in Measured : end'[l] = end[l]
    BY <1>1, <1>2 DEF Measured, TypeOK
  <1>4. \A t \in Nat : Ripe(t) \subseteq Ripe(t)'
    BY <1>1, <1>2 DEF Ripe
  <1>5. Covered(Measured) => Covered(Measured)'
    <2>1. slow <= slow' BY <1>1, ReplayAssumption DEF TypeOK
    <2> QED BY <1>3, <2>1, CoveredGrows
  <1>6. finished[k] => Covered(Measured)
    BY <1>2 DEF Covering, FinishedCovers
  <1>7. NextReaches'
    <2>1. CASE Tick BY <2>1, TickReaches
    <2>2. CASE WriteRunning
      <3>1. nextTick' = nextTick /\ NextReaches /\ \A l \in Loops : loop[l] = "stopping" => loop'[l] = "stopping"
        BY <1>2, <2>2 DEF WriteRunning, Covering
      <3> QED BY <1>1, <1>2, <1>3, <3>1, NextReachesKept
    <2> QED BY <2>1, <2>2
  <1>8. ASSUME loop'[k] = "delay" PROVE due'[k] <= now + MetricsDelay /\ (finished'[k] => Covered(Ripe(due[k]))')
    <2>1. due'[k] = now + MetricsDelay /\ finished'[k] = finished[k] /\ now + MetricsDelay \in Nat
      BY <1>2, <1>8, ReplayAssumption DEF TypeOK, Clock
    <2>2. Measured' \subseteq Ripe(due[k])'
      <3>1. \A l \in Loops : loop[l] = "delay" => due[l] <= now + MetricsDelay
        BY DEF Covering, DelaysInOrder
      <3>2. \A l \in Loops : loop'[l] = "delay" => due'[l] <= due'[k]
        BY <1>2, <2>1, <3>1
      <3> QED BY <1>1, <3>2 DEF Measured, Ripe
    <2>3. Covered(Measured)' => Covered(Ripe(due[k]))'
      BY <2>2 DEF Covered
    <2> QED BY <1>5, <1>6, <2>1, <2>3
  <1>9. finished'[k] => loop'[k] = "stopping" \/ Covered(Measured)'
    BY <1>2, <1>5, <1>6
  <1>10. cleared' => Covered(Measured)'
    BY <1>2, <1>5 DEF Covering, FinishedCovers
  <1>11. isBuilt' => Covered(final)'
    <2>1. \A l \in final : end'[l] = end[l]
      BY <1>3 DEF MeasuredOnce, Measured
    <2>2. slow <= slow' BY <1>1, ReplayAssumption DEF TypeOK
    <2>3. Covered(final) => Covered(final)' BY <1>1, <2>1, <2>2, CoveredGrows
    <2> QED BY <1>1, <2>3 DEF Covering, BuiltCovers
  <1> QED BY <1>1, <1>2, <1>3, <1>4, <1>7, <1>8, <1>9, <1>10, <1>11, CoveringKept


\* Time passes: while metrics are due or sent, or a loop writes STOPPING, it is lost.
LEMMA AdvanceCovering ==
  ASSUME TypeOK, TypeOK', Covering, Advance
  PROVE  Covering'
  <1> USE DEF process, time, loops, metrics, looks
  <1>1. /\ UNCHANGED <<nextTick, cleared, loop, finished, due, end, sending, samples, isBuilt, final>>
        /\ now' = now + 1 /\ (slow' = slow \/ slow' = slow + 1)
        /\ (Awaiting \/ \E t \in Timers : t <= now) => slow' = slow + 1
    BY DEF Advance
  <1>2. now \in Nat /\ slow \in Nat /\ slow' \in Nat /\ slow <= slow' /\ nextTick \in Nat
    BY <1>1, ReplayAssumption DEF TypeOK, Clock
  <1>3. Measured' = Measured /\ (\A t : Ripe(t)' = Ripe(t)) /\ (\A k, u : Covers(k, u)' <=> Covers(k, u))
    BY <1>1 DEF Measured, Ripe, Covers, WindowStart
  <1>4. /\ Covered(Measured) => Covered(Measured)'
        /\ Covered(samples) => Covered(samples)'
        /\ Covered(final) => Covered(final)'
        /\ \A S : Covered(S) => Covered(S)'
    BY <1>1, <1>2, <1>3, CoveredGrows
  <1>5. NextReaches'
    <2>1. CASE Covered(Measured) BY <1>4, <2>1 DEF NextReaches
    <2>2. CASE ~Covered(Measured)
      <3>1. PICK e \in Nat :
              /\ Reach(e) /\ now <= e + slow
              /\ (~cleared /\ nextTick = e) \/ (\E k \in Loops : loop[k] = "stopping")
        BY <2>2 DEF Covering, NextReaches
      <3>2. \A u \in slow'..Length : u \in slow..Length
        BY <1>2, ReplayAssumption
      <3>3. Reach(e)' BY <1>3, <3>1, <3>2 DEF Reach
      <3>4. now' <= e + slow'
        <4>1. CASE \E k \in Loops : loop[k] = "stopping"
          <5>1. Awaiting BY <4>1 DEF Awaiting
          <5> QED BY <1>1, <1>2, <3>1, <5>1
        <4>2. CASE ~cleared /\ nextTick = e
          <5>1. nextTick \in Timers BY <4>2 DEF Timers
          <5>2. CASE nextTick <= now
            <6>1. slow' = slow + 1 BY <1>1, <5>1, <5>2
            <6> QED BY <1>1, <1>2, <3>1, <6>1
          <5>3. CASE ~(nextTick <= now)
            <6>1. now < e BY <1>2, <3>1, <4>2, <5>3
            <6>2. PICK s \in Nat : s = slow' BY <1>2
            <6>3. now + 1 <= e + s BY <1>2, <6>1
            <6> QED BY <1>1, <6>2, <6>3
          <5> QED BY <5>2, <5>3
        <4> QED BY <3>1, <4>1, <4>2
      <3> QED BY <1>1, <3>1, <3>3, <3>4 DEF NextReaches
    <2> QED BY <2>1, <2>2
  <1>6. FinishedCovers' BY <1>1, <1>4 DEF Covering, FinishedCovers
  <1>7. DelaysInOrder'
    <2>1. ASSUME NEW k \in Loops, loop[k] = "delay" PROVE due'[k] <= now' + MetricsDelay
      <3>1. due[k] \in Nat /\ due[k] <= now + MetricsDelay /\ MetricsDelay \in Nat
        BY <2>1, ReplayAssumption DEF TypeOK, Covering, DelaysInOrder
      <3> QED BY <1>1, <1>2, <3>1
    <2>2. ASSUME NEW k \in Loops, loop[k] = "delay", finished[k] PROVE Covered(Ripe(due[k]))'
      <3>1. PICK t : t = due[k] OBVIOUS
      <3>2. Covered(Ripe(t)) BY <2>2, <3>1 DEF Covering, DelaysInOrder
      <3>3. Covered(Ripe(t))' BY <1>1, <1>2, <1>3, <3>2, RipeGrows
      <3>4. t = due'[k] BY <1>1, <3>1
      <3> QED BY <3>3, <3>4 DEF Covered, Ripe
    <2> QED BY <1>1, <2>1, <2>2 DEF DelaysInOrder
  <1>8. TeardownWaits'
    <2> SUFFICES ASSUME NEW k \in Loops, loop[k] = "teardown" PROVE \E S \in SUBSET Loops : Awaited(k, S)'
      BY <1>1 DEF TeardownWaits
    <2>1. PICK S \in SUBSET Loops : Awaited(k, S)
      BY DEF Covering, TeardownWaits
    <2>2. S \subseteq Ripe(now) /\ Covered(S)' BY <1>4, <2>1 DEF Awaited
    <2>3. \A l \in Loops : due[l] \in Nat BY DEF TypeOK
    <2>4. Ripe(now) \subseteq Ripe(now)' BY <1>1, <1>2, <2>3 DEF Ripe
    <2>5. S \subseteq samples \/ now' + FilePrepDelay <= slow' + due'[k]
      <3>1. CASE S \subseteq samples BY <3>1
      <3>2. CASE ~(S \subseteq samples)
        <4>1. PICK l \in S : l \notin samples BY <3>2
        <4>2. l \in sending \/ (l \in Loops /\ loop[l] = "delay" /\ due[l] <= now)
          BY <2>2, <4>1 DEF Ripe
        <4>3. l \in sending => Awaiting BY DEF Awaiting
        <4>4. loop[l] = "delay" /\ l \in Loops => due[l] \in Timers BY DEF Timers
        <4>5. slow' = slow + 1 BY <1>1, <4>2, <4>3, <4>4
        <4>6. now + FilePrepDelay <= slow + due[k] BY <2>1, <3>2 DEF Awaited
        <4> QED BY <1>1, <1>2, <2>3, <4>5, <4>6, ReplayAssumption
      <3> QED BY <3>1, <3>2
    <2> QED BY <1>1, <2>2, <2>4, <2>5 DEF Awaited
  <1>9. BuiltCovers' BY <1>1, <1>4 DEF Covering, BuiltCovers
  <1> QED BY <1>5, <1>6, <1>7, <1>8, <1>9 DEF Covering


\* A finished loop measures, and completes what is covered.
LEMMA StoppingCovering ==
  ASSUME TypeOK, TypeOK', FinishedAtEnd, MeasuredOnce, OnTime, Covering, NEW k \in Loops, WriteStopping(k)
  PROVE  Covering'
  <1> USE DEF process, time, loops, metrics, looks
  <1>1. Length <= now /\ now \in Nat /\ slow \in Nat /\ Length \in Nat /\ IntervalOverlap < Length /\ finished[k]
        /\ IntervalOverlap \in Nat
    <2>1. finished[k] BY DEF WriteStopping, FinishedAtEnd, Finishing
    <2> QED BY <2>1, ReplayAssumption DEF FinishedAtEnd, OnTime, TypeOK, Clock
  <1>2. LongEnough BY <1>1, ShortWindow
  <1>3. /\ UNCHANGED <<now, slow, nextTick, finished, cleared, sending, samples, isBuilt, final>>
        /\ loop'[k] = "delay" /\ due'[k] = now + MetricsDelay /\ end'[k] = now /\ loop[k] = "stopping"
        /\ \A l \in Loops \ {k} : /\ loop'[l] = loop[l] /\ finished'[l] = finished[l]
                                  /\ due'[l] = due[l] /\ end'[l] = end[l]
    BY <1>2 DEF WriteStopping, Measure, TypeOK
  <1>4. k \notin Measured BY <1>3 DEF MeasuredOnce, Measured
  <1>5. Measured' = Measured \cup {k} /\ Measured \subseteq Loops /\ \A l \in Measured : end'[l] = end[l]
    <2>1. Measured \subseteq Loops BY DEF Measured, TypeOK
    <2>2. k \in Measured' BY <1>3 DEF Measured
    <2>3. ASSUME NEW l \in Loops \ {k} PROVE l \in Measured' <=> l \in Measured
      BY <1>3 DEF Measured
    <2>4. Measured' \subseteq Loops BY DEF Measured, TypeOK
    <2>5. \A l \in Measured : l \in Loops \ {k} BY <1>4, <2>1
    <2> QED BY <1>3, <2>1, <2>2, <2>3, <2>4, <2>5
  <1>6. \A u, l : l \in Measured /\ Covers(l, u) => Covers(l, u)'
    BY <1>5 DEF Covers, WindowStart
  <1>7. Covered(Measured)'
    <2>1. CASE Covered(Measured)
      <3>1. slow <= slow' BY <1>1, <1>3
      <3> QED BY <1>5, <2>1, <3>1, CoveredGrows
    <2>2. CASE ~Covered(Measured)
      <3>1. PICK e \in Nat : Reach(e) /\ now <= e + slow
        BY <2>2 DEF Covering, NextReaches
      <3>2. ASSUME NEW u \in slow..Length PROVE \E l \in Measured' : Covers(l, u)'
        <4>1. CASE WindowStart(now) <= u
          <5>1. u <= now BY <1>1
          <5>2. k \in Measured' /\ Covers(k, u)'
            BY <1>3, <1>5, <4>1, <5>1 DEF Covers, WindowStart
          <5> QED BY <5>2
        <4>2. CASE \E l \in Measured : Covers(l, u) BY <1>5, <1>6, <4>2
        <4> QED BY <3>1, <4>1, <4>2, WindowReaches
      <3> QED BY <1>3, <3>2 DEF Covered
    <2> QED BY <2>1, <2>2
  <1>8. Covered(Ripe(due[k]))'
    <2>1. \A l \in Loops : loop[l] = "delay" => due[l] <= now + MetricsDelay
      BY DEF Covering, DelaysInOrder
    <2>2. now + MetricsDelay \in Nat BY <1>1, ReplayAssumption
    <2>3. \A l \in Loops : loop'[l] = "delay" => due'[l] <= due'[k]
      BY <1>3, <2>1, <2>2
    <2>4. Measured' \subseteq Ripe(due[k])' BY <1>3, <2>3 DEF Measured, Ripe
    <2> QED BY <1>7, <2>4 DEF Covered
  <1>9. \A t \in Nat : Ripe(t) \subseteq Ripe(t)' BY <1>3 DEF Ripe
  <1>10. due'[k] <= now + MetricsDelay BY <1>1, <1>3, ReplayAssumption
  <1>11. isBuilt' => Covered(final)'
    <2>1. \A l \in final : end'[l] = end[l]
      BY <1>5 DEF MeasuredOnce, Measured
    <2>2. slow <= slow' BY <1>1, <1>3
    <2>3. Covered(final) => Covered(final)' BY <1>3, <2>1, <2>2, CoveredGrows
    <2> QED BY <1>3, <2>3 DEF Covering, BuiltCovers
  <1>12. NextReaches' BY <1>7 DEF NextReaches
  <1> QED BY <1>3, <1>4, <1>5, <1>7, <1>8, <1>9, <1>10, <1>11, <1>12, CoveringKept

\* metricsDelay is over: what a finished loop relies on has been due as well.
LEMMA DelayOverCovering ==
  ASSUME TypeOK, TypeOK', MeasuredOnce, Covering, NEW k \in Loops, DelayOver(k)
  PROVE  Covering'
  <1> USE DEF process, time, loops, metrics, looks
  <1>1. /\ UNCHANGED <<now, slow, nextTick, finished, end, samples, isBuilt, final>>
        /\ loop[k] = "delay" /\ due[k] <= now /\ sending' = sending \cup {k}
        /\ loop'[k] = (IF finished[k] THEN "teardown" ELSE "over")
        /\ finished[k] => due'[k] = now + FilePrepDelay
        /\ cleared' => cleared \/ finished[k]
        /\ \A l \in Loops \ {k} : /\ loop'[l] = loop[l] /\ finished'[l] = finished[l]
                                  /\ due'[l] = due[l] /\ end'[l] = end[l]
    BY DEF DelayOver, TypeOK
  <1>2. now \in Nat /\ slow \in Nat /\ slow <= slow' /\ FilePrepDelay \in Nat /\ \A l \in Loops : due[l] \in Nat
    BY <1>1, ReplayAssumption DEF TypeOK, Clock
  <1>3. Measured' = Measured BY <1>1 DEF Measured
  <1>4. \A t \in Nat : Ripe(t) \subseteq Ripe(t)' BY <1>1 DEF Ripe
  <1>5. Covered(Measured) => Covered(Measured)'
    BY <1>1, <1>2, <1>3, CoveredGrows
  <1>6. finished[k] => Covered(Measured)
    BY <1>1 DEF Covering, FinishedCovers
  <1>7. cleared' => Covered(Measured)'
    BY <1>1, <1>5, <1>6 DEF Covering, FinishedCovers
  <1>8. NextReaches'
    <2>1. \A l \in Loops : loop[l] = "stopping" => loop'[l] = "stopping" BY <1>1
    <2>2. NextReaches BY DEF Covering
    <2>3. (\A l \in Measured : end'[l] = end[l]) /\ Measured \subseteq Measured' BY <1>1, <1>3
    <2>4. cleared' => cleared \/ Covered(Measured)' BY <1>7
    <2> QED BY <1>1, <2>1, <2>2, <2>3, <2>4, NextReachesKept
  <1>9. ASSUME loop'[k] = "teardown" PROVE \E S \in SUBSET Loops : Awaited(k, S)'
    <2>1. finished[k] BY <1>1, <1>9
    <2>2. Covered(Ripe(due[k])) BY <1>1, <2>1 DEF Covering, DelaysInOrder
    <2>3. Ripe(due[k]) \subseteq Ripe(now)' BY <1>1, <1>2 DEF Ripe
    <2>4. PICK S : S = Ripe(due[k]) OBVIOUS
    <2>5. S \in SUBSET Loops BY <2>4 DEF Ripe, TypeOK
    <2>6. Covered(S)' BY <1>1, <1>2, <2>2, <2>4, CoveredGrows
    <2>7. now' + FilePrepDelay <= slow' + due'[k] BY <1>1, <1>2, <2>1
    <2>8. S \subseteq Ripe(now)' BY <2>3, <2>4
    <2> QED BY <2>5, <2>6, <2>7, <2>8 DEF Awaited
  <1>10. isBuilt' => Covered(final)'
    BY <1>1, <1>2, CoveredGrows DEF Covering, BuiltCovers
  <1>11. loop'[k] \notin {"delay", "build"} /\ (finished'[k] => Covered(Measured)') /\ samples \subseteq samples'
    BY <1>1, <1>5, <1>6
  <1>12. (k \in Measured => end'[k] = end[k]) /\ Measured \subseteq Measured' BY <1>1, <1>3
  <1> QED BY <1>1, <1>4, <1>7, <1>8, <1>9, <1>10, <1>11, <1>12, CoveringKept

\* The teardown's delay is over: what it relies on is in the depot.
LEMMA TeardownFiresCovering ==
  ASSUME TypeOK, TypeOK', MeasuredOnce, OnTime, Covering, NEW k \in Loops, TeardownFires(k)
  PROVE  Covering'
  <1> USE DEF process, time, loops, metrics, looks
  <1>1. /\ UNCHANGED <<now, slow, nextTick, cleared, finished, end, sending, samples, isBuilt, final>>
        /\ loop[k] = "teardown" /\ due[k] <= now /\ loop'[k] = "build"
        /\ \A l \in Loops \ {k} : /\ loop'[l] = loop[l] /\ finished'[l] = finished[l]
                                  /\ due'[l] = due[l] /\ end'[l] = end[l]
    BY DEF TeardownFires, TypeOK
  <1>2. now \in Nat /\ slow \in Nat /\ slow <= slow' /\ FilePrepDelay \in Nat /\ due[k] \in Nat
        /\ slow < FilePrepDelay
    BY <1>1, ReplayAssumption DEF TypeOK, Clock, OnTime
  <1>3. Measured' = Measured BY <1>1 DEF Measured
  <1>4. \A t \in Nat : Ripe(t) \subseteq Ripe(t)' BY <1>1 DEF Ripe
  <1>5. Covered(Measured) => Covered(Measured)'
    BY <1>1, <1>2, <1>3, CoveredGrows
  <1>6. Covered(samples)'
    <2>1. PICK S \in SUBSET Loops : Awaited(k, S)
      BY <1>1 DEF Covering, TeardownWaits
    <2>2. ~(now + FilePrepDelay <= slow + due[k]) BY <1>1, <1>2
    <2>3. S \subseteq samples /\ Covered(S) BY <2>1, <2>2 DEF Awaited
    <2>4. Covered(S)' BY <1>1, <1>2, <2>3, CoveredGrows
    <2> QED BY <1>1, <2>3, <2>4 DEF Covered
  <1>7. NextReaches'
    <2>1. \A l \in Loops : loop[l] = "stopping" => loop'[l] = "stopping" BY <1>1
    <2>2. NextReaches BY DEF Covering
    <2>3. (\A l \in Measured : end'[l] = end[l]) /\ Measured \subseteq Measured' BY <1>1, <1>3
    <2> QED BY <1>1, <2>1, <2>2, <2>3, NextReachesKept
  <1>8. (finished'[k] => Covered(Measured)') /\ (cleared' => Covered(Measured)')
    BY <1>1, <1>5 DEF Covering, FinishedCovers
  <1>9. isBuilt' => Covered(final)'
    BY <1>1, <1>2, CoveredGrows DEF Covering, BuiltCovers
  <1>10. (k \in Measured => end'[k] = end[k]) /\ Measured \subseteq Measured' /\ samples \subseteq samples'
    BY <1>1, <1>3
  <1> QED BY <1>1, <1>4, <1>6, <1>7, <1>8, <1>9, <1>10, CoveringKept

\* The final file is built, and the replay ended.
LEMMA BuildCovering ==
  ASSUME TypeOK, TypeOK', MeasuredOnce, Covering, NEW k \in Loops,
         Build(k) \/ WriteDone(k) \/ WriteEndTime(k) \/ StopIpc(k)
  PROVE  Covering'
  <1> USE DEF process, time, loops, metrics, looks
  <1>1. /\ UNCHANGED <<now, slow, nextTick, cleared, finished, due, end, sending, samples>>
        /\ loop[k] \in {"build", "done", "endTime", "ipc"}
        /\ loop'[k] \in {"done", "endTime", "ipc", "over", "threw"}
        /\ \A l \in Loops \ {k} : /\ loop'[l] = loop[l] /\ finished'[l] = finished[l]
                                  /\ due'[l] = due[l] /\ end'[l] = end[l]
    <2> DEFINE Stepped ==
          /\ UNCHANGED <<now, slow, nextTick, cleared, finished, due, end, sending, samples>>
          /\ loop[k] \in {"build", "done", "endTime", "ipc"}
          /\ \E p \in {"done", "endTime", "ipc", "over", "threw"} : loop' = [loop EXCEPT ![k] = p]
    <2>1. Build(k) => Stepped BY DEF Build, Goes
    <2>2. WriteDone(k) => Stepped BY DEF WriteDone, Goes
    <2>3. WriteEndTime(k) => Stepped BY DEF WriteEndTime, Goes
    <2>4. StopIpc(k) => Stepped BY DEF StopIpc, Goes
    <2>5. Stepped BY <2>1, <2>2, <2>3, <2>4
    <2> QED BY <2>5 DEF TypeOK
  <1>2. slow <= slow' BY <1>1, ReplayAssumption DEF TypeOK
  <1>3. Measured' = Measured BY <1>1 DEF Measured
  <1>4. \A t \in Nat : Ripe(t) \subseteq Ripe(t)' BY <1>1 DEF Ripe
  <1>5. Covered(Measured) => Covered(Measured)'
    BY <1>1, <1>2, <1>3, CoveredGrows
  <1>6. isBuilt' => Covered(final)'
    <2>1. Covered(final) => \A S : S = final => Covered(S)' BY <1>1, <1>2, CoveredGrows
    <2>2. Covered(samples) => \A S : S = samples => Covered(S)' BY <1>1, <1>2, CoveredGrows
    <2>3. \/ final' = final /\ isBuilt' = isBuilt
          \/ final' = (IF isBuilt THEN final ELSE samples) /\ loop[k] = "build"
      BY DEF Build, WriteDone, WriteEndTime, StopIpc
    <2>4. isBuilt => Covered(final) BY DEF Covering, BuiltCovers
    <2>5. loop[k] = "build" => Covered(samples) BY DEF Covering, BuiltCovers
    <2>6. \/ final' = final /\ Covered(final)
          \/ final' = samples /\ Covered(samples)
          \/ ~isBuilt'
      <3>1. CASE final' = final /\ isBuilt' = isBuilt
        <4>1. ~isBuilt => ~isBuilt' BY ZenonT(40), <3>1
        <4> QED BY ZenonT(40), <2>4, <3>1, <4>1
      <3>2. CASE final' = (IF isBuilt THEN final ELSE samples) /\ loop[k] = "build"
        <4>1. CASE isBuilt BY ZenonT(40), <2>4, <3>2, <4>1
        <4>2. CASE ~isBuilt BY ZenonT(40), <2>5, <3>2, <4>2
        <4> QED BY <4>1, <4>2
      <3> QED BY ZenonT(40), <2>3, <3>1, <3>2
    <2> QED BY <2>1, <2>2, <2>6 DEF Covered
  <1>7. NextReaches'
    <2>1. \A l \in Loops : loop[l] = "stopping" => loop'[l] = "stopping" BY <1>1
    <2>2. NextReaches BY DEF Covering
    <2>3. (\A l \in Measured : end'[l] = end[l]) /\ Measured \subseteq Measured' BY <1>1, <1>3
    <2> QED BY <1>1, <2>1, <2>2, <2>3, NextReachesKept
  <1>8. (finished'[k] => Covered(Measured)') /\ (cleared' => Covered(Measured)')
    BY <1>1, <1>5 DEF Covering, FinishedCovers
  <1>9. (k \in Measured => end'[k] = end[k]) /\ Measured \subseteq Measured' /\ samples \subseteq samples'
    BY <1>1, <1>3
  <1>10. loop'[k] \notin {"delay", "teardown", "build"} BY <1>1
  <1> QED BY <1>1, <1>4, <1>6, <1>7, <1>8, <1>9, <1>10, CoveringKept

\* Metrics arrive in the depot.
LEMMA SentCovering ==
  ASSUME TypeOK, TypeOK', MeasuredOnce, Covering, NEW k \in Loops, Sent(k)
  PROVE  Covering'
  <1> USE DEF process, time, loops, metrics, looks
  <1>1. /\ UNCHANGED <<now, slow, nextTick, cleared, loop, finished, due, end, isBuilt, final>>
        /\ sending' = sending \ {k} /\ samples' = samples \cup {k} /\ k \in sending
    BY DEF Sent
  <1>2. slow <= slow' BY <1>1, ReplayAssumption DEF TypeOK
  <1>3. Measured' = Measured BY <1>1 DEF Measured
  <1>4. \A t \in Nat : Ripe(t)' = Ripe(t) BY <1>1 DEF Ripe
  <1>5. Covered(Measured) => Covered(Measured)'
    BY <1>1, <1>2, <1>3, CoveredGrows
  <1>6. Covered(samples) => Covered(samples)'
    BY <1>1, <1>2, CoveredGrows
  <1>7. NextReaches'
    <2>1. \A l \in Loops : loop[l] = "stopping" => loop'[l] = "stopping" BY <1>1
    <2>2. NextReaches BY DEF Covering
    <2>3. (\A l \in Measured : end'[l] = end[l]) /\ Measured \subseteq Measured' BY <1>1, <1>3
    <2> QED BY <1>1, <2>1, <2>2, <2>3, NextReachesKept
  <1>8. (finished'[k] => loop'[k] = "stopping" \/ Covered(Measured)') /\ (cleared' => Covered(Measured)')
    BY <1>1, <1>5 DEF Covering, FinishedCovers
  <1>9. isBuilt' => Covered(final)'
    BY <1>1, <1>2, CoveredGrows DEF Covering, BuiltCovers
  <1>10. ASSUME loop'[k] = "delay" PROVE due'[k] <= now + MetricsDelay /\ (finished'[k] => Covered(Ripe(due[k]))')
    <2>1. due'[k] = due[k] /\ due[k] \in Nat /\ finished'[k] = finished[k] /\ loop[k] = "delay"
      BY <1>1, <1>10 DEF TypeOK
    <2>2. PICK t \in Nat : t = due[k] BY <2>1
    <2>3. finished[k] => Covered(Ripe(t)) BY <2>1, <2>2 DEF Covering, DelaysInOrder
    <2>4. finished[k] => Covered(Ripe(t))' BY <1>1, <1>2, <1>4, <2>3, RipeGrows
    <2>5. t = due'[k] BY <2>1, <2>2
    <2>6. finished[k] => Covered(Ripe(due[k]))' BY <2>4, <2>5 DEF Covered, Ripe
    <2> QED BY <2>1, <2>6 DEF Covering, DelaysInOrder
  <1>11. ASSUME loop'[k] = "teardown" PROVE \E S \in SUBSET Loops : Awaited(k, S)'
    <2>1. PICK S \in SUBSET Loops : Awaited(k, S)
      BY <1>1, <1>11 DEF Covering, TeardownWaits
    <2>2. Covered(S)' BY <1>1, <1>2, <2>1, CoveredGrows DEF Awaited
    <2>3. Ripe(now)' = Ripe(now) BY <1>1 DEF Ripe
    <2> QED BY <1>1, <2>1, <2>2, <2>3 DEF Awaited
  <1>12. loop'[k] = "build" => Covered(samples)'
    BY <1>1, <1>6 DEF Covering, BuiltCovers
  <1> QED BY <1>1, <1>3, <1>4, <1>7, <1>8, <1>9, <1>10, <1>11, <1>12, CoveringKept

\* Every step keeps the replay covered, as long as everything is on time.
LEMMA CoveringStep ==
  ASSUME TypeOK, TypeOK', FinishedAtEnd, MeasuredOnce, SetupInTime, OnTime, OnTime', Covering, [Next]_vars
  PROVE  Covering'
  <1> USE DEF process, time, loops, metrics, looks
  <1>1. CASE Tick \/ WriteRunning BY <1>1, BeginCovering
  <1>2. CASE Advance BY <1>2, AdvanceCovering
  <1>3. CASE Load
    <2>1. /\ UNCHANGED <<now, slow, cleared, loop, finished, due, end, sending, samples, isBuilt, final>>
          /\ nextTick' \in 0..Interval /\ setup = "load"
      BY <1>3 DEF Load
    <2>2. Measured' = Measured /\ (\A t : Ripe(t)' = Ripe(t)) /\ (\A k, u : Covers(k, u)' <=> Covers(k, u))
      BY <2>1 DEF Measured, Ripe, Covers, WindowStart
    <2>3. \A S : Covered(S)' <=> Covered(S)
      BY <2>1, <2>2 DEF Covered
    <2>4. /\ Covered(Measured)' <=> Covered(Measured) /\ TRUE
          /\ Covered(samples)' <=> Covered(samples) /\ TRUE
          /\ Covered(final)' <=> Covered(final) /\ TRUE
          /\ \A k \in Loops : Covered(Ripe(due[k]))' <=> Covered(Ripe(due[k]))
      BY <2>1, <2>2 DEF Covered, Ripe, Measured
    <2>5. FinishedCovers' /\ DelaysInOrder' /\ BuiltCovers'
      BY <2>1, <2>4 DEF Covering, FinishedCovers, DelaysInOrder, BuiltCovers
    <2>6. TeardownWaits'
      BY <2>1, <2>2, <2>3 DEF Covering, TeardownWaits, Awaited, Ripe
    <2>7. NextReaches'
      <3>1. CASE cleared BY <2>1, <2>4, <3>1 DEF Covering, FinishedCovers, NextReaches
      <3>2. CASE ~cleared
        <4>1. PICK n \in Nat : nextTick' = n /\ n <= Interval BY <2>1, ReplayAssumption
        <4>2. Reach(n)' BY <4>1, ReplayAssumption DEF Reach
        <4>3. now' <= n + slow'
          BY <2>1, <4>1, ReplayAssumption DEF SetupInTime, TypeOK, Clock
        <4> QED BY <2>1, <3>2, <4>1, <4>2, <4>3 DEF NextReaches
      <3> QED BY <3>1, <3>2
    <2> QED BY <2>5, <2>6, <2>7 DEF Covering
  <1>4. ASSUME NEW k \in Loops, LoopStep(k) \/ Sent(k) PROVE Covering'
    <2>1. CASE WriteStopping(k) BY <2>1, StoppingCovering
    <2>2. CASE DelayOver(k) BY <2>2, DelayOverCovering
    <2>3. CASE TeardownFires(k) BY <2>3, TeardownFiresCovering
    <2>4. CASE Build(k) \/ WriteDone(k) \/ WriteEndTime(k) \/ StopIpc(k) BY <2>4, BuildCovering
    <2>5. CASE Sent(k) BY <2>5, SentCovering
    <2> QED BY <1>4, <2>1, <2>2, <2>3, <2>4, <2>5 DEF LoopStep
  <1>5. ASSUME NEW k \in Loops, SendFails(k) \/ LoopFails(k) PROVE Covering'
    <2>1. rejects' = rejects + 1 BY <1>5 DEF SendFails, LoopFails, Rejects
    <2> QED BY <2>1, ReplayAssumption DEF OnTime, TypeOK
  <1>6. CASE SetupFails
    <2>1. rejects' = rejects + 1 BY <1>6 DEF SetupFails, Rejects
    <2> QED BY <2>1, ReplayAssumption DEF OnTime, TypeOK
  <1>7. CASE WriteStarting \/ SetStartTime \/ WriteFailed \/ Exit \/ UNCHANGED vars \/ \E i \in Commands : RunCommand(i)
    <2>1. UNCHANGED <<now, slow, nextTick, cleared, loop, finished, due, end, sending, samples, isBuilt, final>>
      BY <1>7 DEF WriteStarting, SetStartTime, WriteFailed, Exit, vars, RunCommand
    <2> QED BY <2>1, CoveringUntouched
  <1> QED BY <1>1, <1>2, <1>3, <1>4, <1>5, <1>6, <1>7 DEF Next, Setup

\* Once late, always late.
LEMMA OnTimeBefore ==
  ASSUME TypeOK, TypeOK', [Next]_vars, OnTime'
  PROVE  OnTime
  <1> USE DEF process, time, loops, metrics, looks
  <1>1. (slow' = slow \/ slow' = slow + 1) /\ (rejects' = rejects \/ rejects' = rejects + 1)
    BY DEF Next, vars, Setup, WriteStarting, Load, SetStartTime, WriteRunning, WriteFailed, Exit,
           SetupFails, Tick, Advance, RunCommand, LoopStep, DelayOver, TeardownFires,
           WriteStopping, Build, WriteDone, WriteEndTime, StopIpc, Sent, SendFails, LoopFails, Rejects
  <1>2. slow \in Nat /\ rejects \in Nat BY ReplayAssumption DEF TypeOK
  <1> QED BY <1>1, <1>2, ReplayAssumption DEF OnTime

LEMMA InitCovering == Init => MeasuredOnce /\ SetupInTime /\ Covering
  <1> SUFFICES ASSUME Init PROVE MeasuredOnce /\ SetupInTime /\ Covering
    OBVIOUS
  <1>1. \A k \in Loops : loop[k] = "none" /\ ~finished[k] BY DEF Init
  <1>2. /\ now = 0 /\ slow = 0 /\ ~cleared /\ nextTick = 0 /\ sending = {} /\ samples = {} /\ final = {}
        /\ ~isBuilt /\ row = "STARTED"
    BY DEF Init
  <1>3. NextReaches
    <2>1. Reach(0) BY ReplayAssumption DEF Reach
    <2> QED BY <1>2, <2>1 DEF NextReaches
  <1>4. FinishedCovers /\ DelaysInOrder /\ TeardownWaits /\ BuiltCovers
    BY <1>1, <1>2 DEF FinishedCovers, DelaysInOrder, TeardownWaits, BuiltCovers
  <1>5. MeasuredOnce /\ SetupInTime BY <1>1, <1>2 DEF MeasuredOnce, SetupInTime
  <1> QED BY <1>3, <1>4, <1>5 DEF Covering

\* The final metrics of a replay that is DONE cover all of it, if nothing was rejected and no
\* more time was lost than the windows overlap and the teardown is delayed.
THEOREM MetricsCovered == Spec => []MetricsCover
  <1> DEFINE Inv == MeasuredOnce /\ SetupInTime /\ (OnTime => Covering)
  <1>1. Init => Inv BY InitCovering
  <1>2. TypeOK /\ TypeOK' /\ IInv /\ Inv /\ [Next]_vars => Inv'
    <2> SUFFICES ASSUME TypeOK, TypeOK', IInv, Inv, [Next]_vars PROVE Inv'
      OBVIOUS
    <2>1. MeasuredOnce' /\ SetupInTime' BY MeasuredOnceKept, SetupInTimeKept
    <2>2. OnTime' => Covering'
      <3> SUFFICES ASSUME OnTime' PROVE Covering'
        OBVIOUS
      <3>1. OnTime BY OnTimeBefore
      <3> QED BY <3>1, CoveringStep DEF IInv
    <2> QED BY <2>1, <2>2
  <1>3. TypeOK /\ Inv => MetricsCover
    BY DEF MetricsCover, OnTime, MeasuredOnce, Covering, BuiltCovers, Covered, Covers
  <1>4. Spec => []Inv BY <1>1, <1>2, Invariance, PTL DEF Spec
  <1> QED BY <1>3, <1>4, Invariance, PTL
===============================================================================
