------------------------------ MODULE Mimic_proofs ------------------------------
(***************************************************************************)
(* Theorems about Mimic, for any number of replays, commands, loops, stops  *)
(* and failures.                                                           *)
(***************************************************************************)
EXTENDS Mimic, FiniteSetTheorems, TLAPS

\* Has the loop handed out its commands (and did a stop's teardown not fail since)?
Processed(l) == loop[l] \notin {"none", "query", "startTime", "running", "rejected"}

\* Is the stop past the wait for the commands?
Past(k) == loop[k] \in {"stopping", "metrics", "files", "done", "endTime"}

\* Every command given by a loop that is not late has been executed.
AllRan ==
  \A l \in Loops \ late : Processed(l) =>
    \A r \in present[l], c \in fragment[l] :
      <<r, l, c>> \in DOMAIN job /\ job[<<r, l, c>>] = "over"

----------------------------------------------------------------------------
(* The inductive invariant                                                  *)

\* loaded has at most one entry for each replay before the one being loaded.
LoadingInRange ==
  /\ Len(loaded) < loading
  /\ setup = "assign" => loading <= N

\* A loop that starts a replay is at one that is loaded.
AtLoaded == \A k \in Loops : loop[k] \in {"startTime", "running"} => at[k] \in 1..Len(loaded)

\* A replay is not unloaded.
PresentLoaded == \A k \in Loops : present[k] \subseteq Mimicked

\* A loop that has handed out its commands has handed out all.
Handed ==
  \A l \in Loops : Processed(l) =>
    \A r \in present[l], c \in fragment[l] : <<r, l, c>> \in DOMAIN job

\* Once a stop has looked at the promises, or a replay is DONE, it is in the history.
Looked ==
  /\ \A k \in Loops : loop[k] = "commands" \/ Past(k) => looked
  /\ \A r \in Replays : row[r] = "DONE" => looked

\* A stop awaits every command that was handed out before it looked.
AwaitsAll ==
  \A k \in Loops : loop[k] = "commands" =>
    \A l \in Loops \ late : Processed(l) =>
      \A r \in present[l], c \in fragment[l] : <<r, l, c>> \in awaited[k]

\* Past that wait, and once a replay is DONE, all of them were executed.
PastRan == \A k \in Loops : Past(k) => AllRan
DoneRan == \A r \in Replays : row[r] = "DONE" => AllRan

\* What a stop relies on when it writes DONE.
Relied == PresentLoaded /\ Handed /\ Looked /\ AwaitsAll /\ PastRan /\ DoneRan

IInv == LoadingInRange /\ AtLoaded /\ Relied

----------------------------------------------------------------------------
(* Types                                                                    *)

\* A mimic begins well typed.
LEMMA InitTyped == Init => TypeOK /\ LoadingInRange /\ AtLoaded
<1> SUFFICES ASSUME Init PROVE TypeOK /\ LoadingInRange /\ AtLoaded
  OBVIOUS
<1>1. /\ loaded \in Seq(Replays) /\ Len(loaded) = 0
      /\ job = <<>> /\ DOMAIN job = {}
  BY DEF Init
<1>2. N \in Nat /\ N > 0 /\ MaxCommands \in Nat /\ MaxLoops \in Nat /\ MaxRejects \in Nat
  BY MimicAssumption
<1>3. LoadingInRange /\ AtLoaded
  BY <1>1, <1>2 DEF Init, LoadingInRange, AtLoaded
<1>4. loading \in 1..(N + 1) /\ panics \subseteq 0..N /\ 0 \in 0..MaxCommands /\ 0 \in 0..MaxLoops
      /\ 0 \in 0..MaxRejects /\ 0 \in 0..N
  BY <1>2 DEF Init
<1>5. DOMAIN job \subseteq Jobs /\ \A j \in DOMAIN job : job[j] \in {"pending", "over", "failed"}
  BY <1>1
<1>6. /\ row \in [Replays -> {"STARTED", "STARTING", "RUNNING", "STOPPING", "DONE", "FAILED"}]
      /\ loop \in [Loops -> {"none", "query", "startTime", "running", "log", "commands",
                         "stopping", "metrics", "files", "done", "endTime", "over", "rejected"}]
      /\ at \in [Loops -> 0..N] /\ first \in [Loops -> BOOLEAN]
  BY <1>4 DEF Init
<1>7. fragment \in [Loops -> SUBSET Commands] /\ awaited \in [Loops -> SUBSET Jobs]
      /\ present \in [Loops -> SUBSET Replays]
  BY DEF Init
<1>8. /\ setup = "starting" /\ refused \subseteq Replays /\ gone \in BOOLEAN
      /\ logging \in BOOLEAN /\ startTime \in BOOLEAN
      /\ extra \subseteq Loops /\ started \subseteq Replays /\ late \subseteq Loops
      /\ early \in BOOLEAN /\ looked \in BOOLEAN /\ overtaken \in BOOLEAN
  BY DEF Init
<1>9. Len(loaded) <= N
  BY <1>1, <1>2
<1>10. logged \in 0..MaxCommands /\ seen \in 0..MaxCommands /\ count \in 0..MaxLoops
      /\ rejects \in 0..MaxRejects
  BY <1>4 DEF Init
<1> QED
  BY <1>3, <1>4, <1>5, <1>6, <1>7, <1>8, <1>9, <1>10, <1>1 DEF TypeOK

\* Issue adds pending promises and changes none.
LEMMA Issued ==
  ASSUME TypeOK, NEW js \in SUBSET Jobs, Issue(js)
  PROVE  /\ DOMAIN job' = DOMAIN job \cup js
         /\ \A j \in DOMAIN job : job'[j] = job[j]
         /\ \A j \in DOMAIN job' : job'[j] \in {"pending", "over", "failed"}
         /\ DOMAIN job' \subseteq Jobs
  BY DEF Issue, TypeOK


\* The statuses of a replay and the places of a loop, as TypeOK has them.
Statuses == {"STARTED", "STARTING", "RUNNING", "STOPPING", "DONE", "FAILED"}
Places == {"none", "query", "startTime", "running", "log", "commands",
           "stopping", "metrics", "files", "done", "endTime", "over", "rejected"}

\* Append keeps what there was.
LEMMA AppendTyped ==
  ASSUME NEW S, NEW s \in Seq(S), NEW e \in S
  PROVE  Append(s, e) \in Seq(S) /\ Len(Append(s, e)) = Len(s) + 1
         /\ (\A i \in 1..Len(s) : Append(s, e)[i] = s[i])
  OBVIOUS

\* Setup goes on to the next replay.
LEMMA NextReplayTyped ==
  ASSUME TypeOK, LoadingInRange, loading <= N, NEW rs \in Seq(Replays),
         Len(loaded) <= Len(rs), Len(rs) <= loading, NextReplay(rs)
  PROVE  /\ loading' \in 1..(N + 1) /\ setup' \in {"load", "over"}
         /\ loaded' = rs /\ Len(loaded') < loading' /\ Len(loaded') <= N
         /\ panics' \subseteq 0..N
<1>1. N \in Nat /\ loading \in 1..(N + 1) /\ panics \subseteq 0..N
  BY MimicAssumption DEF TypeOK
<1>2. loading' = loading + 1 /\ loaded' = rs /\ setup' \in {"load", "over"}
      /\ (panics' = panics \cup {0} \/ panics' = panics)
  BY DEF NextReplay, SelfDestruct
<1>3. Len(rs) \in Nat
  OBVIOUS
<1>4. loading' \in 1..(N + 1) /\ Len(rs) < loading' /\ Len(rs) <= N
  BY <1>1, <1>2, <1>3
<1>5. ASSUME NEW p \in panics' PROVE p \in 0..N
  <2>1. 0 \in 0..N
    BY <1>1
  <2>2. p \in panics \/ p = 0
    BY <1>2
  <2> QED
    BY <1>1, <2>1, <2>2
<1> QED
  BY <1>2, <1>4, <1>5

\* A new loop has a window of the log and knows the replays there are; the others stay.
LEMMA LoopBeginsTyped ==
  ASSUME TypeOK, NEW x \in BOOLEAN, LoopBegins(x)
  PROVE  /\ count' \in 0..MaxLoops /\ count' \in Loops
         /\ fragment' \in [Loops -> SUBSET Commands]
         /\ seen' \in 0..MaxCommands
         /\ loop' \in [Loops -> Places]
         /\ present' \in [Loops -> SUBSET Replays] /\ extra' \subseteq Loops
         /\ loop'[count'] \in {"query", "rejected"}
         /\ \A l \in Loops \ {count'} : loop'[l] = loop[l] /\ present'[l] = present[l]
                                       /\ fragment'[l] = fragment[l]
         /\ present'[count'] = Mimicked
<1>1. count' \in 0..MaxLoops /\ count' \in Loops
  BY MimicAssumption DEF TypeOK, LoopBegins, Loops
<1>2. ASSUME NEW o \in 0..Overlap, o <= seen PROVE Window(o) \subseteq Commands
  <2>1. seen \in Nat /\ logged \in 0..MaxCommands /\ MaxCommands \in Nat /\ Overlap \in Nat
    BY MimicAssumption DEF TypeOK
  <2>2. seen - o + 1 \in Nat /\ seen - o + 1 >= 1
    BY <1>2, <2>1
  <2> QED
    BY <2>1, <2>2 DEF Window, Commands
<1>3. /\ fragment' \in [Loops -> SUBSET Commands]
      /\ \A l \in Loops \ {count'} : fragment'[l] = fragment[l]
  BY <1>1, <1>2 DEF TypeOK, LoopBegins
<1>4. Mimicked \subseteq Replays
  BY DEF TypeOK, Mimicked
<1>5. /\ present' \in [Loops -> SUBSET Replays] /\ present'[count'] = Mimicked
      /\ \A l \in Loops \ {count'} : present'[l] = present[l]
  BY <1>1, <1>4 DEF TypeOK, LoopBegins
<1>6. /\ loop' \in [Loops -> Places] /\ loop'[count'] \in {"query", "rejected"}
      /\ \A l \in Loops \ {count'} : loop'[l] = loop[l]
  BY <1>1 DEF TypeOK, LoopBegins, Places
<1>7. seen' \in 0..MaxCommands /\ extra' \subseteq Loops
  BY <1>1 DEF TypeOK, LoopBegins
<1> QED
  BY <1>1, <1>3, <1>5, <1>6, <1>7

\* A loop that goes through the replays stops at one that is loaded, or hands its commands to
\* all of them.
LEMMA GoesThroughTyped ==
  ASSUME TypeOK, NEW k \in Loops, NEW p \in Nat \ {0}, NEW begun, GoesThrough(k, p, begun)
  PROVE  /\ loop' \in [Loops -> Places] /\ at' \in [Loops -> 0..N]
         /\ first' \in [Loops -> BOOLEAN] /\ late' \subseteq Loops
         /\ DOMAIN job' \subseteq Jobs
         /\ \A j \in DOMAIN job' : job'[j] \in {"pending", "over", "failed"}
         /\ \A j \in DOMAIN job : j \in DOMAIN job' /\ job'[j] = job[j]
         /\ \A l \in Loops \ {k} : loop'[l] = loop[l] /\ at'[l] = at[l]
         /\ late \subseteq late'
         /\ \/ loop'[k] = "startTime" /\ at'[k] \in 1..Len(loaded)
            \/ /\ loop'[k] \in {"log", "over"}
               /\ Mimicked \X {k} \X fragment[k] \subseteq DOMAIN job'
               /\ looked => k \in late'
<1> DEFINE due == {i \in p..Len(loaded) : loaded[i] \notin begun}
           js  == Mimicked \X {k} \X (fragment[k] \cup (IF first[k] THEN {} ELSE {0}))
<1>1. CASE due # {}
  <2>1. PICK i \in due : at' = [at EXCEPT ![k] = i]
    BY <1>1 DEF GoesThrough
  <2>2. Goes(k, "startTime") /\ first' = [first EXCEPT ![k] = TRUE] /\ job' = job /\ late' = late
    BY <1>1 DEF GoesThrough
  <2>3. Len(loaded) \in 0..N /\ N \in Nat
    BY MimicAssumption DEF TypeOK
  <2>4. i \in 1..Len(loaded) /\ i \in 0..N
    BY <2>3
  <2>5. at' \in [Loops -> 0..N] /\ at'[k] = i /\ \A l \in Loops \ {k} : at'[l] = at[l]
    BY <2>1, <2>4 DEF TypeOK
  <2>6. /\ loop' \in [Loops -> Places] /\ loop'[k] = "startTime" /\ first' \in [Loops -> BOOLEAN]
        /\ \A l \in Loops \ {k} : loop'[l] = loop[l]
    BY <2>2 DEF TypeOK, Goes, Places
  <2> QED
    BY <2>2, <2>4, <2>5, <2>6 DEF TypeOK
<1>2. CASE due = {}
  <2>1. Issue(js) /\ late' = (IF looked THEN late \cup {k} ELSE late)
        /\ Goes(k, IF k \in extra THEN "log" ELSE "over")
        /\ at' = [at EXCEPT ![k] = 0] /\ UNCHANGED first
    BY <1>2 DEF GoesThrough
  <2>2. js \subseteq Jobs
    <3>1. Mimicked \subseteq Replays
      BY DEF TypeOK, Mimicked
    <3>2. fragment[k] \cup {0} \subseteq 0..Last
      <4>1. MaxCommands \in Nat /\ fragment[k] \subseteq 1..MaxCommands
        BY MimicAssumption DEF TypeOK, Commands
      <4> QED
        BY <4>1 DEF Last
    <3> QED
      BY <3>1, <3>2 DEF Jobs
  <2>3. /\ DOMAIN job' = DOMAIN job \cup js
        /\ \A j \in DOMAIN job : job'[j] = job[j]
        /\ \A j \in DOMAIN job' : job'[j] \in {"pending", "over", "failed"}
        /\ DOMAIN job' \subseteq Jobs
    BY <2>1, <2>2, Issued
  <2>4. Mimicked \X {k} \X fragment[k] \subseteq js
    OBVIOUS
  <2>5. at' \in [Loops -> 0..N] /\ \A l \in Loops \ {k} : at'[l] = at[l]
    BY <2>1, MimicAssumption DEF TypeOK
  <2> QED
    BY <2>1, <2>3, <2>4, <2>5 DEF TypeOK, Goes, Places
<1> QED
  BY <1>1, <1>2

\* A stop goes from one replay to the next.
LEMMA NextOrTyped ==
  ASSUME TypeOK, NEW k \in Loops, NEW again \in Places, NEW after \in Places, NextOr(k, again, after)
  PROVE  /\ loop' \in [Loops -> Places] /\ at' \in [Loops -> 0..N]
         /\ loop'[k] \in {again, after}
         /\ \A l \in Loops \ {k} : loop'[l] = loop[l] /\ at'[l] = at[l]
<1>1. Len(loaded) \in 0..N /\ at[k] \in 0..N /\ N \in Nat
  BY MimicAssumption DEF TypeOK
<1> QED
  BY <1>1 DEF TypeOK, NextOr, Places

\* The last metrics are new promises.
LEMMA AwaitMetricsTyped ==
  ASSUME TypeOK, NEW k \in Loops, AwaitMetrics(k)
  PROVE  /\ DOMAIN job' \subseteq Jobs
         /\ \A j \in DOMAIN job' : job'[j] \in {"pending", "over", "failed"}
         /\ \A j \in DOMAIN job : j \in DOMAIN job' /\ job'[j] = job[j]
         /\ awaited' \in [Loops -> SUBSET Jobs]
         /\ \A l \in Loops \ {k} : awaited'[l] = awaited[l]
<1>1. Mimicked \X {k} \X {Last} \subseteq Jobs
  <2>1. Mimicked \subseteq Replays
    BY DEF TypeOK, Mimicked
  <2>2. Last \in 0..Last
    BY MimicAssumption DEF Last
  <2> QED
    BY <2>1, <2>2 DEF Jobs
<1>2. /\ DOMAIN job' = DOMAIN job \cup (Mimicked \X {k} \X {Last})
      /\ \A j \in DOMAIN job : job'[j] = job[j]
      /\ \A j \in DOMAIN job' : job'[j] \in {"pending", "over", "failed"}
      /\ DOMAIN job' \subseteq Jobs
  BY <1>1, Issued DEF AwaitMetrics
<1> QED
  BY <1>2 DEF AwaitMetrics, TypeOK

\* A stop takes the promises there are.
LEMMA AwaitCommandsTyped ==
  ASSUME TypeOK, NEW k \in Loops, AwaitCommands(k)
  PROVE  /\ awaited' \in [Loops -> SUBSET Jobs] /\ loop' \in [Loops -> Places]
         /\ looked' = TRUE /\ overtaken' \in BOOLEAN
         /\ loop'[k] = "commands" /\ awaited'[k] = CommandsOf(Mimicked)
         /\ \A l \in Loops \ {k} : loop'[l] = loop[l] /\ awaited'[l] = awaited[l]
  BY DEF TypeOK, AwaitCommands, Goes, CommandsOf, Places

\* One more failure, one more activation of selfDestruct, one loop that goes on.
LEMMA RejectsTyped ==
  ASSUME TypeOK, Rejects \/ UNCHANGED rejects
  PROVE  rejects' \in 0..MaxRejects
  BY MimicAssumption DEF TypeOK, Rejects

LEMMA PanicsTyped ==
  ASSUME TypeOK, SelfDestruct \/ UNCHANGED panics
  PROVE  panics' \subseteq 0..N
<1>1. 0 \in 0..N
  BY MimicAssumption
<1> QED
  BY <1>1 DEF TypeOK, SelfDestruct

LEMMA GoesTyped ==
  ASSUME TypeOK, NEW k \in Loops, NEW place \in Places, Goes(k, place)
  PROVE  /\ loop' \in [Loops -> Places] /\ loop'[k] = place
         /\ \A l \in Loops \ {k} : loop'[l] = loop[l]
  BY DEF TypeOK, Goes, Places

\* Every step keeps the types, and a loop at a replay that is loaded.
LEMMA TypeStep ==
  TypeOK /\ LoadingInRange /\ AtLoaded /\ [Next]_vars => TypeOK' /\ LoadingInRange' /\ AtLoaded'
<1> SUFFICES ASSUME TypeOK, LoadingInRange, AtLoaded, [Next]_vars
             PROVE  TypeOK' /\ LoadingInRange' /\ AtLoaded'
  OBVIOUS
<1> USE DEF init, process, log, loops, history
<1>1. CASE CaptureSetup
  BY MimicAssumption, <1>1 DEF TypeOK, LoadingInRange, AtLoaded, CaptureSetup
<1>2. CASE CaptureSetupFails
  <2>1. rejects' \in 0..MaxRejects /\ panics' \subseteq 0..N
    BY <1>2, RejectsTyped, PanicsTyped DEF CaptureSetupFails
  <2>2. AtLoaded'
    BY <1>2 DEF AtLoaded, CaptureSetupFails
  <2>3. LoadingInRange'
    BY <1>2 DEF LoadingInRange, CaptureSetupFails
  <2>4. TypeOK'
    BY <1>2, <2>1 DEF TypeOK, CaptureSetupFails
  <2> QED
    BY <2>2, <2>3, <2>4
<1>3. CASE LoadReplay
  BY MimicAssumption, <1>3 DEF TypeOK, LoadingInRange, AtLoaded, LoadReplay
<1>4. CASE RefuseReplay
  <2>1. loaded \in Seq(Replays) /\ Len(loaded) \in Nat /\ Len(loaded) <= loading
        /\ loading <= N /\ NextReplay(loaded)
    BY MimicAssumption, <1>4 DEF TypeOK, LoadingInRange, AtLoaded, RefuseReplay
  <2>2. loading \in Replays
    BY MimicAssumption, <2>1 DEF TypeOK, LoadingInRange, AtLoaded, Replays
  <2> QED
    <3>1. /\ loading' \in 1..(N + 1) /\ setup' \in {"load", "over"}
          /\ loaded' = loaded /\ Len(loaded') < loading' /\ Len(loaded') <= N
          /\ panics' \subseteq 0..N
      BY <2>1, NextReplayTyped
    <3> QED
      <4>1. AtLoaded'
        BY <1>4, <3>1 DEF AtLoaded, RefuseReplay
      <4>2. LoadingInRange'
        BY <3>1 DEF LoadingInRange
      <4>3. rejects' \in 0..MaxRejects /\ refused' \subseteq Replays
        BY MimicAssumption, <1>4, <2>2 DEF RefuseReplay, Rejects, TypeOK
      <4>4. TypeOK'
        BY <1>4, <2>1, <3>1, <4>3 DEF TypeOK, RefuseReplay
      <4> QED
        BY <4>1, <4>2, <4>4
<1>5. CASE LoadingFails
  <2>1. rejects' \in 0..MaxRejects /\ panics' \subseteq 0..N
    BY <1>5, RejectsTyped, PanicsTyped DEF LoadingFails
  <2>2. AtLoaded'
    BY <1>5 DEF AtLoaded, LoadingFails
  <2>3. LoadingInRange'
    BY <1>5 DEF LoadingInRange, LoadingFails
  <2>4. TypeOK'
    BY <1>5, <2>1 DEF TypeOK, LoadingFails
  <2> QED
    BY <2>2, <2>3, <2>4
<1>6. CASE AssignReplay
  <2>1. loading <= N /\ loading \in Replays
    BY MimicAssumption, <1>6 DEF TypeOK, LoadingInRange, AtLoaded, AssignReplay, Replays
  <2>2. /\ Append(loaded, loading) \in Seq(Replays)
        /\ Len(Append(loaded, loading)) = Len(loaded) + 1
    BY <2>1, AppendTyped DEF TypeOK
  <2>3. Len(loaded) <= Len(loaded) + 1 /\ Len(loaded) + 1 <= loading
    BY MimicAssumption DEF TypeOK, LoadingInRange
  <2>4. NextReplay(Append(loaded, loading))
    BY MimicAssumption, <1>6 DEF TypeOK, LoadingInRange, AtLoaded, AssignReplay
  <2>5. /\ loading' \in 1..(N + 1) /\ setup' \in {"load", "over"}
        /\ loaded' = Append(loaded, loading) /\ Len(loaded') < loading' /\ Len(loaded') <= N
        /\ panics' \subseteq 0..N
    BY <2>1, <2>2, <2>3, <2>4, NextReplayTyped
  <2> QED
    <3>1. Len(loaded') = Len(loaded) + 1 /\ loaded' \in Seq(Replays) /\ Len(loaded) \in Nat
      BY <2>2, <2>5 DEF TypeOK
    <3>2. AtLoaded'
      BY <1>6, <3>1 DEF AtLoaded, AssignReplay
    <3>3. LoadingInRange'
      BY <2>5 DEF LoadingInRange
    <3>4. row' \in [Replays -> Statuses]
      BY <1>6, <2>1 DEF AssignReplay, TypeOK, Statuses
    <3>5. TypeOK'
      BY <1>6, <2>5, <3>1, <3>4 DEF TypeOK, AssignReplay, Statuses
    <3> QED
      BY <3>2, <3>3, <3>5
<1>7. CASE Log
  <2>1. logged' \in 0..MaxCommands
    BY MimicAssumption, <1>7 DEF Log, TypeOK
  <2>2. AtLoaded'
    BY <1>7 DEF AtLoaded, Log
  <2>3. LoadingInRange'
    BY <1>7 DEF LoadingInRange, Log
  <2>4. TypeOK'
    BY <1>7, <2>1 DEF TypeOK, Log
  <2> QED
    BY <2>2, <2>3, <2>4
<1>8. CASE Tick
  <2>1. LoopBegins(FALSE)
    BY MimicAssumption, <1>8 DEF TypeOK, LoadingInRange, AtLoaded, Tick
  <2> QED
    <3>1. /\ count' \in 0..MaxLoops /\ count' \in Loops
          /\ fragment' \in [Loops -> SUBSET Commands] /\ seen' \in 0..MaxCommands
          /\ loop' \in [Loops -> Places] /\ loop'[count'] \in {"query", "rejected"}
          /\ present' \in [Loops -> SUBSET Replays] /\ extra' \subseteq Loops
          /\ \A l \in Loops \ {count'} : loop'[l] = loop[l]
      BY <2>1, LoopBeginsTyped
    <3>2. AtLoaded'
      BY <1>8, <3>1 DEF AtLoaded, Tick
    <3>3. LoadingInRange'
      BY <1>8, <3>1 DEF LoadingInRange, Tick
    <3>4. TypeOK'
      BY <1>8, <3>1 DEF TypeOK, Tick, Places
    <3> QED
      BY <3>2, <3>3, <3>4
<1>9. CASE Stop
  <2>1. LoopBegins(TRUE)
    BY MimicAssumption, <1>9 DEF TypeOK, LoadingInRange, AtLoaded, Stop
  <2> QED
    <3>1. /\ count' \in 0..MaxLoops /\ count' \in Loops
          /\ fragment' \in [Loops -> SUBSET Commands] /\ seen' \in 0..MaxCommands
          /\ loop' \in [Loops -> Places] /\ loop'[count'] \in {"query", "rejected"}
          /\ present' \in [Loops -> SUBSET Replays] /\ extra' \subseteq Loops
          /\ \A l \in Loops \ {count'} : loop'[l] = loop[l]
      BY <2>1, LoopBeginsTyped
    <3>2. AtLoaded'
      BY <1>9, <3>1 DEF AtLoaded, Stop
    <3>3. LoadingInRange'
      BY <1>9, <3>1 DEF LoadingInRange, Stop
    <3>4. TypeOK'
      BY <1>9, <3>1 DEF TypeOK, Stop, Places
    <3> QED
      BY <3>2, <3>3, <3>4
<1>10. ASSUME NEW r \in Replays, WriteRefused(r) PROVE TypeOK' /\ LoadingInRange' /\ AtLoaded'
  BY MimicAssumption, <1>10 DEF TypeOK, LoadingInRange, AtLoaded, WriteRefused
<1>11. ASSUME NEW p \in 0..N, Panic(p) PROVE TypeOK' /\ LoadingInRange' /\ AtLoaded'
  <2>1. panics' \subseteq 0..N /\ gone' \in BOOLEAN
    <3>1. N \in Nat /\ Len(loaded) \in 0..N /\ panics \subseteq 0..N
      BY MimicAssumption DEF TypeOK
    <3>2. p < Len(loaded) => p + 1 \in 0..N
      BY <3>1
    <3> QED
      BY <1>11, <3>1, <3>2 DEF Panic, TypeOK
  <2>2. row' \in [Replays -> Statuses]
    BY MimicAssumption, <1>11 DEF TypeOK, LoadingInRange, AtLoaded, Panic, Statuses
  <2>3. AtLoaded'
    BY <1>11 DEF AtLoaded, Panic
  <2>4. LoadingInRange'
    BY <1>11 DEF LoadingInRange, Panic
  <2>5. TypeOK'
    BY <1>11, <2>1, <2>2 DEF TypeOK, Panic, Statuses
  <2> QED
    BY <2>3, <2>4, <2>5
<1>12. ASSUME NEW p \in 0..N, PanicFails(p) PROVE TypeOK' /\ LoadingInRange' /\ AtLoaded'
  BY MimicAssumption, <1>12 DEF TypeOK, LoadingInRange, AtLoaded, PanicFails
<1>13. ASSUME NEW k \in Loops, FragmentStored(k) PROVE TypeOK' /\ LoadingInRange' /\ AtLoaded'
  <2>1. GoesThrough(k, 1, started) /\ 1 \in Nat \ {0}
    BY MimicAssumption, <1>13 DEF TypeOK, LoadingInRange, AtLoaded, FragmentStored
  <2> QED
    <3>1. /\ loop' \in [Loops -> Places] /\ at' \in [Loops -> 0..N]
          /\ first' \in [Loops -> BOOLEAN] /\ late' \subseteq Loops
          /\ DOMAIN job' \subseteq Jobs
          /\ \A j \in DOMAIN job' : job'[j] \in {"pending", "over", "failed"}
          /\ \A l \in Loops \ {k} : loop'[l] = loop[l] /\ at'[l] = at[l]
          /\ \/ loop'[k] = "startTime" /\ at'[k] \in 1..Len(loaded)
             \/ loop'[k] \in {"log", "over"}
      BY <2>1, GoesThroughTyped
    <3>5. AtLoaded'
      BY <1>13, <3>1 DEF AtLoaded, FragmentStored, TypeOK
    <3>6. LoadingInRange'
      BY <1>13 DEF LoadingInRange, FragmentStored
    <3>7. TypeOK'
      BY <1>13, <3>1 DEF TypeOK, FragmentStored, Places
    <3> QED
      BY <3>5, <3>6, <3>7
<1>14. ASSUME NEW k \in Loops, WriteStartTime(k) PROVE TypeOK' /\ LoadingInRange' /\ AtLoaded'
  <2>1. /\ loop' \in [Loops -> Places] /\ loop'[k] = "running"
        /\ \A l \in Loops \ {k} : loop'[l] = loop[l]
    <3>1. Goes(k, "running") /\ "running" \in Places
      BY <1>14 DEF WriteStartTime, Places
    <3> QED
      BY <3>1, GoesTyped
  <2>2. AtLoaded'
    BY <1>14, <2>1 DEF AtLoaded, WriteStartTime
  <2>3. LoadingInRange'
    BY <1>14, <2>1 DEF LoadingInRange, WriteStartTime
  <2>4. TypeOK'
    BY <1>14, <2>1 DEF TypeOK, WriteStartTime, Places
  <2> QED
    BY <2>2, <2>3, <2>4
<1>15. ASSUME NEW k \in Loops, WriteRunning(k) PROVE TypeOK' /\ LoadingInRange' /\ AtLoaded'
  <2>1. at[k] \in 1..Len(loaded) /\ loaded[at[k]] \in Replays
    BY MimicAssumption, <1>15 DEF TypeOK, LoadingInRange, AtLoaded, WriteRunning
  <2>2. GoesThrough(k, at[k] + 1, started') /\ at[k] + 1 \in Nat \ {0}
    <3>1. Len(loaded) \in Nat
      BY DEF TypeOK
    <3> QED
      BY <1>15, <2>1, <3>1 DEF WriteRunning
  <2>3. row' \in [Replays -> Statuses] /\ started' \subseteq Replays
    BY MimicAssumption, <1>15, <2>1 DEF TypeOK, LoadingInRange, AtLoaded, WriteRunning, Statuses
  <2> QED
    <3>1. /\ loop' \in [Loops -> Places] /\ at' \in [Loops -> 0..N]
          /\ first' \in [Loops -> BOOLEAN] /\ late' \subseteq Loops
          /\ DOMAIN job' \subseteq Jobs
          /\ \A j \in DOMAIN job' : job'[j] \in {"pending", "over", "failed"}
          /\ \A l \in Loops \ {k} : loop'[l] = loop[l] /\ at'[l] = at[l]
          /\ \/ loop'[k] = "startTime" /\ at'[k] \in 1..Len(loaded)
             \/ loop'[k] \in {"log", "over"}
      BY <2>2, GoesThroughTyped
    <3>5. AtLoaded'
      BY <1>15, <3>1 DEF AtLoaded, WriteRunning, TypeOK
    <3>6. LoadingInRange'
      BY <1>15 DEF LoadingInRange, WriteRunning
    <3>7. TypeOK'
      BY <1>15, <2>3, <3>1 DEF TypeOK, WriteRunning, Places, Statuses
    <3> QED
      BY <3>5, <3>6, <3>7
<1>16. ASSUME NEW k \in Loops, LogDecided(k) PROVE TypeOK' /\ LoadingInRange' /\ AtLoaded'
  BY MimicAssumption, <1>16 DEF TypeOK, LoadingInRange, AtLoaded, LogDecided, AwaitCommands, Goes, CommandsOf
<1>17. ASSUME NEW k \in Loops, CommandsFinished(k) PROVE TypeOK' /\ LoadingInRange' /\ AtLoaded'
  <2>1. NextOr(k, "stopping", "metrics") /\ (AwaitMetrics(k) \/ UNCHANGED <<job, awaited>>)
        /\ "stopping" \in Places /\ "metrics" \in Places
    BY MimicAssumption, <1>17 DEF TypeOK, LoadingInRange, AtLoaded, CommandsFinished, Places
  <2> QED
    <3>1. /\ loop' \in [Loops -> Places] /\ at' \in [Loops -> 0..N]
          /\ loop'[k] \in {"stopping", "metrics"}
          /\ \A l \in Loops \ {k} : loop'[l] = loop[l] /\ at'[l] = at[l]
      BY <2>1, NextOrTyped
    <3>2. /\ DOMAIN job' \subseteq Jobs /\ awaited' \in [Loops -> SUBSET Jobs]
          /\ \A j \in DOMAIN job' : job'[j] \in {"pending", "over", "failed"}
      <4>1. CASE AwaitMetrics(k)
        BY <4>1, AwaitMetricsTyped
      <4>2. CASE UNCHANGED <<job, awaited>>
        BY <4>2 DEF TypeOK
      <4> QED
        BY <2>1, <4>1, <4>2
    <3>5. AtLoaded'
      BY <1>17, <3>1 DEF AtLoaded, CommandsFinished, TypeOK
    <3>6. LoadingInRange'
      BY <1>17 DEF LoadingInRange, CommandsFinished
    <3>7. TypeOK'
      BY <1>17, <3>1, <3>2 DEF TypeOK, CommandsFinished, Places
    <3> QED
      BY <3>5, <3>6, <3>7
<1>18. ASSUME NEW k \in Loops, WriteReplayStopping(k) PROVE TypeOK' /\ LoadingInRange' /\ AtLoaded'
  <2>1. NextOr(k, "stopping", "metrics") /\ (AwaitMetrics(k) \/ UNCHANGED <<job, awaited>>)
        /\ "stopping" \in Places /\ "metrics" \in Places
    BY MimicAssumption, <1>18 DEF TypeOK, LoadingInRange, AtLoaded, WriteReplayStopping, Places
  <2>2. row' \in [Replays -> Statuses]
    BY MimicAssumption, <1>18 DEF TypeOK, LoadingInRange, AtLoaded, WriteReplayStopping, Statuses
  <2> QED
    <3>1. /\ loop' \in [Loops -> Places] /\ at' \in [Loops -> 0..N]
          /\ loop'[k] \in {"stopping", "metrics"}
          /\ \A l \in Loops \ {k} : loop'[l] = loop[l] /\ at'[l] = at[l]
      BY <2>1, NextOrTyped
    <3>2. /\ DOMAIN job' \subseteq Jobs /\ awaited' \in [Loops -> SUBSET Jobs]
          /\ \A j \in DOMAIN job' : job'[j] \in {"pending", "over", "failed"}
      <4>1. CASE AwaitMetrics(k)
        BY <4>1, AwaitMetricsTyped
      <4>2. CASE UNCHANGED <<job, awaited>>
        BY <4>2 DEF TypeOK
      <4> QED
        BY <2>1, <4>1, <4>2
    <3>5. AtLoaded'
      BY <1>18, <3>1 DEF AtLoaded, WriteReplayStopping, TypeOK
    <3>6. LoadingInRange'
      BY <1>18 DEF LoadingInRange, WriteReplayStopping
    <3>7. TypeOK'
      BY <1>18, <2>2, <3>1, <3>2 DEF TypeOK, WriteReplayStopping, Places, Statuses
    <3> QED
      BY <3>5, <3>6, <3>7
<1>19. ASSUME NEW k \in Loops, MetricsFinished(k) PROVE TypeOK' /\ LoadingInRange' /\ AtLoaded'
  <2>1. /\ loop' \in [Loops -> Places] /\ loop'[k] = "files"
        /\ \A l \in Loops \ {k} : loop'[l] = loop[l]
    <3>1. Goes(k, "files") /\ "files" \in Places
      BY <1>19 DEF MetricsFinished, Places
    <3> QED
      BY <3>1, GoesTyped
  <2>2. AtLoaded'
    BY <1>19, <2>1 DEF AtLoaded, MetricsFinished
  <2>3. LoadingInRange'
    BY <1>19, <2>1 DEF LoadingInRange, MetricsFinished
  <2>4. TypeOK'
    BY <1>19, <2>1 DEF TypeOK, MetricsFinished, Places
  <2> QED
    BY <2>2, <2>3, <2>4
<1>20. ASSUME NEW k \in Loops, PrepareFiles(k) PROVE TypeOK' /\ LoadingInRange' /\ AtLoaded'
  <2>1. NextOr(k, "done", "over") /\ "done" \in Places /\ "over" \in Places
    BY MimicAssumption, <1>20 DEF TypeOK, LoadingInRange, AtLoaded, PrepareFiles, Places
  <2> QED
    <3>1. /\ loop' \in [Loops -> Places] /\ at' \in [Loops -> 0..N]
          /\ loop'[k] \in {"done", "over"}
          /\ \A l \in Loops \ {k} : loop'[l] = loop[l] /\ at'[l] = at[l]
      BY <2>1, NextOrTyped
    <3>5. AtLoaded'
      BY <1>20, <3>1 DEF AtLoaded, PrepareFiles, TypeOK
    <3>6. LoadingInRange'
      BY <1>20 DEF LoadingInRange, PrepareFiles
    <3>7. TypeOK'
      BY <1>20, <3>1 DEF TypeOK, PrepareFiles, Places
    <3> QED
      BY <3>5, <3>6, <3>7
<1>21. ASSUME NEW k \in Loops, WriteDone(k) PROVE TypeOK' /\ LoadingInRange' /\ AtLoaded'
  <2>1. /\ loop' \in [Loops -> Places] /\ loop'[k] = "endTime"
        /\ \A l \in Loops \ {k} : loop'[l] = loop[l]
    <3>1. Goes(k, "endTime") /\ "endTime" \in Places
      BY <1>21 DEF WriteDone, Places
    <3> QED
      BY <3>1, GoesTyped
  <2>2. row' \in [Replays -> Statuses]
    BY <1>21 DEF WriteDone, TypeOK, Statuses
  <2>3. AtLoaded'
    BY <1>21, <2>1 DEF AtLoaded, WriteDone
  <2>4. LoadingInRange'
    BY <1>21, <2>1 DEF LoadingInRange, WriteDone
  <2>5. TypeOK'
    BY <1>21, <2>1, <2>2 DEF TypeOK, WriteDone, Places, Statuses
  <2> QED
    BY <2>3, <2>4, <2>5
<1>22. ASSUME NEW k \in Loops, WriteEndTime(k) PROVE TypeOK' /\ LoadingInRange' /\ AtLoaded'
  <2>1. NextOr(k, "done", "over") /\ "done" \in Places /\ "over" \in Places
    BY MimicAssumption, <1>22 DEF TypeOK, LoadingInRange, AtLoaded, WriteEndTime, Places
  <2> QED
    <3>1. /\ loop' \in [Loops -> Places] /\ at' \in [Loops -> 0..N]
          /\ loop'[k] \in {"done", "over"}
          /\ \A l \in Loops \ {k} : loop'[l] = loop[l] /\ at'[l] = at[l]
      BY <2>1, NextOrTyped
    <3>5. AtLoaded'
      BY <1>22, <3>1 DEF AtLoaded, WriteEndTime, TypeOK
    <3>6. LoadingInRange'
      BY <1>22 DEF LoadingInRange, WriteEndTime
    <3>7. TypeOK'
      BY <1>22, <3>1 DEF TypeOK, WriteEndTime, Places
    <3> QED
      BY <3>5, <3>6, <3>7
<1>23. ASSUME NEW k \in Loops, LoopFails(k) PROVE TypeOK' /\ LoadingInRange' /\ AtLoaded'
  <2>1. /\ loop' \in [Loops -> Places] /\ loop'[k] = "rejected"
        /\ \A l \in Loops \ {k} : loop'[l] = loop[l]
    <3>1. Goes(k, "rejected") /\ "rejected" \in Places
      BY <1>23 DEF LoopFails, Places
    <3> QED
      BY <3>1, GoesTyped
  <2>2. rejects' \in 0..MaxRejects
    BY <1>23, RejectsTyped DEF LoopFails
  <2>3. AtLoaded'
    BY <1>23, <2>1 DEF AtLoaded, LoopFails
  <2>4. LoadingInRange'
    BY <1>23, <2>1 DEF LoadingInRange, LoopFails
  <2>5. TypeOK'
    BY <1>23, <2>1, <2>2 DEF TypeOK, LoopFails, Places
  <2> QED
    BY <2>3, <2>4, <2>5
<1>24. ASSUME NEW k \in Loops, LogFails(k) PROVE TypeOK' /\ LoadingInRange' /\ AtLoaded'
  <2>1. rejects' \in 0..MaxRejects
    BY MimicAssumption, <1>24 DEF TypeOK, LoadingInRange, AtLoaded, LogFails, Rejects
  <2>2. AwaitCommands(k)
    BY MimicAssumption, <1>24 DEF TypeOK, LoadingInRange, AtLoaded, LogFails
  <2> QED
    <3>1. /\ awaited' \in [Loops -> SUBSET Jobs] /\ loop' \in [Loops -> Places]
          /\ looked' = TRUE /\ overtaken' \in BOOLEAN
          /\ loop'[k] = "commands" /\ \A l \in Loops \ {k} : loop'[l] = loop[l]
      BY <2>2, AwaitCommandsTyped
    <3>2. panics' \subseteq 0..N
      BY <1>24, MimicAssumption DEF TypeOK, LogFails, SelfDestruct
    <3> QED
      BY <1>24, <2>1, <3>1, <3>2 DEF TypeOK, LoadingInRange, AtLoaded, LogFails, Places
<1>25. ASSUME NEW k \in Loops, TeardownFails(k) PROVE TypeOK' /\ LoadingInRange' /\ AtLoaded'
  <2>1. /\ loop' \in [Loops -> Places] /\ loop'[k] = "rejected"
        /\ \A l \in Loops \ {k} : loop'[l] = loop[l]
    <3>1. Goes(k, "rejected") /\ "rejected" \in Places
      BY <1>25 DEF TeardownFails, Places
    <3> QED
      BY <3>1, GoesTyped
  <2>2. rejects' \in 0..MaxRejects /\ panics' \subseteq 0..N
    BY <1>25, RejectsTyped, PanicsTyped DEF TeardownFails
  <2>3. AtLoaded'
    BY <1>25, <2>1 DEF AtLoaded, TeardownFails
  <2>4. LoadingInRange'
    BY <1>25, <2>1 DEF LoadingInRange, TeardownFails
  <2>5. TypeOK'
    BY <1>25, <2>1, <2>2 DEF TypeOK, TeardownFails, Places
  <2> QED
    BY <2>3, <2>4, <2>5
<1>26. ASSUME NEW k \in Loops, TimerFails(k) PROVE TypeOK' /\ LoadingInRange' /\ AtLoaded'
  <2>1. /\ loop' \in [Loops -> Places] /\ loop'[k] = "rejected"
        /\ \A l \in Loops \ {k} : loop'[l] = loop[l]
    <3>1. Goes(k, "rejected") /\ "rejected" \in Places
      BY <1>26 DEF TimerFails, Places
    <3> QED
      BY <3>1, GoesTyped
  <2>2. rejects' \in 0..MaxRejects
    BY <1>26, RejectsTyped DEF TimerFails
  <2>3. AtLoaded'
    BY <1>26, <2>1 DEF AtLoaded, TimerFails
  <2>4. LoadingInRange'
    BY <1>26, <2>1 DEF LoadingInRange, TimerFails
  <2>5. TypeOK'
    BY <1>26, <2>1, <2>2 DEF TypeOK, TimerFails, Places
  <2> QED
    BY <2>3, <2>4, <2>5
<1>27. ASSUME NEW j \in DOMAIN job, JobOver(j) PROVE TypeOK' /\ LoadingInRange' /\ AtLoaded'
  BY MimicAssumption, <1>27 DEF TypeOK, LoadingInRange, AtLoaded, JobOver
<1>28. ASSUME NEW j \in DOMAIN job, JobFails(j) PROVE TypeOK' /\ LoadingInRange' /\ AtLoaded'
  <2>1. rejects' \in 0..MaxRejects
    BY <1>28, RejectsTyped DEF JobFails
  <2>2. AtLoaded'
    BY <1>28 DEF AtLoaded, JobFails
  <2>3. LoadingInRange'
    BY <1>28 DEF LoadingInRange, JobFails
  <2>4. TypeOK'
    BY <1>28, <2>1 DEF TypeOK, JobFails
  <2> QED
    BY <2>2, <2>3, <2>4
<1>29. CASE UNCHANGED vars
  BY MimicAssumption, <1>29 DEF TypeOK, LoadingInRange, AtLoaded, vars
<1> QED
  BY <1>1, <1>2, <1>3, <1>4, <1>5, <1>6, <1>7, <1>8, <1>9, <1>10, <1>11, <1>12, <1>13, <1>14, <1>15, <1>16, <1>17, <1>18, <1>19, <1>20, <1>21, <1>22, <1>23, <1>24, <1>25, <1>26, <1>27, <1>28, <1>29 DEF Next, Setup, LoopStep

----------------------------------------------------------------------------
(* Steps                                                                    *)

\* Nothing is relied on yet.
LEMMA InitRelied == Init => Relied
<1> SUFFICES ASSUME Init PROVE Relied
  OBVIOUS
<1>1. \A k \in Loops : loop[k] = "none" /\ present[k] = {}
  BY DEF Init
<1>2. \A r \in Replays : row[r] = "STARTED"
  BY DEF Init
<1> QED
  BY <1>1, <1>2 DEF Relied, PresentLoaded, Handed, Looked, AwaitsAll, PastRan, DoneRan, Processed, Past

\* A step that begins no loop, and after which no stop waits, or is past its wait, that
\* was not before. Nothing that was executed is undone.
Calm ==
  /\ present' = present /\ fragment' = fragment
  /\ Mimicked \subseteq Mimicked'
  /\ late \subseteq late' /\ looked' = looked
  /\ \A j \in DOMAIN job : j \in DOMAIN job' /\ (job[j] = "over" => job'[j] = "over")
  /\ \A l \in Loops : Processed(l)' => \/ Processed(l)
                                       \/ /\ looked => l \in late'
                                          /\ \A r \in present[l], c \in fragment[l] :
                                               <<r, l, c>> \in DOMAIN job'
  /\ \A k \in Loops : /\ loop'[k] = "commands" => loop[k] = "commands" /\ awaited'[k] = awaited[k]
                      /\ Past(k)' => Past(k)
  /\ \A r \in Replays : row'[r] = "DONE" => row[r] = "DONE" \/ \E k \in Loops : Past(k)

\* A calm step keeps what the stops rely on.
LEMMA CalmKeeps ==
  ASSUME Relied, Calm
  PROVE  Relied'
<1>1. PresentLoaded'
  BY DEF Relied, Calm, PresentLoaded
<1>2. Handed'
  BY DEF Relied, Calm, Handed
<1>3. Looked'
  BY DEF Relied, Calm, Looked
<1>4. AwaitsAll'
  <2> SUFFICES ASSUME NEW k \in Loops, loop'[k] = "commands", NEW l \in Loops \ late', Processed(l)',
                      NEW r \in present'[l], NEW c \in fragment'[l]
               PROVE  <<r, l, c>> \in awaited'[k]
    BY DEF AwaitsAll
  <2>1. loop[k] = "commands" /\ awaited'[k] = awaited[k] /\ l \in Loops \ late
        /\ r \in present[l] /\ c \in fragment[l]
    BY DEF Calm
  <2>2. looked
    BY <2>1 DEF Relied, Looked
  <2>3. Processed(l)
    BY <2>2 DEF Calm
  <2> QED
    BY <2>1, <2>3 DEF Relied, AwaitsAll
<1>5. ASSUME AllRan, looked PROVE AllRan'
  <2> SUFFICES ASSUME NEW l \in Loops \ late', Processed(l)', NEW r \in present'[l], NEW c \in fragment'[l]
               PROVE  <<r, l, c>> \in DOMAIN job' /\ job'[<<r, l, c>>] = "over"
    BY DEF AllRan
  <2>1. l \in Loops \ late /\ r \in present[l] /\ c \in fragment[l] /\ Processed(l)
    BY <1>5 DEF Calm
  <2>2. <<r, l, c>> \in DOMAIN job /\ job[<<r, l, c>>] = "over"
    BY <1>5, <2>1 DEF AllRan
  <2> QED
    BY <2>2 DEF Calm
<1>6. PastRan'
  BY <1>5 DEF Relied, Calm, PastRan, Looked
<1>7. DoneRan'
  <2> SUFFICES ASSUME NEW r \in Replays, row'[r] = "DONE" PROVE AllRan'
    BY DEF DoneRan
  <2>1. row[r] = "DONE" \/ \E k \in Loops : Past(k)
    BY DEF Calm
  <2>2. AllRan /\ looked
    BY <2>1 DEF Relied, PastRan, DoneRan, Looked
  <2> QED
    BY <1>5, <2>2
<1> QED
  BY <1>1, <1>2, <1>3, <1>4, <1>6, <1>7 DEF Relied

\* Loops and teardowns of which nothing changes.
LEMMA LoopsUntouched ==
  ASSUME UNCHANGED <<loop, awaited, job, present, fragment, late, looked>>,
         Mimicked \subseteq Mimicked',
         \A r \in Replays : row'[r] = "DONE" => row[r] = "DONE"
  PROVE  Calm
  BY DEF Calm, Processed, Past

\* One loop goes from a place to another, and no job but its own is new.
LEMMA OneLoopGoes ==
  ASSUME UNCHANGED <<loaded, present, fragment, late, looked>>,
         NEW k \in Loops, \A l \in Loops \ {k} : loop'[l] = loop[l] /\ awaited'[l] = awaited[l],
         \A j \in DOMAIN job : j \in DOMAIN job' /\ (job[j] = "over" => job'[j] = "over"),
         loop'[k] # "commands", Past(k)' => Past(k), Processed(k)' => Processed(k),
         \A r \in Replays : row'[r] = "DONE" => row[r] = "DONE" \/ Past(k)
  PROVE  Calm
<1>1. Mimicked' = Mimicked
  BY DEF Mimicked
<1>2. \A l \in Loops \ {k} : (Processed(l)' => Processed(l)) /\ (Past(l)' => Past(l))
  BY DEF Processed, Past
<1> QED
  BY <1>1, <1>2 DEF Calm

\* A loop that goes through the replays hands out its commands, which are late when a
\* stop has looked.
LEMMA LoopGoesThrough ==
  ASSUME TypeOK, PresentLoaded, UNCHANGED <<loaded, present, fragment, looked, awaited>>,
         NEW k \in Loops, NEW p \in Nat \ {0}, NEW begun, GoesThrough(k, p, begun),
         \A r \in Replays : row'[r] = "DONE" => row[r] = "DONE"
  PROVE  Calm
<1>1. Mimicked' = Mimicked /\ present[k] \subseteq Mimicked
  BY DEF Mimicked, PresentLoaded
<1>2. /\ \A j \in DOMAIN job : j \in DOMAIN job' /\ job'[j] = job[j]
      /\ \A l \in Loops \ {k} : loop'[l] = loop[l]
      /\ late \subseteq late'
      /\ \/ loop'[k] = "startTime"
         \/ /\ loop'[k] \in {"log", "over"}
            /\ Mimicked \X {k} \X fragment[k] \subseteq DOMAIN job'
            /\ looked => k \in late'
  BY GoesThroughTyped
<1>3. \A l \in Loops \ {k} : (Processed(l)' => Processed(l)) /\ (Past(l)' => Past(l))
  BY <1>2 DEF Processed, Past
<1>4. loop'[k] # "commands" /\ ~Past(k)'
  BY <1>2 DEF Past
<1>5. Processed(k)' => /\ looked => k \in late'
                       /\ \A r \in present[k], c \in fragment[k] : <<r, k, c>> \in DOMAIN job'
  BY <1>1, <1>2 DEF Processed
<1> QED
  BY <1>1, <1>2, <1>3, <1>4, <1>5 DEF Calm

\* The steps of setup, of failures and the log, of loops, jobs and teardowns are calm, but for
\* those where a loop begins, where a stop looks, and where its wait ends.
LEMMA SetupCalm ==
  ASSUME TypeOK, LoadingInRange, CaptureSetup \/ CaptureSetupFails \/ LoadReplay \/ RefuseReplay
                                 \/ AssignReplay \/ LoadingFails
  PROVE  Calm
<1> USE DEF init, process, log, loops, history
<1>1. CASE CaptureSetup \/ CaptureSetupFails \/ LoadReplay \/ LoadingFails
  BY <1>1, LoopsUntouched DEF CaptureSetup, CaptureSetupFails, LoadReplay, LoadingFails, Mimicked
<1>2. CASE RefuseReplay
  BY <1>2, LoopsUntouched DEF RefuseReplay, NextReplay, Mimicked
<1>3. CASE AssignReplay
  <2>1. loading \in Replays /\ loaded \in Seq(Replays)
    BY <1>3, MimicAssumption DEF TypeOK, LoadingInRange, AssignReplay, Replays
  <2>2. loaded' = Append(loaded, loading)
    BY <1>3 DEF AssignReplay, NextReplay
  <2>3. Len(loaded') = Len(loaded) + 1 /\ Len(loaded) \in Nat /\ \A i \in 1..Len(loaded) : loaded'[i] = loaded[i]
    BY <2>1, <2>2, AppendTyped
  <2>4. Mimicked \subseteq Mimicked'
    BY <2>3 DEF Mimicked
  <2>5. \A r \in Replays : row'[r] = "DONE" => row[r] = "DONE"
    BY <1>3, <2>1 DEF AssignReplay, TypeOK
  <2> QED
    BY <1>3, <2>4, <2>5, LoopsUntouched DEF AssignReplay
<1> QED
  BY <1>1, <1>2, <1>3

LEMMA FailureCalm ==
  ASSUME TypeOK, (\E r \in Replays : WriteRefused(r))
                 \/ (\E p \in 0..N : Panic(p) \/ PanicFails(p)) \/ Log
  PROVE  Calm
<1> USE DEF init, process, log, loops, history
<1>1. Mimicked' = Mimicked
  BY DEF WriteRefused, Panic, PanicFails, Log, Mimicked
<1>2. \A r \in Replays : row'[r] = "DONE" => row[r] = "DONE"
  BY DEF WriteRefused, Panic, PanicFails, Log, TypeOK
<1> QED
  BY <1>1, <1>2, LoopsUntouched DEF WriteRefused, Panic, PanicFails, Log

LEMMA LoopCalm ==
  ASSUME TypeOK, AtLoaded, PresentLoaded, NEW k \in Loops,
         FragmentStored(k) \/ WriteStartTime(k) \/ WriteRunning(k) \/ LoopFails(k)
  PROVE  Calm
<1> USE DEF init, process, log, loops, history
<1>1. CASE FragmentStored(k)
  BY <1>1, LoopGoesThrough DEF FragmentStored
<1>2. CASE WriteRunning(k)
  <2>1. at[k] \in 1..Len(loaded) /\ loaded \in Seq(Replays)
    BY <1>2 DEF WriteRunning, AtLoaded, TypeOK
  <2>2. at[k] + 1 \in Nat \ {0} /\ loaded[at[k]] \in Replays
    BY <2>1
  <2>3. \A r \in Replays : row'[r] = "DONE" => row[r] = "DONE"
    BY <1>2, <2>2 DEF WriteRunning, TypeOK
  <2> QED
    BY <1>2, <2>2, <2>3, LoopGoesThrough DEF WriteRunning
<1>3. CASE WriteStartTime(k) \/ LoopFails(k)
  <2>1. loop'[k] \in {"running", "rejected"} /\ \A l \in Loops \ {k} : loop'[l] = loop[l]
    BY <1>3 DEF WriteStartTime, LoopFails, Goes, TypeOK
  <2>2. loop'[k] # "commands" /\ ~Past(k)' /\ ~Processed(k)'
    BY <2>1 DEF Past, Processed
  <2> QED
    BY <1>3, <2>1, <2>2, OneLoopGoes DEF WriteStartTime, LoopFails
<1> QED
  BY <1>1, <1>2, <1>3

LEMMA JobCalm ==
  ASSUME TypeOK, NEW j \in DOMAIN job, JobOver(j) \/ JobFails(j)
  PROVE  Calm
<1> USE DEF init, process, log, loops, history
<1>1. \A i \in DOMAIN job : i \in DOMAIN job' /\ (job[i] = "over" => job'[i] = "over")
  BY DEF JobOver, JobFails
<1>2. UNCHANGED <<loop, awaited, row, loaded, present, fragment, late, looked>>
  BY DEF JobOver, JobFails
<1> QED
  BY <1>1, <1>2 DEF Calm, Processed, Past, Mimicked

LEMMA TeardownCalm ==
  ASSUME TypeOK, NEW k \in Loops,
         \/ WriteReplayStopping(k) \/ MetricsFinished(k) \/ PrepareFiles(k) \/ WriteDone(k)
         \/ WriteEndTime(k) \/ TeardownFails(k) \/ TimerFails(k)
  PROVE  Calm
<1> USE DEF init, process, log, loops, history
<1>1. CASE WriteReplayStopping(k)
  <2>1. NextOr(k, "stopping", "metrics") /\ (AwaitMetrics(k) \/ UNCHANGED <<job, awaited>>)
        /\ "stopping" \in Places /\ "metrics" \in Places
    BY <1>1 DEF WriteReplayStopping, Places
  <2>2. loop'[k] \in {"stopping", "metrics"} /\ \A l \in Loops \ {k} : loop'[l] = loop[l]
    BY <2>1, NextOrTyped
  <2>3. /\ \A j \in DOMAIN job : j \in DOMAIN job' /\ job'[j] = job[j]
        /\ \A l \in Loops \ {k} : awaited'[l] = awaited[l]
    BY <2>1, AwaitMetricsTyped
  <2>4. \A r \in Replays : row'[r] = "DONE" => row[r] = "DONE"
    BY <1>1 DEF WriteReplayStopping, TypeOK
  <2>5. loop'[k] # "commands" /\ Past(k) /\ Processed(k)
    BY <1>1, <2>2 DEF WriteReplayStopping, Past, Processed
  <2> QED
    BY <1>1, <2>2, <2>3, <2>4, <2>5, OneLoopGoes DEF WriteReplayStopping
<1>2. CASE PrepareFiles(k) \/ WriteEndTime(k)
  <2>1. NextOr(k, "done", "over") /\ "done" \in Places /\ "over" \in Places
    BY <1>2 DEF PrepareFiles, WriteEndTime, Places
  <2>2. loop'[k] \in {"done", "over"} /\ \A l \in Loops \ {k} : loop'[l] = loop[l]
    BY <2>1, NextOrTyped
  <2>3. loop'[k] # "commands" /\ Past(k) /\ Processed(k)
    BY <1>2, <2>2 DEF PrepareFiles, WriteEndTime, Past, Processed
  <2> QED
    BY <1>2, <2>2, <2>3, OneLoopGoes DEF PrepareFiles, WriteEndTime
<1>3. CASE MetricsFinished(k) \/ WriteDone(k)
  <2>1. loop'[k] \in {"files", "endTime"} /\ \A l \in Loops \ {k} : loop'[l] = loop[l]
    BY <1>3 DEF MetricsFinished, WriteDone, Goes, TypeOK
  <2>2. loop'[k] # "commands" /\ Past(k) /\ Processed(k)
    BY <1>3, <2>1 DEF MetricsFinished, WriteDone, Past, Processed
  <2> QED
    BY <1>3, <2>1, <2>2, OneLoopGoes DEF MetricsFinished, WriteDone
<1>4. CASE TeardownFails(k) \/ TimerFails(k)
  <2>1. loop'[k] = "rejected" /\ \A l \in Loops \ {k} : loop'[l] = loop[l]
    BY <1>4 DEF TeardownFails, TimerFails, Goes, TypeOK
  <2>2. loop'[k] # "commands" /\ ~Past(k)' /\ ~Processed(k)'
    BY <2>1 DEF Past, Processed
  <2> QED
    BY <1>4, <2>1, <2>2, OneLoopGoes DEF TeardownFails, TimerFails
<1> QED
  BY <1>1, <1>2, <1>3, <1>4

\* A loop that begins has handed out nothing, and knows the replays that are loaded.
LEMMA BeginKeeps ==
  ASSUME TypeOK, Relied, NEW x \in BOOLEAN, LoopBegins(x),
         UNCHANGED <<row, loaded, job, awaited, late, looked>>
  PROVE  Relied'
<1>1. PICK k \in Loops :
        /\ loop'[k] \in {"query", "rejected"} /\ present'[k] = Mimicked
        /\ \A l \in Loops \ {k} : loop'[l] = loop[l] /\ present'[l] = present[l]
                                /\ fragment'[l] = fragment[l]
  BY LoopBeginsTyped
<1>2. Mimicked' = Mimicked
  BY DEF Mimicked
<1>3. ~Processed(k)' /\ ~Past(k)' /\ loop'[k] # "commands"
  BY <1>1 DEF Processed, Past
<1>4. \A l \in Loops \ {k} : (Processed(l)' => Processed(l)) /\ (Past(l)' => Past(l))
  BY <1>1 DEF Processed, Past
<1>5. PresentLoaded'
  BY <1>1, <1>2 DEF Relied, PresentLoaded
<1>6. Handed'
  BY <1>1, <1>3, <1>4 DEF Relied, Handed
<1>7. Looked'
  BY <1>1, <1>3, <1>4 DEF Relied, Looked
<1>8. AwaitsAll'
  BY <1>1, <1>3, <1>4 DEF Relied, AwaitsAll
<1>9. AllRan => AllRan'
  BY <1>1, <1>3, <1>4 DEF AllRan
<1>10. PastRan' /\ DoneRan'
  BY <1>1, <1>3, <1>4, <1>9 DEF Relied, PastRan, DoneRan
<1> QED
  BY <1>5, <1>6, <1>7, <1>8, <1>10 DEF Relied

\* What a stop sees when it looks is everything that was handed out.
LEMMA LookKeeps ==
  ASSUME TypeOK, Relied, NEW k \in Loops, loop[k] = "log", AwaitCommands(k),
         UNCHANGED <<row, loaded, job, present, fragment, late>>
  PROVE  Relied'
<1>1. /\ loop'[k] = "commands" /\ awaited'[k] = CommandsOf(Mimicked) /\ looked'
      /\ \A l \in Loops \ {k} : loop'[l] = loop[l] /\ awaited'[l] = awaited[l]
  BY AwaitCommandsTyped
<1>2. Mimicked' = Mimicked
  BY DEF Mimicked
<1>3. \A l \in Loops : (Processed(l)' <=> Processed(l)) /\ (Past(l)' => Past(l))
  BY <1>1 DEF Processed, Past
<1>4. PresentLoaded'
  BY <1>2 DEF Relied, PresentLoaded
<1>5. Handed'
  BY <1>3 DEF Relied, Handed
<1>6. Looked'
  BY <1>1 DEF Looked
<1>7. AwaitsAll'
  <2> SUFFICES ASSUME NEW i \in Loops, loop'[i] = "commands", NEW l \in Loops \ late', Processed(l)',
                      NEW r \in present'[l], NEW c \in fragment'[l]
               PROVE  <<r, l, c>> \in awaited'[i]
    BY DEF AwaitsAll
  <2>1. l \in Loops \ late /\ Processed(l) /\ r \in present[l] /\ c \in fragment[l]
    BY <1>3
  <2>2. CASE i = k
    <3>1. <<r, l, c>> \in DOMAIN job /\ r \in Mimicked
      BY <2>1 DEF Relied, Handed, PresentLoaded
    <3>2. c \in Commands
      BY <2>1 DEF TypeOK
    <3> QED
      BY <1>1, <2>2, <3>1, <3>2 DEF CommandsOf, IsCommand
  <2>3. CASE i # k
    BY <1>1, <2>1, <2>3 DEF Relied, AwaitsAll
  <2> QED
    BY <2>2, <2>3
<1>8. AllRan => AllRan'
  BY <1>3 DEF AllRan
<1>9. PastRan' /\ DoneRan'
  BY <1>3, <1>8 DEF Relied, PastRan, DoneRan
<1> QED
  BY <1>4, <1>5, <1>6, <1>7, <1>9 DEF Relied

\* A stop whose commands have finished is past the wait, and all were executed.
LEMMA FinishKeeps ==
  ASSUME TypeOK, Relied, NEW k \in Loops, CommandsFinished(k)
  PROVE  Relied'
<1> USE DEF init, process, log, loops, history
<1>1. NextOr(k, "stopping", "metrics") /\ (AwaitMetrics(k) \/ UNCHANGED <<job, awaited>>)
      /\ "stopping" \in Places /\ "metrics" \in Places
  BY DEF CommandsFinished, Places
<1>2. loop'[k] \in {"stopping", "metrics"} /\ \A l \in Loops \ {k} : loop'[l] = loop[l]
  BY <1>1, NextOrTyped
<1>3. /\ \A j \in DOMAIN job : j \in DOMAIN job' /\ job'[j] = job[j]
      /\ \A l \in Loops \ {k} : awaited'[l] = awaited[l]
  BY <1>1, AwaitMetricsTyped
<1>4. loop[k] = "commands" /\ Settled(k) /\ UNCHANGED <<row, loaded, present, fragment, late, looked>>
  BY DEF CommandsFinished
<1>5. Mimicked' = Mimicked
  BY <1>4 DEF Mimicked
<1>6. \A l \in Loops : (Processed(l)' <=> Processed(l)) /\ (loop'[l] = "commands" => l # k)
  BY <1>2, <1>4 DEF Processed
<1>7. looked
  BY <1>4 DEF Relied, Looked
<1>8. PresentLoaded'
  BY <1>4, <1>5 DEF Relied, PresentLoaded
<1>9. Handed'
  BY <1>3, <1>4, <1>6 DEF Relied, Handed
<1>10. Looked'
  BY <1>4, <1>7 DEF Looked
<1>11. AwaitsAll'
  BY <1>2, <1>3, <1>4, <1>6 DEF Relied, AwaitsAll
<1>12. AllRan
  BY <1>4 DEF Relied, AwaitsAll, Handed, Settled, AllRan
<1>13. AllRan'
  BY <1>3, <1>4, <1>6, <1>12 DEF AllRan
<1> QED
  BY <1>8, <1>9, <1>10, <1>11, <1>13 DEF Relied, PastRan, DoneRan

\* Every step keeps what the stops rely on.
LEMMA ReliedStep ==
  TypeOK /\ IInv /\ [Next]_vars => Relied'
<1> SUFFICES ASSUME TypeOK, LoadingInRange, AtLoaded, Relied, [Next]_vars PROVE Relied'
  BY DEF IInv
<1>0. PresentLoaded
  BY DEF Relied
<1> USE DEF init, process, log, loops, history
<1>1. CASE Setup \/ CaptureSetupFails \/ RefuseReplay \/ LoadingFails
  BY <1>1, SetupCalm, CalmKeeps DEF Setup
<1>2. CASE Log \/ (\E r \in Replays : WriteRefused(r)) \/ (\E p \in 0..N : Panic(p) \/ PanicFails(p))
  BY <1>2, FailureCalm, CalmKeeps
<1>3. CASE Tick
  <2>1. LoopBegins(FALSE) /\ UNCHANGED <<row, loaded, job, awaited, late, looked>>
    BY <1>3 DEF Tick
  <2> QED
    BY <2>1, BeginKeeps
<1>4. CASE Stop
  <2>1. LoopBegins(TRUE) /\ UNCHANGED <<row, loaded, job, awaited, late, looked>>
    BY <1>4 DEF Stop
  <2> QED
    BY <2>1, BeginKeeps
<1>5. ASSUME NEW k \in Loops, LoopStep(k) \/ LoopFails(k) \/ LogFails(k) \/ TeardownFails(k) \/ TimerFails(k)
      PROVE  Relied'
  <2>1. CASE FragmentStored(k) \/ WriteStartTime(k) \/ WriteRunning(k) \/ LoopFails(k)
    BY <1>0, <2>1, LoopCalm, CalmKeeps
  <2>2. CASE LogDecided(k) \/ LogFails(k)
    <3>1. loop[k] = "log" /\ AwaitCommands(k) /\ UNCHANGED <<row, loaded, job, present, fragment, late>>
      BY <2>2 DEF LogDecided, LogFails
    <3> QED
      BY <3>1, LookKeeps
  <2>3. CASE CommandsFinished(k)
    BY <2>3, FinishKeeps
  <2>4. CASE \/ WriteReplayStopping(k) \/ MetricsFinished(k) \/ PrepareFiles(k) \/ WriteDone(k)
             \/ WriteEndTime(k) \/ TeardownFails(k) \/ TimerFails(k)
    BY <2>4, TeardownCalm, CalmKeeps
  <2> QED
    BY <1>5, <2>1, <2>2, <2>3, <2>4 DEF LoopStep
<1>6. CASE \E j \in DOMAIN job : JobOver(j) \/ JobFails(j)
  BY <1>6, JobCalm, CalmKeeps
<1>7. CASE UNCHANGED vars
  <2>1. Calm
    BY <1>7, LoopsUntouched DEF vars, Mimicked
  <2> QED
    BY <2>1, CalmKeeps
<1> QED
  BY <1>1, <1>2, <1>3, <1>4, <1>5, <1>6, <1>7 DEF Next

----------------------------------------------------------------------------
(* Theorems                                                                 *)

LEMMA Invariant == Spec => [](TypeOK /\ IInv)
<1>1. Init => TypeOK /\ IInv
  BY InitTyped, InitRelied DEF IInv
<1>2. TypeOK /\ IInv /\ [Next]_vars => (TypeOK /\ IInv)'
  BY TypeStep, ReliedStep DEF IInv
<1> QED
  BY <1>1, <1>2, PTL DEF Spec

\* Every reachable state of a mimic is well typed: the replays a loop is at are loaded, and
\* what is awaited are promises of commands and metrics.
THEOREM MimicTyped == Spec => []TypeOK
<1> QED
  BY Invariant, PTL

\* For any number of replays, loops, stops and failures, a replay that is DONE has executed
\* every command it was given by the loops that a stop did not overtake.
THEOREM DoneAfterCommands == Spec => []DoneRanAll
<1>1. IInv => DoneRanAll
  BY DEF IInv, Relied, DoneRan, AllRan, Processed, DoneRanAll
<1> QED
  BY <1>1, Invariant, PTL

----------------------------------------------------------------------------
(* The status of a replay goes forward                                      *)

\* What StatusForward makes an exception of.
Disturbed == early \/ overtaken \/ Cardinality(extra) > 1 \/ panics # {}

Starts(k) == loop[k] \in {"startTime", "running"}
Tears(k)  == loop[k] \in {"log", "commands", "stopping", "metrics", "files", "done", "endTime"}

\* A replay that is loaded, or refused, is before the one being loaded, and is not both.
LoadedOrRefused ==
  /\ \A i \in 1..Len(loaded) : loaded[i] < loading
  /\ \A r \in refused : r < loading /\ r \notin Mimicked

\* The loops of stops have begun, only they go on to a teardown, and it is at a replay
\* that is loaded when it writes a row.
StopsTearDown ==
  /\ extra \subseteq 1..count
  /\ \A k \in Loops : Tears(k) => k \in extra
  /\ \A k \in Loops : loop[k] \in {"stopping", "done", "endTime"} => at[k] \in 1..Len(loaded)

\* A loop that starts a replay has found those before it started.
StartedBefore == \A k \in Loops : Starts(k) => \A i \in 1..(at[k] - 1) : loaded[i] \in started

Placed == LoadedOrRefused /\ StopsTearDown /\ StartedBefore

\* The row of a replay nobody has loaded is as it was inserted.
NotYetLoaded == \A r \in Replays : r >= loading => row[r] = "STARTED"

\* The row of one that is loaded has not FAILED, and is STOPPING or DONE only after a stop
\* has looked.
RowsOfLoaded ==
  \A r \in Mimicked : row[r] \in {"STARTING", "RUNNING"} \/ (looked /\ row[r] \in {"STOPPING", "DONE"})

StopsAfterSetup == extra # {} => setup = "over"

\* When a stop looks all replays have started, and no loop starts one afterwards.
AllStarted ==
  /\ looked => Mimicked \subseteq started /\ \A k \in Loops : ~Starts(k)
  /\ \A k \in Loops : loop[k] = "log" => Mimicked \subseteq started

\* The stop that has not looked yet is the only one.
OneLook ==
  /\ looked => extra # {}
  /\ \A k \in extra : loop[k] \in {"none", "query", "startTime", "running", "log"} => ~looked

\* No replay is DONE before all were STOPPING.
NoneDone == \A k \in Loops : loop[k] \in {"commands", "stopping"} => \A r \in Mimicked : row[r] # "DONE"

Orderly == /\ NotYetLoaded /\ RowsOfLoaded /\ StopsAfterSetup /\ AllStarted /\ OneLook /\ NoneDone

\* From where it goes on, a loop starts the first replay that has not started, or has
\* found all started.
LEMMA GoesThroughStarted ==
  ASSUME TypeOK, NEW k \in Loops, NEW p \in Nat \ {0}, NEW begun, GoesThrough(k, p, begun),
         \A i \in 1..Len(loaded) : i < p => loaded[i] \in begun
  PROVE  \/ /\ loop'[k] = "startTime" /\ ~(Mimicked \subseteq begun)
            /\ \A i \in 1..(at'[k] - 1) : loaded[i] \in begun
         \/ /\ loop'[k] = (IF k \in extra THEN "log" ELSE "over")
            /\ Mimicked \subseteq begun
<1> DEFINE due == {i \in p..Len(loaded) : loaded[i] \notin begun}
<1>0. Len(loaded) \in Nat /\ p \in Nat /\ p >= 1
  BY DEF TypeOK
<1>1. CASE due # {}
  <2>1. PICK i \in due : (\A x \in due : i <= x) /\ at' = [at EXCEPT ![k] = i]
    BY <1>1 DEF GoesThrough
  <2>2. loop'[k] = "startTime" /\ at'[k] = i
    BY <1>1, <2>1 DEF GoesThrough, Goes, TypeOK
  <2>3. i \in p..Len(loaded) /\ loaded[i] \notin begun
    OBVIOUS
  <2>4. i \in 1..Len(loaded)
    BY <1>0, <2>3
  <2>5. ~(Mimicked \subseteq begun)
    BY <2>3, <2>4 DEF Mimicked
  <2>6. ASSUME NEW x \in 1..(i - 1) PROVE loaded[x] \in begun
    <3>1. x \in 1..Len(loaded) /\ x < i
      BY <1>0, <2>4
    <3>2. CASE x < p
      BY <3>1, <3>2
    <3>3. CASE ~(x < p)
      <4>1. x \in p..Len(loaded)
        BY <1>0, <3>1, <3>3
      <4>2. x \notin due
        BY <1>0, <2>1, <2>4, <3>1
      <4> QED
        BY <4>1, <4>2
    <3> QED
      BY <3>2, <3>3
  <2> QED
    BY <2>2, <2>5, <2>6
<1>2. CASE due = {}
  <2>1. loop'[k] = (IF k \in extra THEN "log" ELSE "over")
    BY <1>2 DEF GoesThrough, Goes, TypeOK
  <2>2. ASSUME NEW i \in 1..Len(loaded) PROVE loaded[i] \in begun
    <3>1. CASE i < p
      BY <3>1
    <3>2. CASE ~(i < p)
      <4>1. i \in p..Len(loaded)
        BY <1>0, <3>2
      <4> QED
        BY <1>2, <4>1
    <3> QED
      BY <3>1, <3>2
  <2> QED
    BY <2>1, <2>2 DEF Mimicked
<1> QED
  BY <1>1, <1>2

\* What a step may change about one loop.
LEMMA PlacedKept ==
  ASSUME TypeOK, Placed, UNCHANGED <<loaded, loading, extra, count>>,
         refused' \subseteq refused, started \subseteq started', NEW k \in Loops,
         \A l \in Loops \ {k} : loop'[l] = loop[l] /\ at'[l] = at[l],
         Tears(k)' => k \in extra,
         loop'[k] \in {"stopping", "done", "endTime"} => at'[k] \in 1..Len(loaded),
         Starts(k)' => \A i \in 1..(at'[k] - 1) : loaded[i] \in started'
  PROVE  Placed'
<1>1. Mimicked' = Mimicked
  BY DEF Mimicked
<1>2. LoadedOrRefused'
  BY <1>1 DEF Placed, LoadedOrRefused
<1>3. \A l \in Loops \ {k} : (Tears(l)' => Tears(l)) /\ (Starts(l)' => Starts(l))
  BY DEF Tears, Starts
<1>4. StopsTearDown'
  BY <1>3 DEF Placed, StopsTearDown
<1>5. StartedBefore'
  BY <1>3 DEF Placed, StartedBefore
<1> QED
  BY <1>2, <1>4, <1>5 DEF Placed

LEMMA PlacedUntouched ==
  ASSUME Placed, UNCHANGED <<loaded, loading, extra, count, loop, at, started>>, refused' \subseteq refused
  PROVE  Placed'
  BY DEF Placed, LoadedOrRefused, StopsTearDown, StartedBefore, Tears, Starts, Mimicked

\* A teardown that goes on is at a replay that is loaded.
LEMMA NextOrPlaced ==
  ASSUME TypeOK, Placed, UNCHANGED <<loaded, loading, extra, count, started, refused>>,
         NEW k \in Loops, Tears(k), NEW again \in Places, NEW after \in {"metrics", "over"},
         ~(again \in {"startTime", "running"}), NextOr(k, again, after)
  PROVE  Placed'
<1>1. after \in Places
  BY DEF Places
<1>2. /\ \A l \in Loops \ {k} : loop'[l] = loop[l] /\ at'[l] = at[l]
      /\ loop'[k] \in {again, after}
  BY <1>1, NextOrTyped
<1>3. k \in extra
  BY DEF Placed, StopsTearDown
<1>4. Len(loaded) \in Nat /\ at[k] \in Nat
  BY MimicAssumption DEF TypeOK
<1>5. at[k] < Len(loaded) => at'[k] = at[k] + 1
  BY DEF NextOr, TypeOK
<1>6. ~(at[k] < Len(loaded)) => loop'[k] = after
  BY DEF NextOr, TypeOK
<1>7. loop'[k] \in {"stopping", "done", "endTime"} => at'[k] \in 1..Len(loaded)
  <2> SUFFICES ASSUME loop'[k] \in {"stopping", "done", "endTime"} PROVE at'[k] \in 1..Len(loaded)
    OBVIOUS
  <2>1. loop'[k] # after
    OBVIOUS
  <2> QED
    BY <1>4, <1>5, <1>6, <2>1
<1>8. ~Starts(k)'
  BY <1>2 DEF Starts
<1> QED
  BY <1>2, <1>3, <1>7, <1>8, PlacedKept

\* One loop goes to a place where it starts nothing.
LEMMA GoesPlaced ==
  ASSUME TypeOK, Placed, UNCHANGED <<loaded, loading, extra, count, started, refused, at>>,
         NEW k \in Loops, NEW place \in Places, Goes(k, place),
         place \notin {"startTime", "stopping", "done"},
         place = "running" => Starts(k),
         place = "endTime" => loop[k] = "done",
         place \in {"log", "commands", "metrics", "files", "endTime"} => k \in extra
  PROVE  Placed'
<1>1. loop'[k] = place /\ \A l \in Loops \ {k} : loop'[l] = loop[l]
  BY GoesTyped
<1>2. Tears(k)' => k \in extra
  BY <1>1 DEF Tears
<1>3. loop'[k] \in {"stopping", "done", "endTime"} => at'[k] \in 1..Len(loaded)
  BY <1>1 DEF Placed, StopsTearDown
<1>4. Starts(k)' => \A i \in 1..(at'[k] - 1) : loaded[i] \in started'
  BY <1>1 DEF Placed, StartedBefore, Starts
<1> QED
  BY <1>1, <1>2, <1>3, <1>4, PlacedKept

\* A loop that goes through the replays is at one that has not started, the first.
LEMMA GoesThroughPlaced ==
  ASSUME TypeOK, Placed, UNCHANGED <<loaded, loading, extra, count, refused>>, started \subseteq started',
         NEW k \in Loops, NEW p \in Nat \ {0}, GoesThrough(k, p, started'),
         \A i \in 1..Len(loaded) : i < p => loaded[i] \in started'
  PROVE  Placed'
<1>1. \A l \in Loops \ {k} : loop'[l] = loop[l] /\ at'[l] = at[l]
  BY GoesThroughTyped
<1>2. \/ /\ loop'[k] = "startTime"
         /\ \A i \in 1..(at'[k] - 1) : loaded[i] \in started'
      \/ loop'[k] = (IF k \in extra THEN "log" ELSE "over")
  BY GoesThroughStarted
<1>3. Tears(k)' => k \in extra
  BY <1>2 DEF Tears
<1>4. loop'[k] \notin {"stopping", "done", "endTime"}
  BY <1>2
<1>5. Starts(k)' => \A i \in 1..(at'[k] - 1) : loaded[i] \in started'
  BY <1>2 DEF Starts
<1> QED
  BY <1>1, <1>3, <1>4, <1>5, PlacedKept

LEMMA BeginPlaced ==
  ASSUME TypeOK, Placed, NEW x \in BOOLEAN, LoopBegins(x), UNCHANGED <<loaded, loading, started, refused, at>>
  PROVE  Placed'
<1>1. /\ count' \in Loops /\ loop'[count'] \in {"query", "rejected"}
      /\ \A l \in Loops \ {count'} : loop'[l] = loop[l]
  BY LoopBeginsTyped
<1>2. count' = count + 1 /\ count \in Nat /\ extra' \subseteq extra \cup {count'} /\ extra \subseteq extra'
  BY DEF LoopBegins, TypeOK
<1>3. extra' \subseteq 1..count'
  BY <1>2 DEF Placed, StopsTearDown
<1>4. LoadedOrRefused'
  BY DEF Placed, LoadedOrRefused, Mimicked
<1>5. \A l \in Loops : (Tears(l)' => Tears(l)) /\ (Starts(l)' => Starts(l))
  BY <1>1 DEF Tears, Starts
<1>6. \A l \in Loops : loop'[l] \in {"stopping", "done", "endTime"} => loop'[l] = loop[l]
  BY <1>1
<1>7. StopsTearDown'
  BY <1>2, <1>3, <1>5, <1>6 DEF Placed, StopsTearDown
<1>8. StartedBefore'
  BY <1>5 DEF Placed, StartedBefore
<1> QED
  BY <1>4, <1>7, <1>8 DEF Placed

\* One more replay is refused, or loaded.
LEMMA RefusePlaced ==
  ASSUME TypeOK, LoadingInRange, Placed, RefuseReplay
  PROVE  Placed'
<1> USE DEF init, process, log, loops, history
<1>1. /\ loaded' = loaded /\ loading' = loading + 1 /\ refused' = refused \cup {loading}
      /\ UNCHANGED <<extra, count, loop, at, started>> /\ loading \in Nat
  BY MimicAssumption DEF RefuseReplay, NextReplay, TypeOK
<1>2. Mimicked' = Mimicked
  BY <1>1 DEF Mimicked
<1>3. \A i \in 1..Len(loaded) : loaded[i] \in Nat /\ loaded[i] < loading
  <2>1. \A i \in 1..Len(loaded) : loaded[i] \in Replays
    BY DEF TypeOK
  <2> QED
    BY <2>1 DEF Replays, Placed, LoadedOrRefused
<1>4. loading \notin Mimicked
  BY <1>1, <1>3 DEF Mimicked
<1>5. \A r \in refused : r \in Nat /\ r < loading /\ r \notin Mimicked
  <2>1. refused \subseteq 1..N
    BY DEF TypeOK, Replays
  <2> QED
    BY <2>1 DEF Placed, LoadedOrRefused
<1>6. LoadedOrRefused'
  <2>1. \A i \in 1..Len(loaded') : loaded'[i] < loading'
    BY <1>1, <1>3
  <2>2. \A r \in refused' : r < loading' /\ r \notin Mimicked'
    BY <1>1, <1>2, <1>4, <1>5
  <2> QED
    BY <2>1, <2>2 DEF LoadedOrRefused
<1>7. StopsTearDown' /\ StartedBefore'
  BY <1>1 DEF Placed, StopsTearDown, StartedBefore, Tears, Starts
<1> QED
  BY <1>6, <1>7 DEF Placed

\* What is loaded is there, and the next.
LEMMA AssignAppends ==
  ASSUME TypeOK, LoadingInRange, AssignReplay
  PROVE  /\ loading \in Replays /\ loading \in Nat /\ loading' = loading + 1
         /\ Len(loaded) \in Nat /\ Len(loaded') = Len(loaded) + 1
         /\ loaded'[Len(loaded) + 1] = loading /\ \A i \in 1..Len(loaded) : loaded'[i] = loaded[i]
         /\ Mimicked' = Mimicked \cup {loading}
<1> USE DEF init, process, log, loops, history
<1>1. loading \in Replays /\ loading \in Nat /\ loaded \in Seq(Replays) /\ Len(loaded) \in Nat
  BY MimicAssumption DEF AssignReplay, TypeOK, LoadingInRange, Replays
<1>2. loaded' = Append(loaded, loading) /\ loading' = loading + 1
  BY DEF AssignReplay, NextReplay
<1>3. Len(loaded') = Len(loaded) + 1 /\ \A i \in 1..Len(loaded) : loaded'[i] = loaded[i]
  BY <1>1, <1>2, AppendTyped
<1>4. loaded'[Len(loaded) + 1] = loading
  BY <1>1, <1>2
<1>5. ASSUME NEW i \in 1..Len(loaded') PROVE loaded'[i] \in Mimicked \cup {loading}
  <2>1. i \in 1..Len(loaded) \/ i = Len(loaded) + 1
    BY <1>1, <1>3
  <2> QED
    BY <1>3, <1>4, <2>1 DEF Mimicked
<1>6. ASSUME NEW i \in 1..Len(loaded) PROVE loaded[i] \in Mimicked'
  <2>1. i \in 1..Len(loaded') /\ loaded'[i] = loaded[i]
    BY <1>1, <1>3
  <2> QED
    BY <2>1 DEF Mimicked
<1>7. loading \in Mimicked'
  <2>1. Len(loaded) + 1 \in 1..Len(loaded')
    BY <1>1, <1>3
  <2> QED
    BY <1>4, <2>1 DEF Mimicked
<1>8. Mimicked' \subseteq Mimicked \cup {loading}
  BY <1>5 DEF Mimicked
<1>9. Mimicked \subseteq Mimicked'
  BY <1>6 DEF Mimicked
<1> QED
  BY <1>1, <1>2, <1>3, <1>4, <1>7, <1>8, <1>9

LEMMA AssignPlaced ==
  ASSUME TypeOK, LoadingInRange, AtLoaded, Placed, AssignReplay
  PROVE  Placed'
<1> USE DEF init, process, log, loops, history
<1>1. /\ loading \in Nat /\ loading' = loading + 1
      /\ Len(loaded) \in Nat /\ Len(loaded') = Len(loaded) + 1
      /\ loaded'[Len(loaded) + 1] = loading /\ \A i \in 1..Len(loaded) : loaded'[i] = loaded[i]
      /\ Mimicked' = Mimicked \cup {loading}
  BY AssignAppends
<1>2. UNCHANGED <<refused, extra, count, loop, at, started>>
  BY DEF AssignReplay
<1>3. \A i \in 1..Len(loaded) : loaded[i] \in Nat /\ loaded[i] < loading
  <2>1. \A i \in 1..Len(loaded) : loaded[i] \in Replays
    BY DEF TypeOK
  <2> QED
    BY <2>1 DEF Replays, Placed, LoadedOrRefused
<1>4. \A r \in refused : r \in Nat /\ r < loading /\ r \notin Mimicked
  <2>1. refused \subseteq 1..N
    BY DEF TypeOK, Replays
  <2> QED
    BY <2>1 DEF Placed, LoadedOrRefused
<1>5. \A i \in 1..Len(loaded') : loaded'[i] < loading'
  <2> SUFFICES ASSUME NEW i \in 1..Len(loaded') PROVE loaded'[i] < loading'
    OBVIOUS
  <2>1. i \in 1..Len(loaded) \/ i = Len(loaded) + 1
    BY <1>1
  <2> QED
    BY <1>1, <1>3, <2>1
<1>6. \A r \in refused' : r < loading' /\ r \notin Mimicked'
  BY <1>1, <1>2, <1>4
<1>7. LoadedOrRefused'
  BY <1>5, <1>6 DEF LoadedOrRefused
<1>8. 1..Len(loaded) \subseteq 1..Len(loaded')
  BY <1>1
<1>9. StopsTearDown'
  BY <1>2, <1>8 DEF Placed, StopsTearDown, Tears
<1>10. StartedBefore'
  <2> SUFFICES ASSUME NEW k \in Loops, Starts(k), NEW i \in 1..(at[k] - 1)
               PROVE  loaded'[i] \in started
    BY <1>2 DEF StartedBefore, Starts
  <2>1. at[k] \in 1..Len(loaded)
    BY DEF AtLoaded, Starts
  <2>2. i \in 1..Len(loaded)
    BY <1>1, <2>1
  <2> QED
    BY <1>1, <2>2 DEF Placed, StartedBefore
<1> QED
  BY <1>7, <1>9, <1>10 DEF Placed

LEMMA StartedSoFar ==
  ASSUME TypeOK, AtLoaded, Placed, NEW k \in Loops, WriteRunning(k)
  PROVE  /\ at[k] \in 1..Len(loaded) /\ loaded[at[k]] \in Mimicked /\ loaded[at[k]] \in Replays
         /\ at[k] + 1 \in Nat \ {0} /\ started' = started \cup {loaded[at[k]]}
         /\ \A i \in 1..Len(loaded) : i < at[k] + 1 => loaded[i] \in started'
<1> USE DEF init, process, log, loops, history
<1>1. at[k] \in 1..Len(loaded) /\ Len(loaded) \in Nat /\ loaded \in Seq(Replays)
  BY DEF WriteRunning, AtLoaded, TypeOK
<1>2. started' = started \cup {loaded[at[k]]}
  BY DEF WriteRunning
<1>3. ASSUME NEW i \in 1..Len(loaded), i < at[k] + 1 PROVE loaded[i] \in started'
  <2>1. i = at[k] \/ i \in 1..(at[k] - 1)
    BY <1>1, <1>3
  <2>2. Starts(k)
    BY DEF WriteRunning, Starts
  <2> QED
    BY <1>2, <2>1, <2>2 DEF Placed, StartedBefore
<1>4. at[k] + 1 \in Nat \ {0} /\ loaded[at[k]] \in Mimicked /\ loaded[at[k]] \in Replays
  BY <1>1 DEF Mimicked
<1> QED
  BY <1>1, <1>2, <1>3, <1>4

\* Every step keeps the loops where they may be.
LEMMA PlacedStep ==
  TypeOK /\ LoadingInRange /\ AtLoaded /\ Placed /\ [Next]_vars => Placed'
<1> SUFFICES ASSUME TypeOK, LoadingInRange, AtLoaded, Placed, [Next]_vars PROVE Placed'
  OBVIOUS
<1> USE DEF init, process, log, loops, history
<1>1. CASE CaptureSetup \/ CaptureSetupFails \/ LoadReplay \/ LoadingFails \/ Log \/ UNCHANGED vars
           \/ (\E r \in Replays : WriteRefused(r)) \/ (\E p \in 0..N : Panic(p) \/ PanicFails(p))
           \/ (\E j \in DOMAIN job : JobOver(j) \/ JobFails(j))
  <2>1. UNCHANGED <<loaded, loading, extra, count, loop, at, started>> /\ refused' \subseteq refused
    BY <1>1 DEF CaptureSetup, CaptureSetupFails, LoadReplay, LoadingFails, Log, vars,
                WriteRefused, Panic, PanicFails, JobOver, JobFails
  <2> QED
    BY <2>1, PlacedUntouched
<1>2. CASE RefuseReplay
  BY <1>2, RefusePlaced
<1>3. CASE AssignReplay
  BY <1>3, AssignPlaced
<1>4. CASE Tick
  <2>1. LoopBegins(FALSE) /\ UNCHANGED <<loaded, loading, started, refused, at>>
    BY <1>4 DEF Tick
  <2> QED
    BY <2>1, BeginPlaced
<1>5. CASE Stop
  <2>1. LoopBegins(TRUE) /\ UNCHANGED <<loaded, loading, started, refused, at>>
    BY <1>5 DEF Stop
  <2> QED
    BY <2>1, BeginPlaced
<1>6. ASSUME NEW k \in Loops, LoopStep(k) \/ LoopFails(k) \/ LogFails(k) \/ TeardownFails(k) \/ TimerFails(k)
      PROVE  Placed'
  <2>1. CASE FragmentStored(k)
    <3>1. Len(loaded) \in Nat
      BY DEF TypeOK
    <3>2. 1 \in Nat \ {0} /\ \A i \in 1..Len(loaded) : i < 1 => loaded[i] \in started'
      BY <3>1
    <3>3. GoesThrough(k, 1, started') /\ UNCHANGED <<loaded, loading, extra, count, refused, started>>
      BY <2>1 DEF FragmentStored
    <3> QED
      BY <3>2, <3>3, GoesThroughPlaced
  <2>2. CASE WriteRunning(k)
    <3>1. GoesThrough(k, at[k] + 1, started') /\ UNCHANGED <<loaded, loading, extra, count, refused>>
      BY <2>2 DEF WriteRunning
    <3> QED
      BY <2>2, <3>1, StartedSoFar, GoesThroughPlaced
  <2>3. CASE WriteStartTime(k) \/ LoopFails(k) \/ TeardownFails(k) \/ TimerFails(k) \/ MetricsFinished(k)
             \/ WriteDone(k)
    <3>1. UNCHANGED <<loaded, loading, extra, count, started, refused, at>>
      BY <2>3 DEF WriteStartTime, LoopFails, TeardownFails, TimerFails, MetricsFinished, WriteDone
    <3>2. CASE LoopFails(k) \/ TeardownFails(k) \/ TimerFails(k)
      <4>1. Goes(k, "rejected") /\ "rejected" \in Places
        BY <3>2 DEF LoopFails, TeardownFails, TimerFails, Places
      <4> QED
        BY <3>1, <4>1, GoesPlaced
    <3>3. CASE WriteStartTime(k)
      <4>1. Goes(k, "running") /\ "running" \in Places /\ Starts(k)
        BY <3>3 DEF WriteStartTime, Places, Starts
      <4> QED
        BY <3>1, <4>1, GoesPlaced
    <3>4. CASE MetricsFinished(k)
      <4>1. Goes(k, "files") /\ "files" \in Places /\ Tears(k)
        BY <3>4 DEF MetricsFinished, Places, Tears
      <4>2. k \in extra
        BY <4>1 DEF Placed, StopsTearDown
      <4> QED
        BY <3>1, <4>1, <4>2, GoesPlaced
    <3>5. CASE WriteDone(k)
      <4>1. Goes(k, "endTime") /\ "endTime" \in Places /\ Tears(k) /\ loop[k] = "done"
        BY <3>5 DEF WriteDone, Places, Tears
      <4>2. k \in extra
        BY <4>1 DEF Placed, StopsTearDown
      <4> QED
        BY <3>1, <4>1, <4>2, GoesPlaced
    <3> QED
      BY <2>3, <3>2, <3>3, <3>4, <3>5
  <2>4. CASE LogDecided(k) \/ LogFails(k)
    <3>1. Goes(k, "commands") /\ "commands" \in Places /\ Tears(k)
          /\ UNCHANGED <<loaded, loading, extra, count, started, refused, at>>
      BY <2>4 DEF LogDecided, LogFails, AwaitCommands, Places, Tears
    <3>2. k \in extra
      BY <3>1 DEF Placed, StopsTearDown
    <3> QED
      BY <3>1, <3>2, GoesPlaced
  <2>5. CASE CommandsFinished(k) \/ WriteReplayStopping(k)
    <3>1. /\ NextOr(k, "stopping", "metrics") /\ "stopping" \in Places /\ Tears(k)
          /\ UNCHANGED <<loaded, loading, extra, count, started, refused>>
      BY <2>5 DEF CommandsFinished, WriteReplayStopping, Places, Tears
    <3> QED
      BY <3>1, NextOrPlaced
  <2>6. CASE PrepareFiles(k) \/ WriteEndTime(k)
    <3>1. /\ NextOr(k, "done", "over") /\ "done" \in Places /\ Tears(k)
          /\ UNCHANGED <<loaded, loading, extra, count, started, refused>>
      BY <2>6 DEF PrepareFiles, WriteEndTime, Places, Tears
    <3> QED
      BY <3>1, NextOrPlaced
  <2> QED
    BY <1>6, <2>1, <2>2, <2>3, <2>4, <2>5, <2>6 DEF LoopStep
<1> QED
  BY <1>1, <1>2, <1>3, <1>4, <1>5, <1>6 DEF Next, Setup

\* Once disturbed, always disturbed; and two loops of stops disturb.
LEMMA ExtraFinite ==
  ASSUME NEW T \in SUBSET Loops
  PROVE  IsFiniteSet(T) /\ Cardinality(T) \in Nat
         /\ \A S \in SUBSET T : Cardinality(S) <= Cardinality(T)
<1>1. IsFiniteSet(Loops)
  BY MimicAssumption, FS_Interval DEF Loops
<1>2. IsFiniteSet(T) /\ \A S \in SUBSET T : Cardinality(S) <= Cardinality(T)
  BY <1>1, FS_Subset
<1> QED
  BY <1>2, FS_CardinalityType

LEMMA OneStop ==
  ASSUME NEW T \in SUBSET Loops, ~(Cardinality(T) > 1), NEW k \in T, NEW l \in T
  PROVE  k = l
<1> SUFFICES ASSUME k # l PROVE FALSE
  OBVIOUS
<1>1. {k, l} \in SUBSET T
  OBVIOUS
<1>2. Cardinality({k, l}) <= Cardinality(T) /\ Cardinality(T) \in Nat
  BY <1>1, ExtraFinite
<1>3. IsFiniteSet({k}) /\ Cardinality({k}) = 1
  BY FS_Singleton
<1>4. {k} \cup {l} = {k, l} /\ l \notin {k}
  OBVIOUS
<1>5. Cardinality({k} \cup {l}) = Cardinality({k}) + 1
  BY <1>3, <1>4, FS_AddElement
<1> QED
  BY <1>2, <1>3, <1>4, <1>5

LEMMA DisturbedStays ==
  ASSUME TypeOK, TypeOK', [Next]_vars, Disturbed
  PROVE  Disturbed'
<1> USE DEF init, process, log, loops, history
<1>1. UNCHANGED <<early, overtaken, extra>>
      \/ Stop \/ Tick \/ \E k \in Loops : LogDecided(k) \/ LogFails(k)
  BY DEF Next, Setup, vars, LoopStep, CaptureSetup, CaptureSetupFails, LoadReplay, RefuseReplay, AssignReplay,
         LoadingFails, WriteRefused, Panic, PanicFails, Log, FragmentStored, WriteStartTime, WriteRunning,
         CommandsFinished, WriteReplayStopping, MetricsFinished, PrepareFiles, WriteDone, WriteEndTime,
         LoopFails, TeardownFails, TimerFails, JobOver, JobFails
<1>4. (early => early') /\ (overtaken => overtaken') /\ extra \subseteq extra'
  <2>1. CASE Tick
    BY <2>1, Zenon DEF Tick, LoopBegins
  <2>3. CASE Stop
    <3>1. overtaken' = overtaken /\ extra \subseteq extra'
      BY <2>3 DEF Stop, LoopBegins
    <3>2. early' = (early \/ setup # "over")
      BY <2>3 DEF Stop
    <3> QED
      BY <3>1, <3>2, Zenon
  <2>2. ASSUME NEW k \in Loops, LogDecided(k) \/ LogFails(k)
        PROVE  (early => early') /\ (overtaken => overtaken') /\ extra \subseteq extra'
    <3>1. early' = early /\ extra' = extra
          /\ overtaken' = (overtaken \/ \E l \in Loops \ {k} : loop[l] \in {"startTime", "running"})
      BY <2>2 DEF LogDecided, LogFails, AwaitCommands
    <3> QED
      BY <3>1, Zenon
  <2> QED
    BY <1>1, <2>1, <2>2, <2>3
<1>2. panics # {} => panics' # {}
  BY DEF Next, Setup, vars, LoopStep, CaptureSetup, CaptureSetupFails, LoadReplay, RefuseReplay, AssignReplay,
         LoadingFails, WriteRefused, Panic, PanicFails, Log, Tick, Stop, FragmentStored,
         WriteStartTime, WriteRunning, LogDecided, CommandsFinished, WriteReplayStopping, MetricsFinished,
         PrepareFiles, WriteDone, WriteEndTime, LoopFails, LogFails, TeardownFails, TimerFails, JobOver,
         JobFails, NextReplay, SelfDestruct
<1>3. Cardinality(extra) > 1 => Cardinality(extra') > 1
  <2>1. extra' \in SUBSET Loops /\ extra \in SUBSET extra'
    BY <1>4 DEF TypeOK, Loops
  <2>2. Cardinality(extra) <= Cardinality(extra') /\ Cardinality(extra') \in Nat
    <3>1. \A S \in SUBSET extra' : Cardinality(S) <= Cardinality(extra')
      BY <2>1, ExtraFinite
    <3>2. Cardinality(extra') \in Nat
      BY <2>1, ExtraFinite
    <3> QED
      BY <2>1, <3>1, <3>2
  <2>3. Cardinality(extra) \in Nat
    BY ExtraFinite DEF TypeOK
  <2> QED
    BY <2>2, <2>3
<1> QED
  BY <1>2, <1>3, <1>4 DEF Disturbed

\* The statuses a replay may go to.
Ahead(s, t) ==
  \/ t = s \/ t = "FAILED"
  \/ t = "DONE" /\ s # "FAILED"
  \/ t = "STOPPING" /\ s \notin {"DONE", "FAILED"}
  \/ t = "RUNNING" /\ s \in {"STARTED", "STARTING"}
  \/ t = "STARTING" /\ s = "STARTED"

LEMMA AheadRanks ==
  ASSUME NEW s \in Statuses, NEW t \in Statuses, Ahead(s, t)
  PROVE  Rank[s] <= Rank[t]
<1>1. Rank["STARTED"] = 0 /\ Rank["STARTING"] = 1 /\ Rank["RUNNING"] = 2 /\ Rank["STOPPING"] = 3
      /\ Rank["DONE"] = 4 /\ Rank["FAILED"] = 5
  BY DEF Rank
<1> QED
  BY <1>1 DEF Ahead, Statuses

\* What an undisturbed step does to the rows, and to one loop.
LEMMA OrderKept ==
  ASSUME TypeOK, Placed, Orderly, UNCHANGED <<loaded, loading, setup, extra, looked>>,
         started \subseteq started', NEW k \in Loops,
         \A l \in Loops \ {k} : loop'[l] = loop[l],
         \A r \in Replays : r >= loading => row'[r] = row[r],
         \A r \in Mimicked : \/ row'[r] = row[r] \/ row'[r] = "RUNNING"
                             \/ (looked /\ row'[r] = "STOPPING"),
         Starts(k)' => ~looked,
         loop'[k] = "log" => Mimicked \subseteq started',
         loop'[k] \in {"none", "query", "startTime", "running", "log"} => k \notin extra \/ ~looked,
         loop'[k] \in {"commands", "stopping"} => loop[k] \in {"commands", "stopping"}
  PROVE  Orderly'
<1>1. Mimicked' = Mimicked /\ Mimicked \subseteq Replays
  BY DEF Mimicked, TypeOK
<1>2. NotYetLoaded'
  BY DEF Orderly, NotYetLoaded
<1>3. RowsOfLoaded'
  BY <1>1 DEF Orderly, RowsOfLoaded
<1>4. StopsAfterSetup'
  BY DEF Orderly, StopsAfterSetup
<1>5. AllStarted'
  BY <1>1 DEF Orderly, AllStarted, Starts
<1>6. OneLook'
  BY DEF Orderly, OneLook, TypeOK
<1>7. NoneDone'
  BY <1>1 DEF Orderly, NoneDone
<1> QED
  BY <1>2, <1>3, <1>4, <1>5, <1>6, <1>7 DEF Orderly

LEMMA OrderUntouched ==
  ASSUME Orderly, UNCHANGED <<loaded, loading, setup, extra, looked, started, loop, row>>
  PROVE  Orderly'
  BY DEF Orderly, NotYetLoaded, RowsOfLoaded, StopsAfterSetup, AllStarted, OneLook, NoneDone, Starts, Mimicked

\* Steps of setup, undisturbed.
LEMMA SetupOrder ==
  ASSUME TypeOK, LoadingInRange, Placed, Orderly,
         CaptureSetup \/ CaptureSetupFails \/ LoadReplay \/ RefuseReplay \/ AssignReplay \/ LoadingFails
  PROVE  (Disturbed' \/ Orderly') /\ \A r \in Replays : Ahead(row[r], row'[r])
<1> USE DEF init, process, log, loops, history
<1>0. extra' = extra /\ UNCHANGED <<looked, started, loop>> /\ setup # "over"
  BY DEF CaptureSetup, CaptureSetupFails, LoadReplay, RefuseReplay, AssignReplay, LoadingFails
<1>1. extra = {} /\ ~looked /\ \A k \in Loops : ~Tears(k)
  BY <1>0 DEF Orderly, StopsAfterSetup, OneLook, Placed, StopsTearDown
<1>2. CASE CaptureSetup \/ LoadReplay
  <2>1. UNCHANGED <<loaded, loading, row>>
    BY <1>2 DEF CaptureSetup, LoadReplay
  <2>2. StopsAfterSetup'
    BY <1>0, <1>1 DEF StopsAfterSetup
  <2>3. NotYetLoaded' /\ RowsOfLoaded' /\ AllStarted' /\ OneLook' /\ NoneDone'
    BY <1>0, <2>1 DEF Orderly, NotYetLoaded, RowsOfLoaded, AllStarted, OneLook, NoneDone, Starts, Mimicked
  <2> QED
    BY <2>1, <2>2, <2>3 DEF Orderly, Ahead
<1>3. CASE CaptureSetupFails \/ LoadingFails
  <2>1. Disturbed'
    BY <1>3 DEF CaptureSetupFails, LoadingFails, SelfDestruct, Disturbed
  <2>2. row' = row
    BY <1>3 DEF CaptureSetupFails, LoadingFails
  <2> QED
    BY <2>1, <2>2 DEF Ahead
<1>4. CASE RefuseReplay
  <2>1. /\ loaded' = loaded /\ loading' = loading + 1 /\ row' = row /\ loading \in Nat
    BY MimicAssumption, <1>4 DEF RefuseReplay, NextReplay, TypeOK
  <2>2. StopsAfterSetup'
    BY <1>0, <1>1 DEF StopsAfterSetup
  <2>3. RowsOfLoaded' /\ AllStarted' /\ OneLook' /\ NoneDone'
    BY <1>0, <2>1 DEF Orderly, RowsOfLoaded, AllStarted, OneLook, NoneDone, Starts, Mimicked
  <2>4. NotYetLoaded'
    <3>1. \A r \in Replays : r \in Nat
      BY DEF Replays
    <3> QED
      BY <2>1, <3>1 DEF Orderly, NotYetLoaded
  <2> QED
    BY <2>1, <2>2, <2>3, <2>4 DEF Orderly, Ahead
<1>5. CASE AssignReplay
  <2>1. /\ loading \in Replays /\ loading \in Nat /\ loading' = loading + 1
        /\ Mimicked' = Mimicked \cup {loading}
    BY <1>5, AssignAppends
  <2>2. row' = [row EXCEPT ![loading] = "STARTING"] /\ row \in [Replays -> Statuses]
    BY <1>5 DEF AssignReplay, TypeOK, Statuses
  <2>3. row'[loading] = "STARTING" /\ row[loading] = "STARTED" /\ \A r \in Replays \ {loading} : row'[r] = row[r]
    BY <2>1, <2>2 DEF Orderly, NotYetLoaded
  <2>4. \A r \in Replays : Ahead(row[r], row'[r])
    BY <2>3 DEF Ahead
  <2>5. NotYetLoaded'
    <3>1. \A r \in Replays : r \in Nat
      BY DEF Replays
    <3> QED
      BY <2>1, <2>3, <3>1 DEF Orderly, NotYetLoaded
  <2>6. RowsOfLoaded'
    <3>1. Mimicked \subseteq Replays
      BY DEF Mimicked, TypeOK
    <3> QED
      BY <1>0, <2>1, <2>3, <3>1 DEF Orderly, RowsOfLoaded
  <2>7. StopsAfterSetup' /\ OneLook'
    BY <1>0, <1>1 DEF StopsAfterSetup, OneLook
  <2>8. AllStarted' /\ NoneDone'
    BY <1>0, <1>1 DEF AllStarted, NoneDone, Tears
  <2> QED
    BY <2>4, <2>5, <2>6, <2>7, <2>8 DEF Orderly
<1> QED
  BY <1>2, <1>3, <1>4, <1>5

\* A loop begins.
LEMMA BeginOrder ==
  ASSUME TypeOK, Placed, Orderly, ~Disturbed, TypeOK', Tick \/ Stop
  PROVE  (Disturbed' \/ Orderly') /\ \A r \in Replays : Ahead(row[r], row'[r])
<1> USE DEF init, process, log, loops, history
<1>1. PICK x \in BOOLEAN : LoopBegins(x)
  BY DEF Tick, Stop
<1>2. /\ count' \in Loops /\ loop'[count'] \in {"query", "rejected"}
      /\ \A l \in Loops \ {count'} : loop'[l] = loop[l]
  BY <1>1, LoopBeginsTyped
<1>3. UNCHANGED <<loaded, loading, setup, row, started, looked>>
  BY DEF Tick, Stop
<1>4. Mimicked' = Mimicked
  BY <1>3 DEF Mimicked
<1>5. NotYetLoaded' /\ RowsOfLoaded'
  BY <1>3, <1>4 DEF Orderly, NotYetLoaded, RowsOfLoaded
<1>6. AllStarted' /\ NoneDone'
  BY <1>2, <1>3, <1>4 DEF Orderly, AllStarted, NoneDone, Starts
<1>7. Disturbed' \/ (StopsAfterSetup' /\ OneLook')
  <2> SUFFICES ASSUME ~Disturbed' PROVE StopsAfterSetup' /\ OneLook'
    OBVIOUS
  <2>1. CASE Tick
    <3>1. extra' = extra /\ extra = {}
      BY <2>1 DEF Tick, LoopBegins
    <3> QED
      BY <1>3, <3>1 DEF Orderly, StopsAfterSetup, OneLook
  <2>2. CASE Stop
    <3>1. extra' = extra \cup {count'} /\ count' = count + 1 /\ count \in Nat
      BY <2>2 DEF Stop, LoopBegins, TypeOK
    <3>2. early' = (early \/ setup # "over")
      BY <2>2 DEF Stop
    <3>3. setup = "over"
      BY <3>2 DEF Disturbed, TypeOK
    <3>4. extra \subseteq {count'}
      <4>1. extra' \in SUBSET Loops /\ ~(Cardinality(extra') > 1)
        BY DEF Disturbed, TypeOK, Loops
      <4>2. \A l \in extra' : l = count'
        BY <3>1, <4>1, OneStop
      <4> QED
        BY <3>1, <4>2
    <3>5. count' \notin extra
      BY <3>1 DEF Placed, StopsTearDown
    <3>6. extra = {} /\ ~looked
      BY <3>4, <3>5 DEF Orderly, OneLook
    <3> QED
      BY <1>3, <3>1, <3>3, <3>6 DEF StopsAfterSetup, OneLook
  <2> QED
    BY <2>1, <2>2
<1> QED
  BY <1>3, <1>5, <1>6, <1>7 DEF Orderly, Ahead

\* Steps of a loop.
LEMMA LoopOrder ==
  ASSUME TypeOK, AtLoaded, Placed, Orderly, NEW k \in Loops,
         FragmentStored(k) \/ WriteStartTime(k) \/ WriteRunning(k) \/ LoopFails(k)
  PROVE  Orderly' /\ \A r \in Replays : Ahead(row[r], row'[r])
<1> USE DEF init, process, log, loops, history
<1>0. UNCHANGED <<loaded, loading, setup, extra, looked>> /\ Len(loaded) \in Nat
  BY DEF FragmentStored, WriteStartTime, WriteRunning, LoopFails, TypeOK
<1>1. CASE FragmentStored(k)
  <2>1. 1 \in Nat \ {0} /\ \A i \in 1..Len(loaded) : i < 1 => loaded[i] \in started
    BY <1>0
  <2>2. GoesThrough(k, 1, started) /\ UNCHANGED <<started, row>> /\ loop[k] = "query"
    BY <1>1 DEF FragmentStored
  <2>3. \A l \in Loops \ {k} : loop'[l] = loop[l]
    BY <2>1, <2>2, GoesThroughTyped
  <2>4. \/ loop'[k] = "startTime" /\ ~(Mimicked \subseteq started)
        \/ loop'[k] = (IF k \in extra THEN "log" ELSE "over") /\ Mimicked \subseteq started
    BY <2>1, <2>2, GoesThroughStarted
  <2>5. k \in extra => ~looked
    BY <2>2 DEF Orderly, OneLook
  <2>6. loop'[k] = "startTime" => ~looked
    BY <2>4 DEF Orderly, AllStarted
  <2>7. Starts(k)' => ~looked
    BY <2>4, <2>6 DEF Starts
  <2>8. loop'[k] = "log" => Mimicked \subseteq started'
    BY <2>2, <2>4
  <2> QED
    BY <1>0, <2>2, <2>3, <2>4, <2>5, <2>7, <2>8, OrderKept DEF Ahead
<1>2. CASE WriteStartTime(k) \/ LoopFails(k)
  <2>1. /\ loop[k] \in {"query", "startTime", "running"} /\ UNCHANGED <<started, row>>
        /\ \A l \in Loops \ {k} : loop'[l] = loop[l]
        /\ loop'[k] = "rejected" \/ (loop'[k] = "running" /\ Starts(k))
    BY <1>2 DEF WriteStartTime, LoopFails, Goes, TypeOK, Starts
  <2>2. Starts(k)' => ~looked
    BY <2>1 DEF Orderly, AllStarted, Starts
  <2> QED
    BY <1>0, <2>1, <2>2, OrderKept DEF Ahead, Starts
<1>3. CASE WriteRunning(k)
  <2>1. /\ at[k] \in 1..Len(loaded) /\ loaded[at[k]] \in Mimicked /\ loaded[at[k]] \in Replays
        /\ at[k] + 1 \in Nat \ {0} /\ started' = started \cup {loaded[at[k]]}
        /\ \A i \in 1..Len(loaded) : i < at[k] + 1 => loaded[i] \in started'
    BY <1>3, StartedSoFar
  <2>2. GoesThrough(k, at[k] + 1, started') /\ loop[k] = "running"
        /\ row' = [row EXCEPT ![loaded[at[k]]] = "RUNNING"] /\ row \in [Replays -> Statuses]
    BY <1>3 DEF WriteRunning, TypeOK, Statuses
  <2>3. \A l \in Loops \ {k} : loop'[l] = loop[l]
    BY <2>1, <2>2, GoesThroughTyped
  <2>4. \/ loop'[k] = "startTime"
        \/ loop'[k] = (IF k \in extra THEN "log" ELSE "over") /\ Mimicked \subseteq started'
    BY <2>1, <2>2, GoesThroughStarted
  <2>5. ~looked
    BY <2>2 DEF Orderly, AllStarted, Starts
  <2>6. row'[loaded[at[k]]] = "RUNNING" /\ \A r \in Replays \ {loaded[at[k]]} : row'[r] = row[r]
    BY <2>1, <2>2
  <2>7. row[loaded[at[k]]] \in {"STARTING", "RUNNING"}
    BY <2>1, <2>5 DEF Orderly, RowsOfLoaded
  <2>8. \A r \in Replays : Ahead(row[r], row'[r])
    BY <2>6, <2>7 DEF Ahead
  <2>9. Mimicked \subseteq Replays
    BY DEF Mimicked, TypeOK
  <2>10. \A r \in Replays : r >= loading => row'[r] = row[r]
    <3>1. loaded[at[k]] < loading /\ loading \in Nat /\ loaded[at[k]] \in Nat
      BY <2>1 DEF Placed, LoadedOrRefused, TypeOK, Replays
    <3>2. \A r \in Replays : r >= loading => r # loaded[at[k]]
      BY <3>1 DEF Replays
    <3> QED
      BY <2>6, <3>2
  <2>11. \A r \in Mimicked : row'[r] = row[r] \/ row'[r] = "RUNNING"
    BY <2>6, <2>9
  <2>12. loop'[k] \notin {"commands", "stopping"} /\ (loop'[k] = "log" => Mimicked \subseteq started')
    BY <2>4
  <2> QED
    BY <1>0, <2>1, <2>3, <2>5, <2>8, <2>10, <2>11, <2>12, OrderKept
<1> QED
  BY <1>1, <1>2, <1>3

\* The stop looks.
LEMMA LookOrder ==
  ASSUME TypeOK, Placed, Orderly, ~Disturbed, NEW k \in Loops, LogDecided(k) \/ LogFails(k)
  PROVE  (Disturbed' \/ Orderly') /\ \A r \in Replays : Ahead(row[r], row'[r])
<1> USE DEF init, process, log, loops, history
<1> SUFFICES ASSUME ~Disturbed' PROVE Orderly'
  <2>1. row' = row
    BY DEF LogDecided, LogFails
  <2> QED
    BY <2>1 DEF Ahead
<1>1. ~LogFails(k)
  BY DEF LogFails, SelfDestruct, Disturbed
<1>2. /\ loop[k] = "log" /\ loop'[k] = "commands" /\ looked' = TRUE
      /\ \A l \in Loops \ {k} : loop'[l] = loop[l]
      /\ UNCHANGED <<loaded, loading, setup, extra, row, started>>
  BY <1>1 DEF LogDecided, AwaitCommands, Goes, TypeOK
<1>3. \A l \in Loops \ {k} : ~Starts(l)
  <2>1. overtaken' = (overtaken \/ \E l \in Loops \ {k} : loop[l] \in {"startTime", "running"})
    BY <1>1 DEF LogDecided, AwaitCommands
  <2>2. ~overtaken'
    BY DEF Disturbed
  <2> QED
    BY <2>1, <2>2 DEF Starts
<1>4. k \in extra /\ ~looked
  BY <1>2 DEF Placed, StopsTearDown, Tears, Orderly, OneLook
<1>5. \A l \in extra : l = k
  <2>1. extra \in SUBSET Loops /\ ~(Cardinality(extra) > 1)
    BY DEF TypeOK, Disturbed
  <2> QED
    BY <1>4, <2>1, OneStop
<1>6. Mimicked' = Mimicked /\ Mimicked \subseteq started
  BY <1>2 DEF Mimicked, Orderly, AllStarted
<1>7. NotYetLoaded' /\ StopsAfterSetup'
  BY <1>2 DEF Orderly, NotYetLoaded, StopsAfterSetup
<1>8. RowsOfLoaded'
  BY <1>2, <1>6 DEF Orderly, RowsOfLoaded
<1>9. AllStarted'
  BY <1>2, <1>3, <1>6 DEF AllStarted, Starts
<1>10. OneLook'
  BY <1>2, <1>4, <1>5 DEF OneLook
<1>11. NoneDone'
  BY <1>2, <1>4, <1>6 DEF Orderly, RowsOfLoaded, NoneDone
<1> QED
  BY <1>2, <1>7, <1>8, <1>9, <1>10, <1>11 DEF Orderly

\* Steps of a teardown.
LEMMA TeardownOrder ==
  ASSUME TypeOK, Relied, Placed, Orderly, ~Disturbed, NEW k \in Loops,
         \/ CommandsFinished(k) \/ WriteReplayStopping(k) \/ MetricsFinished(k) \/ PrepareFiles(k)
         \/ WriteDone(k) \/ WriteEndTime(k) \/ TeardownFails(k) \/ TimerFails(k)
  PROVE  (Disturbed' \/ Orderly') /\ \A r \in Replays : Ahead(row[r], row'[r])
<1> USE DEF init, process, log, loops, history
<1>0. /\ UNCHANGED <<loaded, loading, setup, extra, looked, started>>
      /\ loop[k] \in {"commands", "stopping", "metrics", "files", "done", "endTime"}
  BY DEF CommandsFinished, WriteReplayStopping, MetricsFinished, PrepareFiles, WriteDone, WriteEndTime,
         TeardownFails, TimerFails
<1>1. looked /\ k \in extra
  <2>1. loop[k] = "commands" \/ Past(k)
    BY <1>0 DEF Past
  <2>2. looked
    BY <2>1 DEF Relied, Looked
  <2>3. k \in extra
    BY <1>0 DEF Placed, StopsTearDown, Tears
  <2> QED
    BY <2>2, <2>3
<1>2. \A r \in Mimicked : row[r] \in {"STARTING", "RUNNING", "STOPPING", "DONE"}
  BY DEF Orderly, RowsOfLoaded
<1>3. Mimicked \subseteq Replays /\ row \in [Replays -> Statuses]
  BY DEF Mimicked, TypeOK, Statuses
<1>4. ASSUME NEW r \in Mimicked PROVE r \in Replays /\ r < loading /\ r \in Nat /\ loading \in Nat
  <2>1. PICK i \in 1..Len(loaded) : r = loaded[i]
    BY DEF Mimicked
  <2>2. r < loading /\ r \in Replays
    BY <1>3, <2>1 DEF Placed, LoadedOrRefused
  <2> QED
    BY <2>2 DEF TypeOK, Replays
<1>5. ASSUME NEW m \in Mimicked, NEW s, row' = [row EXCEPT ![m] = s]
      PROVE  /\ row'[m] = s /\ \A r \in Replays \ {m} : row'[r] = row[r]
             /\ \A r \in Replays : r >= loading => row'[r] = row[r]
  <2>1. row'[m] = s /\ \A r \in Replays \ {m} : row'[r] = row[r]
    BY <1>3, <1>5
  <2>2. \A r \in Replays : r >= loading => r # m
    BY <1>4 DEF Replays
  <2> QED
    BY <2>1, <2>2
<1>6. CASE \/ CommandsFinished(k) \/ MetricsFinished(k) \/ PrepareFiles(k) \/ WriteEndTime(k)
           \/ TimerFails(k)
  <2>1. row' = row
    BY <1>6 DEF CommandsFinished, MetricsFinished, PrepareFiles, WriteEndTime, TimerFails
  <2>2. /\ \A l \in Loops \ {k} : loop'[l] = loop[l]
        /\ loop'[k] \notin {"none", "query", "startTime", "running", "log", "commands"}
        /\ loop'[k] = "stopping" => loop[k] = "commands"
    BY <1>6 DEF CommandsFinished, MetricsFinished, PrepareFiles, WriteEndTime, TimerFails, NextOr, Goes, TypeOK
  <2> QED
    BY <1>0, <2>1, <2>2, OrderKept DEF Ahead, Starts
<1>7. CASE TeardownFails(k)
  <2>1. Disturbed' /\ row' = row
    BY <1>7 DEF TeardownFails, SelfDestruct, Disturbed
  <2> QED
    BY <2>1 DEF Ahead
<1>8. CASE WriteReplayStopping(k)
  <2>1. loaded[at[k]] \in Mimicked
    BY <1>8 DEF WriteReplayStopping, Placed, StopsTearDown, Mimicked
  <2>2. row' = [row EXCEPT ![loaded[at[k]]] = "STOPPING"] /\ loop[k] = "stopping"
    BY <1>8 DEF WriteReplayStopping
  <2>3. /\ row'[loaded[at[k]]] = "STOPPING" /\ \A r \in Replays \ {loaded[at[k]]} : row'[r] = row[r]
        /\ \A r \in Replays : r >= loading => row'[r] = row[r]
    BY <1>5, <2>1, <2>2
  <2>4. row[loaded[at[k]]] \in {"STARTING", "RUNNING", "STOPPING"}
    BY <1>2, <2>1, <2>2 DEF Orderly, NoneDone
  <2>5. \A r \in Replays : Ahead(row[r], row'[r])
    BY <2>3, <2>4 DEF Ahead
  <2>6. /\ \A l \in Loops \ {k} : loop'[l] = loop[l]
        /\ loop'[k] \in {"stopping", "metrics"}
    BY <1>8 DEF WriteReplayStopping, NextOr, TypeOK
  <2>7. \A r \in Mimicked : row'[r] = row[r] \/ (looked /\ row'[r] = "STOPPING")
    BY <1>1, <1>3, <2>3
  <2> QED
    BY <1>0, <2>2, <2>3, <2>5, <2>6, <2>7, OrderKept DEF Starts
<1>9. CASE WriteDone(k)
  <2>1. loaded[at[k]] \in Mimicked
    BY <1>9 DEF WriteDone, Placed, StopsTearDown, Mimicked
  <2>2. row' = [row EXCEPT ![loaded[at[k]]] = "DONE"] /\ loop[k] = "done"
    BY <1>9 DEF WriteDone
  <2>3. /\ row'[loaded[at[k]]] = "DONE" /\ \A r \in Replays \ {loaded[at[k]]} : row'[r] = row[r]
        /\ \A r \in Replays : r >= loading => row'[r] = row[r]
    BY <1>5, <2>1, <2>2
  <2>4. \A r \in Replays : Ahead(row[r], row'[r])
    BY <1>2, <2>1, <2>3 DEF Ahead
  <2>5. /\ loop'[k] = "endTime" /\ \A l \in Loops \ {k} : loop'[l] = loop[l]
    BY <1>9 DEF WriteDone, Goes, TypeOK
  <2>6. Mimicked' = Mimicked
    BY <1>0 DEF Mimicked
  <2>7. \A l \in Loops : loop'[l] \notin {"commands", "stopping"}
    <3>1. extra \in SUBSET Loops /\ ~(Cardinality(extra) > 1)
      BY DEF TypeOK, Disturbed
    <3>2. \A l \in extra : l = k
      BY <1>1, <3>1, OneStop
    <3>3. \A l \in Loops : loop[l] \in {"commands", "stopping"} => l \in extra
      BY DEF Placed, StopsTearDown, Tears
    <3> QED
      BY <2>5, <3>2, <3>3
  <2>8. NotYetLoaded' /\ StopsAfterSetup' /\ NoneDone'
    BY <1>0, <2>3, <2>7 DEF Orderly, NotYetLoaded, StopsAfterSetup, NoneDone
  <2>9. RowsOfLoaded'
    BY <1>0, <1>1, <1>3, <2>3, <2>6 DEF Orderly, RowsOfLoaded
  <2>10. AllStarted'
    BY <1>0, <2>5, <2>6 DEF Orderly, AllStarted, Starts
  <2>11. OneLook'
    BY <1>0, <2>5 DEF Orderly, OneLook, TypeOK
  <2> QED
    BY <2>4, <2>8, <2>9, <2>10, <2>11 DEF Orderly
<1> QED
  BY <1>6, <1>7, <1>8, <1>9

\* Every undisturbed step keeps the order, and takes each replay ahead.
LEMMA OrderStep ==
  ASSUME TypeOK, TypeOK', IInv, Placed, Orderly, ~Disturbed, [Next]_vars
  PROVE  (Disturbed' \/ Orderly') /\ \A r \in Replays : Ahead(row[r], row'[r])
<1>0. LoadingInRange /\ AtLoaded /\ Relied
  BY DEF IInv
<1> USE DEF init, process, log, loops, history
<1>1. CASE Setup \/ CaptureSetupFails \/ RefuseReplay \/ LoadingFails
  BY <1>0, <1>1, SetupOrder DEF Setup
<1>2. CASE Tick \/ Stop
  BY <1>2, BeginOrder
<1>3. CASE Log \/ UNCHANGED vars \/ (\E j \in DOMAIN job : JobOver(j) \/ JobFails(j))
  <2>1. UNCHANGED <<loaded, loading, setup, extra, looked, started, loop, row>>
    BY <1>3 DEF Log, vars, JobOver, JobFails
  <2> QED
    BY <2>1, OrderUntouched DEF Ahead
<1>4. ASSUME NEW p \in 0..N, Panic(p) \/ PanicFails(p)
      PROVE  (Disturbed' \/ Orderly') /\ \A r \in Replays : Ahead(row[r], row'[r])
  BY <1>4 DEF Panic, PanicFails, Disturbed
<1>5. ASSUME NEW q \in Replays, WriteRefused(q)
      PROVE  (Disturbed' \/ Orderly') /\ \A r \in Replays : Ahead(row[r], row'[r])
  <2>1. /\ UNCHANGED <<loaded, loading, setup, extra, looked, started, loop>> /\ q \in refused
        /\ row' = [row EXCEPT ![q] = "FAILED"] /\ row \in [Replays -> Statuses]
    BY <1>5 DEF WriteRefused, TypeOK, Statuses
  <2>2. row'[q] = "FAILED" /\ \A r \in Replays \ {q} : row'[r] = row[r]
    BY <2>1
  <2>3. q < loading /\ q \notin Mimicked /\ q \in Nat /\ loading \in Nat
    BY <2>1 DEF Placed, LoadedOrRefused, Replays, TypeOK
  <2>4. Mimicked' = Mimicked /\ Mimicked \subseteq Replays
    BY <2>1 DEF Mimicked, TypeOK
  <2>5. \A r \in Mimicked : row'[r] = row[r]
    BY <2>2, <2>3, <2>4
  <2>6. NotYetLoaded'
    <3>1. \A r \in Replays : r >= loading => r # q
      BY <2>3 DEF Replays
    <3> QED
      BY <2>1, <2>2, <3>1 DEF Orderly, NotYetLoaded
  <2>7. RowsOfLoaded' /\ StopsAfterSetup' /\ AllStarted' /\ OneLook' /\ NoneDone'
    BY <2>1, <2>4, <2>5 DEF Orderly, RowsOfLoaded, StopsAfterSetup, AllStarted, OneLook, NoneDone, Starts
  <2> QED
    BY <2>2, <2>6, <2>7 DEF Orderly, Ahead
<1>6. ASSUME NEW k \in Loops, LoopStep(k) \/ LoopFails(k) \/ LogFails(k) \/ TeardownFails(k) \/ TimerFails(k)
      PROVE  (Disturbed' \/ Orderly') /\ \A r \in Replays : Ahead(row[r], row'[r])
  <2>1. CASE FragmentStored(k) \/ WriteStartTime(k) \/ WriteRunning(k) \/ LoopFails(k)
    BY <1>0, <2>1, LoopOrder
  <2>2. CASE LogDecided(k) \/ LogFails(k)
    BY <2>2, LookOrder
  <2>3. CASE \/ CommandsFinished(k) \/ WriteReplayStopping(k) \/ MetricsFinished(k) \/ PrepareFiles(k)
             \/ WriteDone(k) \/ WriteEndTime(k) \/ TeardownFails(k) \/ TimerFails(k)
    BY <1>0, <2>3, TeardownOrder
  <2> QED
    BY <1>6, <2>1, <2>2, <2>3 DEF LoopStep
<1> QED
  BY <1>1, <1>2, <1>3, <1>4, <1>5, <1>6 DEF Next, Setup

LEMMA InitOrderly == Init => Placed /\ Orderly
<1> SUFFICES ASSUME Init PROVE Placed /\ Orderly
  OBVIOUS
<1>1. Mimicked = {} /\ Len(loaded) = 0
  BY DEF Init, Mimicked
<1>2. \A k \in Loops : loop[k] = "none"
  BY DEF Init
<1>3. LoadedOrRefused /\ StopsTearDown /\ StartedBefore
  BY <1>1, <1>2 DEF Init, LoadedOrRefused, StopsTearDown, StartedBefore, Starts, Tears
<1>4. NotYetLoaded /\ RowsOfLoaded /\ StopsAfterSetup /\ AllStarted /\ OneLook /\ NoneDone
  BY <1>1, <1>2 DEF Init, NotYetLoaded, RowsOfLoaded, StopsAfterSetup, AllStarted, OneLook, NoneDone, Starts
<1> QED
  BY <1>3, <1>4 DEF Placed, Orderly

\* A replay never goes back to an earlier status, unless a stop comes before setup is over or
\* overtakes a loop, there are two stops, or the process is about to destroy itself.
THEOREM StatusGoesForward == Spec => StatusForward
<1> DEFINE Order == Placed /\ (Disturbed \/ Orderly)
           Advances  == \A r \in Replays : Rank[row[r]] <= Rank[row'[r]]
                       \/ early \/ overtaken \/ Cardinality(extra) > 1 \/ panics # {}
<1>1. Init => Order
  BY InitOrderly
<1>2. TypeOK /\ IInv /\ TypeOK' /\ Order /\ [Next]_vars => Order'
  <2> SUFFICES ASSUME TypeOK, IInv, TypeOK', Order, [Next]_vars PROVE Order'
    OBVIOUS
  <2>1. Placed'
    BY PlacedStep DEF IInv
  <2>2. Disturbed' \/ Orderly'
    BY DisturbedStays, OrderStep
  <2> QED
    BY <2>1, <2>2
<1>3. TypeOK /\ IInv /\ TypeOK' /\ Order /\ [Next]_vars => [Advances]_vars
  <2> SUFFICES ASSUME TypeOK, IInv, TypeOK', Order, [Next]_vars, ~Disturbed, NEW r \in Replays
               PROVE  Rank[row[r]] <= Rank[row'[r]]
    BY DEF Disturbed
  <2>1. row[r] \in Statuses /\ row'[r] \in Statuses
    BY DEF TypeOK, Statuses
  <2>2. Ahead(row[r], row'[r])
    BY OrderStep
  <2> QED
    BY <2>1, <2>2, AheadRanks
<1> QED
  <2>1. Spec => []Order
    BY <1>1, <1>2, Invariant, PTL DEF Spec
  <2> QED
    BY <1>3, <2>1, Invariant, PTL DEF Spec, StatusForward

===============================================================================
