----------------------------- MODULE Service_proofs -----------------------------
(***************************************************************************)
(* Theorems about Service, for any requests, databases, users and number   *)
(* of faults.                                                              *)
(***************************************************************************)
EXTENDS Service, FiniteSetTheorems, TLAPS

\* No database comes twice in what r asks for.
Distinct(r) == \A i, j \in DOMAIN dbs(r) : dbs(r)[i] = dbs(r)[j] => i = j

\* Where a handler is tells what it has inserted, and what was asked of it.
HandlerOrder ==
  \A r \in Requests :
    /\ made[r] <= Len(dbs(r))
    /\ at[r] \in {"idle", "check"} => made[r] = 0
    /\ at[r] = "check" => kind(r) = "replay"
    /\ at[r] = "create" /\ kind(r) = "replay" => made[r] = 0
    /\ at[r] = "create" \/ made[r] > 0 => Distinct(r)

\* A row has been inserted by its handler.
RowsAreMade == \A x \in Rows : row[x] # "none" => x[2] <= made[x[1]]

\* A row that is over stays so: its process has nothing left to write, unless the
\* row was written off.
EndedHasSaid ==
  \A x \in Rows : row[x] \in {"DONE", "FAILED"} => x \in writtenOff \/ said[x] = Len(Progress)

\* A replay that has passed its check and is not inserted yet: whoever holds its
\* database, or has passed the same check, is known not to have seen it.
ComingKnows ==
  \A r \in Requests : at[r] = "create" /\ kind(r) = "replay" =>
    /\ \A x \in Rows : x[1] # r /\ row[x] \in Occupying /\ Target(x) = dbs(r)[1]
                       => {r, x[1]} \in blind \/ x \in writtenOff
    /\ \A q \in Requests :
         q # r /\ at[q] = "create" /\ kind(q) = "replay" /\ dbs(q)[1] = dbs(r)[1]
         => {r, q} \in blind

\* While the service is down nothing of it is under way.
DownIsStill ==
  service = "down" => /\ jobs = {}
                      /\ \A r \in Requests : at[r] \in {"idle", "over"}

\* The rows a start of the service found get no process they did not have.
FoundRowsAreLeft ==
  service = "up" =>
    \A x \in before.rows : /\ at[x[1]] = "over" /\ x[1] \notin jobs
                           /\ x[1] \in before.alive \/ ~Alive(x[1])

\* Those of them that are in progress have been read, or go on.
MarkedAreRead ==
  service = "up" /\ marking = "mark" =>
    \A x \in before.rows : row[x] \in Unfinished => x \in abandoned \/ x[1] \in before.alive

\* Only what was asked for a later time is a SCHEDULED capture.
CaptureScheduled == \A r \in Requests : cap[r] = "SCHEDULED" => scheduled(r)

\* A capture a start found has a job, has come due since, is still looked for, or
\* a query that failed has left it.
Settled(r) == capJobs[r] > 0 \/ r \in due \ before.due
LooksAtFound ==
  /\ before.due \subseteq due
  /\ \A r \in before.captures : cap[r] # "none"
  /\ service = "up" /\ resched \in {"future", "past"} => passed = before.due
  /\ service = "up" =>
       \A r \in before.captures : capId[r] = load[r].by /\ cap[r] = "SCHEDULED" =>
         \/ resched = "future"
         \/ resched = "past" /\ r \in before.due
         \/ resched = "mark" /\ r \in passed
         \/ Settled(r)
         \/ r \in missed.captures

IInv ==
  /\ TypeOK /\ HandlerOrder /\ RowsAreMade /\ EndedHasSaid /\ ComingKnows /\ TwoOnOneDatabase
  /\ DownIsStill /\ FoundRowsAreLeft /\ MarkedAreRead /\ AbandonedAreMarked
  /\ CaptureScheduled /\ LooksAtFound

-----------------------------------------------------------------------------
(* The types                                                                *)

\* What the assumption says of a request.
LEMMA LoadFacts ==
  ASSUME TypeOK, NEW r \in Requests
  PROVE  /\ dbs(r) \in Seq(Databases) /\ Len(dbs(r)) \in 0..MaxMimic
         /\ DOMAIN dbs(r) = 1..Len(dbs(r)) /\ DOMAIN dbs(r) \subseteq 1..MaxMimic
         /\ kind(r) \in {"capture", "replay", "mimic"}
         /\ kind(r) = "replay" => Len(dbs(r)) = 1
         /\ kind(r) = "capture" => dbs(r) = <<>>
         /\ load[r].by \in Users
  <1>1. load \in Loads BY DEF TypeOK
  <1>2. /\ dbs(r) \in Seq(Databases) /\ Len(dbs(r)) <= MaxMimic /\ MaxMimic \in Nat
        /\ kind(r) \in {"capture", "replay", "mimic"}
        /\ kind(r) = "replay" => Len(dbs(r)) = 1
        /\ kind(r) = "capture" => dbs(r) = <<>>
        /\ load[r].by \in Users
    BY <1>1, ServiceAssumption DEF dbs, kind
  <1>3. Len(dbs(r)) \in Nat /\ DOMAIN dbs(r) = 1..Len(dbs(r)) BY <1>2
  <1> QED BY <1>2, <1>3

\* A row is of a request and a number.
LEMMA RowParts ==
  /\ \A x \in Rows : x[1] \in Requests /\ x[2] \in 1..MaxMimic /\ x[2] \in Nat /\ x = <<x[1], x[2]>>
  /\ \A r \in Requests, i \in 1..MaxMimic : <<r, i>> \in Rows
  BY ServiceAssumption DEF Rows

\* The fourth status is the last.
LEMMA ProgressFacts ==
  /\ Len(Progress) = 4
  /\ \A i \in 0..3 : /\ Progress[i + 1] \in Status
                     /\ Progress[i + 1] = "DONE" <=> i = 3
                     /\ Progress[i + 1] # "FAILED"
  BY DEF Progress, Status

\* The initial state is well typed.
LEMMA InitTyped == Init => TypeOK
  BY ServiceAssumption, ProgressFacts DEF Init, TypeOK

\* A pair that meets is a pair of requests.
LEMMA MeetsTyped ==
  ASSUME NEW r \in Requests, NEW db PROVE Meets(r, db) \subseteq SUBSET Requests
  BY RowParts DEF Meets, Coming, On

\* Each step of a request keeps the types.
LEMMA RequestTyped ==
  ASSUME TypeOK, NEW r \in Requests, Post(r) \/ Advance(r) \/ Reject(r)
  PROVE  TypeOK'
  <1> USE DEF request, handler, rows, timers, process, start, history
  <1>1. CASE Post(r) BY <1>1, LoadFacts DEF Post, TypeOK
  <1>2. CASE Check(r)
    <2>1. blind' = blind \/ blind' = blind \cup Meets(r, dbs(r)[1]) BY <1>2 DEF Check
    <2>2. blind' \subseteq SUBSET Requests
      <3>1. blind \subseteq SUBSET Requests BY DEF TypeOK
      <3>2. Meets(r, dbs(r)[1]) \subseteq SUBSET Requests BY MeetsTyped
      <3> QED BY <2>1, <3>1, <3>2
    <2>3. \E to \in {"over", "create"} : at' = [at EXCEPT ![r] = to] BY <1>2 DEF Check
    <2>4. answer' = answer \/ answer' = [answer EXCEPT ![r] = "refused"] BY <1>2 DEF Check
    <2>5. at' \in [Requests -> {"idle", "check", "create", "launch", "over"}] BY <2>3 DEF TypeOK
    <2>6. answer' \in [Requests -> {"none", "created", "refused", "error"}] BY <2>4 DEF TypeOK
    <2> QED BY <1>2, <2>2, <2>5, <2>6 DEF Check, TypeOK
  <1>3. CASE InsertCapture(r)
    <2>1. IsFiniteSet({q \in Requests : capId[q] # 0})
      BY ServiceAssumption, FS_Subset
    <2>2. Cardinality({q \in Requests : capId[q] # 0}) \in Nat
      BY <2>1, FS_CardinalityType
    <2> QED BY <1>3, <2>2 DEF InsertCapture, Initial, TypeOK
  <1>4. CASE InsertReplay(r)
    <2>1. made[r] + 1 \in 1..MaxMimic /\ <<r, made[r] + 1>> \in Rows
      <3>1. made[r] \in Nat /\ made[r] < Len(dbs(r)) BY <1>4, ServiceAssumption DEF InsertReplay, TypeOK
      <3>2. Len(dbs(r)) \in 0..MaxMimic /\ MaxMimic \in Nat BY LoadFacts, ServiceAssumption
      <3> QED BY <3>1, <3>2, RowParts
    <2>2. Initial(r) \in Status BY DEF Initial, Status
    <2>3. blind' = blind \/ blind' = blind \cup Meets(r, Target(<<r, made[r] + 1>>))
      BY <1>4 DEF InsertReplay
    <2>4. blind' \subseteq SUBSET Requests
      <3>1. blind \subseteq SUBSET Requests BY DEF TypeOK
      <3>2. Meets(r, Target(<<r, made[r] + 1>>)) \subseteq SUBSET Requests BY MeetsTyped
      <3> QED BY <2>3, <3>1, <3>2
    <2>5. /\ made' \in [Requests -> 0..MaxMimic]
          /\ at' \in [Requests -> {"idle", "check", "create", "launch", "over"}]
          /\ row' \in [Rows -> Status \cup {"none"}]
      BY <1>4, <2>1, <2>2, ServiceAssumption DEF InsertReplay, TypeOK
    <2> QED BY <1>4, <2>4, <2>5 DEF InsertReplay, TypeOK
  <1>5. CASE Launch(r) BY <1>5 DEF Launch, TypeOK
  <1>6. CASE \E i \in 1..MaxMimic : LateCheck(r, i)
    <2>1. PICK i \in 1..MaxMimic : LateCheck(r, i) BY <1>6
    <2>2. answer' = answer \/ answer' = [answer EXCEPT ![r] = "refused"]
      BY <2>1 DEF LateCheck, TypeOK
    <2>3. pending' \in [Requests -> SUBSET (1..MaxMimic)] BY <2>1 DEF LateCheck, TypeOK
    <2>4. answer' \in [Requests -> {"none", "created", "refused", "error"}] BY <2>2 DEF TypeOK
    <2> QED BY <2>1, <2>3, <2>4 DEF LateCheck, TypeOK
  <1>7. CASE Reject(r)
    <2>1. faults' \in 0..MaxFaults BY <1>7, ServiceAssumption DEF Reject, TypeOK
    <2>2. answer' = answer \/ answer' = [answer EXCEPT ![r] = "error"] BY <1>7 DEF Reject, TypeOK
    <2>3. answer' \in [Requests -> {"none", "created", "refused", "error"}] BY <2>2 DEF TypeOK
    <2>4. at' \in [Requests -> {"idle", "check", "create", "launch", "over"}]
      BY <1>7 DEF Reject, TypeOK
    <2> QED BY <1>7, <2>1, <2>3, <2>4 DEF Reject, TypeOK
  <1> QED BY <1>1, <1>2, <1>3, <1>4, <1>5, <1>6, <1>7 DEF Advance

\* So does each step of a timer or a process.
LEMMA ProcessTyped ==
  ASSUME TypeOK, NEW r \in Requests, Timers(r) \/ Begin(r) \/ Exit(r) \/ Die(r)
  PROVE  TypeOK'
  <1> USE DEF request, handler, rows, timers, process, start, history
  <1>1. CASE Due(r) BY <1>1 DEF Due, TypeOK
  <1>2. CASE Fire(r) BY <1>2 DEF Fire, TypeOK
  <1>3. CASE FireCapture(r) BY <1>3 DEF FireCapture, TypeOK
  <1>4. CASE Begin(r) BY <1>4 DEF Begin, TypeOK
  <1>5. CASE Exit(r) BY <1>5 DEF Exit, TypeOK
  <1>6. CASE Die(r) BY <1>6, ServiceAssumption DEF Die, TypeOK
  <1> QED BY <1>1, <1>2, <1>3, <1>4, <1>5, <1>6 DEF Timers

\* So does each step on a row.
LEMMA RowTyped ==
  ASSUME TypeOK, NEW x \in Rows, Say(x) \/ Fail(x) \/ Delete(x)
  PROVE  TypeOK'
  <1> USE DEF request, handler, rows, timers, process, start, history
  <1>1. CASE Say(x)
    <2>1. said[x] \in 0..3 BY <1>1, ProgressFacts DEF Say, TypeOK
    <2>2. Progress[said[x] + 1] \in Status /\ said[x] + 1 \in 0..Len(Progress)
      BY <2>1, ProgressFacts
    <2> QED BY <1>1, <2>2 DEF Say, Write, TypeOK
  <1>2. CASE Fail(x)
    <2>1. faults' \in 0..MaxFaults BY <1>2, ServiceAssumption DEF Fail, TypeOK
    <2>2. row' \in [Rows -> Status \cup {"none"}] BY <1>2 DEF Fail, Write, TypeOK, Status
    <2>3. said' \in [Rows -> 0..Len(Progress)] BY <1>2, ProgressFacts DEF Fail, TypeOK
    <2> QED BY <1>2, <2>1, <2>2, <2>3 DEF Fail, TypeOK
  <1>3. CASE Delete(x) BY <1>3, ServiceAssumption DEF Delete, TypeOK
  <1> QED BY <1>1, <1>2, <1>3

\* What a failed query leaves are captures and rows.
LEMMA MissedTyped ==
  ASSUME TypeOK
  PROVE  /\ \A some \in SUBSET Requests : MissCaptures(some) =>
              /\ missed' \in [captures : SUBSET Requests, rows : SUBSET Rows]
              /\ missed'.captures = missed.captures \cup some /\ missed'.rows = missed.rows
         /\ \A some \in SUBSET Rows : MissRows(some) =>
              /\ missed' \in [captures : SUBSET Requests, rows : SUBSET Rows]
              /\ missed'.rows = missed.rows \cup some /\ missed'.captures = missed.captures
  BY DEF MissCaptures, MissRows, TypeOK

\* So does each step of a stop or a start.
LEMMA StartTyped ==
  ASSUME TypeOK, Down \/ Up \/ Restart
  PROVE  TypeOK'
  <1> USE DEF request, handler, rows, timers, process, start, history
  <1>1. CASE Down BY <1>1, ServiceAssumption DEF Down, TypeOK
  <1>2. CASE Up BY <1>2 DEF Up, TypeOK
  <1>3. CASE Reschedule
    <2>1. Cardinality(Users) \in Nat BY ServiceAssumption, FS_CardinalityType
    <2>2. missed' = missed \/ MissCaptures(Future) BY <1>3 DEF Reschedule
    <2>3. Future \subseteq Requests BY DEF Future, Found
    <2>4. missed' \in [captures : SUBSET Requests, rows : SUBSET Rows]
      BY <2>2, <2>3, MissedTyped DEF TypeOK
    <2>5. capJobs' \in [Requests -> Nat]
      <3>1. \A r \in Requests : capJobs[r] \in Nat /\ capJobs[r] + Cardinality(Users) \in Nat
        BY <2>1 DEF TypeOK
      <3>2. \/ capJobs' = capJobs
            \/ capJobs' = [r \in Requests |-> IF r \in Future THEN capJobs[r] + Cardinality(Users)
                                                              ELSE capJobs[r]]
        BY <1>3 DEF Reschedule
      <3>3. CASE capJobs' = capJobs BY <3>3 DEF TypeOK
      <3>4. CASE capJobs' = [r \in Requests |-> IF r \in Future THEN capJobs[r] + Cardinality(Users)
                                                                ELSE capJobs[r]]
        BY <3>1, <3>4
      <3> QED BY <3>2, <3>3, <3>4
    <2> QED BY <1>3, <2>4, <2>5 DEF Reschedule, TypeOK
  <1>4. CASE LookForPast
    <2>1. passed' \subseteq Requests /\ resched' \in {"mark", "over"}
      BY <1>4 DEF LookForPast, Past, TypeOK
    <2>2. missed' = missed \/ MissCaptures(Past) BY <1>4 DEF LookForPast
    <2>3. Past \subseteq Requests BY DEF Past, Found
    <2>4. missed' \in [captures : SUBSET Requests, rows : SUBSET Rows]
      BY <2>2, <2>3, MissedTyped DEF TypeOK
    <2> QED BY <1>4, <2>1, <2>4 DEF LookForPast, TypeOK
  <1>5. CASE MarkFailed
    <2>0. missed' = missed \/ MissCaptures(passed) BY <1>5 DEF MarkFailed
    <2>4. missed' \in [captures : SUBSET Requests, rows : SUBSET Rows]
      BY <2>0, MissedTyped DEF TypeOK
    <2>1. cap' = cap \/ \E r \in passed : cap' = [cap EXCEPT ![r] = "FAILED"]
      BY <1>5 DEF MarkFailed
    <2>2. cap' \in [Requests -> {"none", "SCHEDULED", "STARTED", "STARTING", "FAILED"}]
      BY <2>1 DEF TypeOK
    <2>3. passed' \subseteq Requests /\ resched' \in {"mark", "over"}
      BY <1>5 DEF MarkFailed, TypeOK
    <2> QED BY <1>5, <2>2, <2>3, <2>4 DEF MarkFailed, TypeOK
  <1>6. CASE LookForAbandoned
    <2>1. missed' = missed \/ MissRows({x \in Rows : row[x] \in Unfinished})
      BY <1>6 DEF LookForAbandoned
    <2>2. missed' \in [captures : SUBSET Requests, rows : SUBSET Rows]
      BY <2>1, MissedTyped DEF TypeOK
    <2>3. marking' \in {"mark", "over"} /\ abandoned' \subseteq Rows BY <1>6 DEF LookForAbandoned
    <2> QED BY <1>6, <2>2, <2>3 DEF LookForAbandoned, TypeOK
  <1>7. CASE MarkAbandoned
    <2>1. missed' = missed \/ MissRows(abandoned) BY <1>7 DEF MarkAbandoned
    <2>2. missed' \in [captures : SUBSET Requests, rows : SUBSET Rows]
      BY <2>1, MissedTyped DEF TypeOK
    <2>3. row' = row \/ \E x \in abandoned : Write(x, "FAILED") BY <1>7 DEF MarkAbandoned
    <2>4. row' \in [Rows -> Status \cup {"none"}] BY <2>3 DEF Write, TypeOK, Status
    <2>5. /\ marking' \in {"mark", "over"} /\ abandoned' \subseteq Rows
          /\ writtenOff' \subseteq Rows
      BY <1>7 DEF MarkAbandoned, TypeOK
    <2> QED BY <1>7, <2>2, <2>4, <2>5 DEF MarkAbandoned, TypeOK
  <1> QED BY <1>1, <1>2, <1>3, <1>4, <1>5, <1>6, <1>7 DEF Restart

\* Each step keeps the types.
LEMMA NextTyped == TypeOK /\ [Next]_vars => TypeOK'
  <1> SUFFICES ASSUME TypeOK, [Next]_vars PROVE TypeOK'
    OBVIOUS
  <1>1. CASE Next BY <1>1, RequestTyped, ProcessTyped, RowTyped, StartTyped DEF Next
  <1>2. CASE UNCHANGED vars
    BY <1>2 DEF vars, request, handler, rows, timers, process, start, history, TypeOK
  <1> QED BY <1>1, <1>2

\* The types hold in every state.
THEOREM Typed == Spec => []TypeOK
  BY InitTyped, NextTyped, PTL DEF Spec

-----------------------------------------------------------------------------
(* What each variable is changed by                                         *)

\* Nobody changes what was asked for.
LEMMA LoadStays == [Next]_vars => load' = load
  <1> USE DEF request
  <1>1. ASSUME NEW r \in Requests, Post(r) \/ Advance(r) \/ Reject(r) PROVE load' = load
    BY <1>1 DEF Post, Advance, Check, InsertCapture, InsertReplay, Launch, LateCheck, Reject
  <1>2. ASSUME NEW r \in Requests, Timers(r) \/ Begin(r) \/ Exit(r) \/ Die(r) PROVE load' = load
    BY <1>2 DEF Timers, Due, Fire, FireCapture, Begin, Exit, Die
  <1>3. ASSUME NEW x \in Rows, Say(x) \/ Fail(x) \/ Delete(x) PROVE load' = load
    BY <1>3 DEF Say, Fail, Delete
  <1>4. Down \/ Up \/ Restart => load' = load
    BY DEF Down, Up, Restart, Reschedule, LookForPast, MarkFailed, LookForAbandoned, MarkAbandoned
  <1>5. UNCHANGED vars => load' = load BY DEF vars
  <1> QED BY <1>1, <1>2, <1>3, <1>4, <1>5 DEF Next

\* A handler's place is changed by the handler, and by a stop of the service.
LEMMA HandlerChanges ==
  ASSUME [Next]_vars
  PROVE  \/ UNCHANGED <<at, made>>
         \/ Down
         \/ \E r \in Requests : Post(r) \/ Check(r) \/ InsertCapture(r) \/ InsertReplay(r)
                                \/ Launch(r) \/ Reject(r)
  <1> USE DEF handler
  <1>1. ASSUME NEW r \in Requests, Timers(r) \/ Begin(r) \/ Exit(r) \/ Die(r)
        PROVE  UNCHANGED <<at, made>>
    BY <1>1 DEF Timers, Due, Fire, FireCapture, Begin, Exit, Die
  <1>2. ASSUME NEW r \in Requests, NEW i \in 1..MaxMimic, LateCheck(r, i)
        PROVE  UNCHANGED <<at, made>>
    BY <1>2 DEF LateCheck
  <1>3. ASSUME NEW x \in Rows, Say(x) \/ Fail(x) \/ Delete(x) PROVE UNCHANGED <<at, made>>
    BY <1>3 DEF Say, Fail, Delete
  <1>4. Up \/ Restart => UNCHANGED <<at, made>>
    BY DEF Up, Restart, Reschedule, LookForPast, MarkFailed, LookForAbandoned, MarkAbandoned
  <1>5. UNCHANGED vars => UNCHANGED <<at, made>> BY DEF vars
  <1> QED BY <1>1, <1>2, <1>3, <1>4, <1>5 DEF Next, Advance

\* A row is changed by its handler, by its process, by a DELETE and by a start of the service.
LEMMA RowChanges ==
  ASSUME [Next]_vars
  PROVE  \/ UNCHANGED <<row, said, writtenOff>>
         \/ \E r \in Requests : InsertReplay(r)
         \/ \E x \in Rows : Say(x) \/ Fail(x) \/ Delete(x)
         \/ MarkAbandoned
  <1> USE DEF rows, process, history
  <1>1. ASSUME NEW r \in Requests, Timers(r) \/ Begin(r) \/ Exit(r) \/ Die(r)
        PROVE  UNCHANGED <<row, said, writtenOff>>
    BY <1>1 DEF Timers, Due, Fire, FireCapture, Begin, Exit, Die
  <1>2. ASSUME NEW r \in Requests, NEW i \in 1..MaxMimic, LateCheck(r, i)
        PROVE  UNCHANGED <<row, said, writtenOff>>
    BY <1>2 DEF LateCheck
  <1>3. ASSUME NEW r \in Requests,
               Post(r) \/ Check(r) \/ InsertCapture(r) \/ Launch(r) \/ Reject(r)
        PROVE  UNCHANGED <<row, said, writtenOff>>
    BY <1>3 DEF Post, Check, InsertCapture, Launch, Reject
  <1>4. Down \/ Up \/ Reschedule \/ LookForPast \/ MarkFailed \/ LookForAbandoned
        => UNCHANGED <<row, said, writtenOff>>
    BY DEF Down, Up, Reschedule, LookForPast, MarkFailed, LookForAbandoned
  <1>5. UNCHANGED vars => UNCHANGED <<row, said, writtenOff>> BY DEF vars
  <1> QED BY <1>1, <1>2, <1>3, <1>4, <1>5 DEF Next, Advance, Restart

-----------------------------------------------------------------------------
(* Handlers and rows                                                        *)

\* HandlerOrder is kept.
LEMMA HandlerOrderKept == TypeOK /\ HandlerOrder /\ [Next]_vars => HandlerOrder'
  <1> SUFFICES ASSUME TypeOK, HandlerOrder, [Next]_vars PROVE HandlerOrder'
    OBVIOUS
  <1>0. load' = load BY LoadStays
  <1> USE <1>0 DEF HandlerOrder, kind, dbs, Distinct
  <1>1. CASE \E r \in Requests : Post(r)
    <2>1. PICK r \in Requests : Post(r) BY <1>1
    <2>2. at'[r] = "create" => Distinct(r) /\ kind(r) # "replay" BY <2>1 DEF Post, TypeOK
    <2>3. at'[r] = "check" => kind(r) = "replay" BY <2>1 DEF Post, TypeOK
    <2> QED BY <2>1, <2>2, <2>3 DEF Post, TypeOK, rows
  <1>2. CASE \E r \in Requests : Check(r)
    <2>1. PICK r \in Requests : Check(r) BY <1>2
    <2>2. \E to \in {"over", "create"} : at' = [at EXCEPT ![r] = to] BY <2>1 DEF Check
    <2>3. at[r] = "check" /\ made' = made BY <2>1 DEF Check
    <2>4. DOMAIN dbs(r) = 1..1 BY <2>3, LoadFacts
    <2>5. at \in [Requests -> {"idle", "check", "create", "launch", "over"}] BY DEF TypeOK
    <2> QED BY <2>2, <2>3, <2>4, <2>5
  <1>3. CASE \E r \in Requests : InsertCapture(r) BY <1>3 DEF InsertCapture, TypeOK
  <1>4. CASE \E r \in Requests : InsertReplay(r)
    <2>1. PICK r \in Requests : InsertReplay(r) BY <1>4
    <2>2. Len(dbs(r)) \in Nat /\ made[r] \in Nat /\ made[r] + 1 <= Len(dbs(r))
          /\ (kind(r) = "replay" => Len(dbs(r)) = 1)
      <3>1. Len(dbs(r)) \in Nat /\ (kind(r) = "replay" => Len(dbs(r)) = 1) BY LoadFacts
      <3>2. made[r] \in Nat /\ made[r] < Len(dbs(r)) BY <2>1 DEF InsertReplay, TypeOK
      <3> QED BY <3>1, <3>2
    <2>3. made'[r] = made[r] + 1 /\ at'[r] = IF made[r] + 1 = Len(dbs(r)) THEN "launch" ELSE "create"
      BY <2>1 DEF InsertReplay, TypeOK
    <2>4. \A q \in Requests \ {r} : made'[q] = made[q] /\ at'[q] = at[q]
      BY <2>1 DEF InsertReplay, TypeOK
    <2>5. at[r] = "create" /\ Distinct(r) BY <2>1 DEF InsertReplay
    <2> SUFFICES ASSUME NEW q \in Requests
                 PROVE  /\ made'[q] <= Len(dbs(q))
                        /\ at'[q] \in {"idle", "check"} => made'[q] = 0
                        /\ at'[q] = "check" => kind(q) = "replay"
                        /\ at'[q] = "create" /\ kind(q) = "replay" => made'[q] = 0
                        /\ at'[q] = "create" \/ made'[q] > 0 => Distinct(q)
      OBVIOUS
    <2>6. CASE q = r
      <3>1. made'[r] <= Len(dbs(r)) BY <2>2, <2>3
      <3>2. at'[r] \in {"create", "launch"} BY <2>3
      <3>3. at'[r] = "create" => kind(r) # "replay"
        <4> SUFFICES ASSUME kind(r) = "replay" PROVE at'[r] = "launch" OBVIOUS
        <4>1. Len(dbs(r)) = 1 BY <2>2
        <4>2. made[r] + 1 <= 1 BY <2>2, <4>1
        <4>3. made[r] + 1 = Len(dbs(r)) BY <2>2, <4>1, <4>2
        <4> QED BY <2>3, <4>3
      <3> QED BY <2>5, <2>6, <3>1, <3>2, <3>3
    <2>7. CASE q # r BY <2>4, <2>7
    <2> QED BY <2>6, <2>7
  <1>5. CASE \E r \in Requests : Launch(r) \/ Reject(r)
    <2>1. PICK r \in Requests : at' = [at EXCEPT ![r] = "over"] /\ made' = made
      BY <1>5 DEF Launch, Reject
    <2>2. at \in [Requests -> {"idle", "check", "create", "launch", "over"}] BY DEF TypeOK
    <2> QED BY <2>1, <2>2
  <1>6. CASE Down BY <1>6 DEF Down, TypeOK
  <1>7. CASE UNCHANGED <<at, made>> BY <1>7
  <1> QED BY <1>1, <1>2, <1>3, <1>4, <1>5, <1>6, <1>7, HandlerChanges

\* RowsAreMade is kept.
LEMMA RowsAreMadeKept == TypeOK /\ RowsAreMade /\ [Next]_vars => RowsAreMade'
  <1> SUFFICES ASSUME TypeOK, RowsAreMade, [Next]_vars PROVE RowsAreMade'
    OBVIOUS
  <1> USE DEF RowsAreMade
  <1>1. CASE \E r \in Requests : InsertReplay(r)
    <2>1. PICK r \in Requests : InsertReplay(r) BY <1>1
    <2>2. made[r] \in Nat /\ made'[r] = made[r] + 1
      BY <2>1 DEF InsertReplay, TypeOK
    <2>3. \A q \in Requests \ {r} : made'[q] = made[q] BY <2>1 DEF InsertReplay, TypeOK
    <2>4. \A x \in Rows : x # <<r, made[r] + 1>> => row'[x] = row[x]
      BY <2>1 DEF InsertReplay, TypeOK
    <2> QED BY <2>2, <2>3, <2>4, RowParts
  <1>2. CASE \E x \in Rows : Say(x) \/ Fail(x) \/ Delete(x)
    <2>1. made' = made BY <1>2 DEF Say, Fail, Delete, handler
    <2>2. \A y \in Rows : row'[y] # "none" => row[y] # "none"
      BY <1>2 DEF Say, Fail, Delete, Write, TypeOK
    <2> QED BY <2>1, <2>2
  <1>3. CASE MarkAbandoned
    <2>1. made' = made BY <1>3 DEF MarkAbandoned, handler
    <2>2. \A y \in Rows : row'[y] # "none" => row[y] # "none"
      BY <1>3 DEF MarkAbandoned, Write, TypeOK
    <2> QED BY <2>1, <2>2
  <1>4. CASE UNCHANGED row
    <2>1. UNCHANGED made \/ \E r \in Requests : InsertReplay(r)
      BY HandlerChanges DEF Down, Post, Check, InsertCapture, Launch, Reject
    <2> QED BY <1>1, <1>4, <2>1
  <1> QED BY <1>1, <1>2, <1>3, <1>4, RowChanges

\* EndedHasSaid is kept.
LEMMA EndedHasSaidKept == TypeOK /\ EndedHasSaid /\ [Next]_vars => EndedHasSaid'
  <1> SUFFICES ASSUME TypeOK, EndedHasSaid, [Next]_vars PROVE EndedHasSaid'
    OBVIOUS
  <1> USE DEF EndedHasSaid
  <1>1. CASE \E r \in Requests : InsertReplay(r)
    BY <1>1 DEF InsertReplay, Initial, process, TypeOK
  <1>2. CASE \E x \in Rows : Say(x)
    <2>1. PICK x \in Rows : Say(x) BY <1>2
    <2>2. said[x] \in 0..3 /\ said'[x] = said[x] + 1 BY <2>1, ProgressFacts DEF Say, TypeOK
    <2>3. row'[x] \in {"DONE", "FAILED"} => said[x] = 3
      BY <2>1, <2>2, ProgressFacts DEF Say, Write, TypeOK
    <2> QED BY <2>1, <2>2, <2>3, ProgressFacts DEF Say, Write, TypeOK, history
  <1>3. CASE \E x \in Rows : Fail(x) BY <1>3 DEF Fail, Write, TypeOK, history
  <1>4. CASE \E x \in Rows : Delete(x) BY <1>4 DEF Delete, TypeOK, history, process
  <1>5. CASE MarkAbandoned BY <1>5 DEF MarkAbandoned, Write, TypeOK, process
  <1>6. CASE UNCHANGED <<row, said, writtenOff>> BY <1>6
  <1> QED BY <1>1, <1>2, <1>3, <1>4, <1>5, <1>6, RowChanges

-----------------------------------------------------------------------------
(* Two on one database                                                      *)

\* The histories only grow.
LEMMA HistoriesGrow == [Next]_vars => blind \subseteq blind' /\ writtenOff \subseteq writtenOff'
  <1> SUFFICES ASSUME [Next]_vars PROVE blind \subseteq blind' /\ writtenOff \subseteq writtenOff'
    OBVIOUS
  <1> USE DEF history
  <1>1. ASSUME NEW r \in Requests, Post(r) \/ Advance(r) \/ Reject(r)
        PROVE  blind \subseteq blind' /\ writtenOff \subseteq writtenOff'
    BY <1>1 DEF Post, Advance, Check, InsertCapture, InsertReplay, Launch, LateCheck, Reject
  <1>2. ASSUME NEW r \in Requests, Timers(r) \/ Begin(r) \/ Exit(r) \/ Die(r)
        PROVE  blind \subseteq blind' /\ writtenOff \subseteq writtenOff'
    BY <1>2 DEF Timers, Due, Fire, FireCapture, Begin, Exit, Die
  <1>3. ASSUME NEW x \in Rows, Say(x) \/ Fail(x) \/ Delete(x)
        PROVE  blind \subseteq blind' /\ writtenOff \subseteq writtenOff'
    BY <1>3 DEF Say, Fail, Delete
  <1>4. Down \/ Up \/ Restart => blind \subseteq blind' /\ writtenOff \subseteq writtenOff'
    BY DEF Down, Up, Restart, Reschedule, LookForPast, MarkFailed, LookForAbandoned, MarkAbandoned
  <1>5. UNCHANGED vars => UNCHANGED <<blind, writtenOff>> BY DEF vars
  <1> QED BY <1>1, <1>2, <1>3, <1>4, <1>5 DEF Next

\* A row that holds its database held it before, has been written off, or is inserted now.
LEMMA HoldsSince ==
  ASSUME TypeOK, EndedHasSaid, [Next]_vars, NEW x \in Rows, row'[x] \in Occupying
  PROVE  \/ row[x] \in Occupying
         \/ x \in writtenOff'
         \/ \E q \in Requests : InsertReplay(q) /\ x = <<q, made[q] + 1>>
  <1>0. writtenOff \subseteq writtenOff' BY HistoriesGrow
  <1>1. row[x] \in Occupying \cup {"none", "DONE", "FAILED"} BY DEF TypeOK, Status, Occupying
  <1>2. CASE \E q \in Requests : InsertReplay(q)
    <2>1. PICK q \in Requests : InsertReplay(q) BY <1>2
    <2>2. x # <<q, made[q] + 1>> => row'[x] = row[x] BY <2>1 DEF InsertReplay, TypeOK
    <2> QED BY <2>1, <2>2
  <1>3. CASE \E y \in Rows : Say(y)
    <2>1. PICK y \in Rows : Say(y) BY <1>3
    <2>2. row[x] # "none" BY <2>1 DEF Say, Write, TypeOK, Occupying
    <2>3. x = y => said[x] # Len(Progress) BY <2>1, ProgressFacts DEF Say, TypeOK
    <2>4. x # y => row'[x] = row[x] BY <2>1 DEF Say, Write, TypeOK
    <2> QED BY <1>0, <1>1, <2>2, <2>3, <2>4 DEF EndedHasSaid, Occupying
  <1>4. CASE \E y \in Rows : Fail(y) \/ Delete(y)
    BY <1>4 DEF Fail, Delete, Write, TypeOK, Occupying
  <1>5. CASE MarkAbandoned BY <1>5 DEF MarkAbandoned, Write, TypeOK, Occupying
  <1>6. CASE UNCHANGED row BY <1>6
  <1> QED BY <1>2, <1>3, <1>4, <1>5, <1>6, RowChanges

\* A replay that is to be inserted was so before, or has just passed its check.
LEMMA ComesSince ==
  ASSUME TypeOK, [Next]_vars, NEW r \in Requests, at'[r] = "create", kind(r) = "replay"
  PROVE  at[r] = "create" \/ Check(r)
  <1>1. CASE \E q \in Requests : Post(q) BY <1>1 DEF Post, TypeOK
  <1>2. CASE \E q \in Requests : Check(q)
    <2>1. PICK q \in Requests : Check(q) BY <1>2
    <2>2. \E to \in {"over", "create"} : at' = [at EXCEPT ![q] = to] BY <2>1 DEF Check
    <2>3. at \in [Requests -> {"idle", "check", "create", "launch", "over"}] BY DEF TypeOK
    <2> QED BY <2>1, <2>2, <2>3
  <1>3. CASE \E q \in Requests : InsertCapture(q) \/ InsertReplay(q) \/ Launch(q) \/ Reject(q)
    BY <1>3 DEF InsertCapture, InsertReplay, Launch, Reject, TypeOK
  <1>4. CASE Down BY <1>4 DEF Down, TypeOK
  <1>5. CASE UNCHANGED at BY <1>5
  <1> QED BY <1>1, <1>2, <1>3, <1>4, <1>5, HandlerChanges

\* A replay that passes its check meets those that are coming to its database.
LEMMA CheckMeets ==
  ASSUME TypeOK, HandlerOrder, NEW r \in Requests, Check(r), at'[r] = "create",
         NEW q \in Requests, q # r, at[q] = "create", kind(q) = "replay", dbs(q)[1] = dbs(r)[1]
  PROVE  {r, q} \in blind'
  <1>1. made[q] = 0 /\ Len(dbs(q)) = 1 BY LoadFacts DEF HandlerOrder
  <1>2. q \in Coming(dbs(r)[1])
    <2>1. 1 \in (made[q] + 1)..Len(dbs(q)) BY <1>1
    <2> QED BY <2>1 DEF Coming
  <1>3. {r, q} \in Meets(r, dbs(r)[1]) BY <1>2 DEF Meets
  <1>4. blind' = blind \cup Meets(r, dbs(r)[1]) BY DEF Check, TypeOK
  <1> QED BY <1>3, <1>4

\* ComingKnows is kept.
LEMMA ComingKnowsKept ==
  TypeOK /\ HandlerOrder /\ EndedHasSaid /\ ComingKnows /\ [Next]_vars => ComingKnows'
  <1> SUFFICES ASSUME TypeOK, HandlerOrder, EndedHasSaid, ComingKnows, [Next]_vars,
                      NEW r \in Requests, at'[r] = "create", kind(r) = "replay"
               PROVE  /\ \A x \in Rows : x[1] # r /\ row'[x] \in Occupying /\ Target(x) = dbs(r)[1]
                                         => {r, x[1]} \in blind' \/ x \in writtenOff'
                      /\ \A q \in Requests :
                           q # r /\ at'[q] = "create" /\ kind(q) = "replay" /\ dbs(q)[1] = dbs(r)[1]
                           => {r, q} \in blind'
    BY LoadStays DEF ComingKnows, kind, dbs, Target
  <1>1. blind \subseteq blind' /\ writtenOff \subseteq writtenOff' BY HistoriesGrow
  <1>2. at[r] = "create" \/ Check(r) BY ComesSince
  <1>3. ASSUME NEW x \in Rows, x[1] # r, row'[x] \in Occupying, Target(x) = dbs(r)[1]
        PROVE  {r, x[1]} \in blind' \/ x \in writtenOff'
    <2>1. CASE Check(r)
      <3>1. row' = row /\ On(dbs(r)[1]) = {} BY <2>1 DEF Check, rows, TypeOK
      <3> QED BY <1>3, <3>1 DEF On
    <2>2. CASE at[r] = "create" /\ row[x] \in Occupying
      BY <1>1, <1>3, <2>2 DEF ComingKnows
    <2>3. CASE at[r] = "create" /\ \E q \in Requests : InsertReplay(q) /\ x = <<q, made[q] + 1>>
      <3>1. PICK q \in Requests : InsertReplay(q) /\ x = <<q, made[q] + 1>> BY <2>3
      <3>2. at[q] = "create" /\ x[1] = q /\ q # r BY <1>3, <3>1 DEF InsertReplay
      <3>3. CASE kind(q) = "replay"
        <4>1. made[q] = 0 BY <3>2, <3>3 DEF HandlerOrder
        <4>2. dbs(q)[1] = dbs(r)[1] BY <1>3, <3>1, <4>1 DEF Target
        <4> QED BY <1>1, <2>3, <3>2, <3>3, <4>2 DEF ComingKnows
      <3>4. CASE kind(q) # "replay"
        <4>1. kind(q) = "mimic"
          <5>1. made[q] \in Nat /\ made[q] < Len(dbs(q)) BY <3>1 DEF InsertReplay, TypeOK
          <5>2. dbs(q) # <<>> BY <5>1
          <5> QED BY <3>4, <5>2, LoadFacts
        <4>2. blind' = blind \cup Meets(q, Target(x)) BY <3>1, <4>1 DEF InsertReplay
        <4>3. made[r] = 0 /\ Len(dbs(r)) = 1 BY <2>3, LoadFacts DEF HandlerOrder
        <4>4. r \in Coming(Target(x))
          <5>1. 1 \in (made[r] + 1)..Len(dbs(r)) BY <4>3
          <5> QED BY <1>3, <2>3, <5>1 DEF Coming
        <4>5. {q, r} \in Meets(q, Target(x)) BY <3>2, <4>4 DEF Meets
        <4>6. {q, r} = {r, x[1]} BY <3>2
        <4> QED BY <4>2, <4>5, <4>6
      <3> QED BY <3>3, <3>4
    <2> QED BY <1>2, <1>3, <2>1, <2>2, <2>3, HoldsSince
  <1>4. ASSUME NEW q \in Requests, q # r, at'[q] = "create", kind(q) = "replay",
               dbs(q)[1] = dbs(r)[1]
        PROVE  {r, q} \in blind'
    <2>1. at[q] = "create" \/ Check(q) BY <1>4, ComesSince
    <2>2. CASE at[r] = "create" /\ at[q] = "create" BY <1>1, <1>4, <2>2 DEF ComingKnows
    <2>3. CASE Check(r)
      <3>1. at[q] = "create" BY <1>4, <2>3 DEF Check, TypeOK
      <3> QED BY <1>4, <2>3, <3>1, CheckMeets
    <2>4. CASE Check(q)
      <3>1. at[r] = "create" BY <1>4, <2>4 DEF Check, TypeOK
      <3>2. {q, r} \in blind' BY <1>4, <2>4, <3>1, CheckMeets
      <3> QED BY <3>2
    <2> QED BY <1>2, <2>1, <2>2, <2>3, <2>4
  <1> QED BY <1>3, <1>4

\* The rows of one request have databases of their own.
OwnDistinct ==
  \A x, y \in Rows :
    x # y /\ row[x] # "none" /\ row[y] # "none" /\ Target(x) = Target(y) => x[1] # y[1]

LEMMA RowsOfOne == TypeOK /\ HandlerOrder /\ RowsAreMade => OwnDistinct
  <1> SUFFICES ASSUME TypeOK, HandlerOrder, RowsAreMade, NEW x \in Rows, NEW y \in Rows,
                      row[x] # "none", row[y] # "none", Target(x) = Target(y), x[1] = y[1]
               PROVE  x = y
    BY DEF OwnDistinct
  <1>1. x[1] \in Requests /\ x[2] \in 1..MaxMimic /\ y[2] \in 1..MaxMimic
        /\ x = <<x[1], x[2]>> /\ y = <<y[1], y[2]>>
    BY RowParts
  <1>2. x[2] <= made[x[1]] /\ y[2] <= made[x[1]] /\ made[x[1]] <= Len(dbs(x[1]))
        /\ made[x[1]] \in Nat /\ MaxMimic \in Nat
    BY <1>1, ServiceAssumption DEF RowsAreMade, HandlerOrder, TypeOK
  <1>3. Len(dbs(x[1])) \in Nat /\ DOMAIN dbs(x[1]) = 1..Len(dbs(x[1])) BY <1>1, LoadFacts
  <1>4. x[2] \in DOMAIN dbs(x[1]) /\ y[2] \in DOMAIN dbs(x[1]) BY <1>1, <1>2, <1>3
  <1>5. Distinct(x[1]) BY <1>1, <1>2 DEF HandlerOrder
  <1>6. x[2] = y[2] BY <1>4, <1>5 DEF Distinct, Target
  <1> QED BY <1>1, <1>6

\* A row that is inserted on a database another request holds: the two are blind.
LEMMA InsertedIsBlind ==
  ASSUME TypeOK, HandlerOrder, ComingKnows, [Next]_vars, NEW q \in Requests, InsertReplay(q),
         NEW y \in Rows, y[1] # q, row[y] \in Occupying, Target(y) = Target(<<q, made[q] + 1>>)
  PROVE  {q, y[1]} \in blind' \/ y \in writtenOff'
  <1>1. blind \subseteq blind' /\ writtenOff \subseteq writtenOff' BY HistoriesGrow
  <1>2. at[q] = "create" BY DEF InsertReplay
  <1>3. CASE kind(q) = "replay"
    <2>1. made[q] = 0 BY <1>2, <1>3 DEF HandlerOrder
    <2>2. Target(y) = dbs(q)[1] BY <2>1 DEF Target
    <2> QED BY <1>1, <1>2, <1>3, <2>2 DEF ComingKnows
  <1>4. CASE kind(q) # "replay"
    <2>1. made[q] \in Nat /\ made[q] < Len(dbs(q)) BY DEF InsertReplay, TypeOK
    <2>2. dbs(q) # <<>> BY <2>1
    <2>3. kind(q) = "mimic" BY <1>4, <2>2, LoadFacts
    <2>4. blind' = blind \cup Meets(q, Target(y)) BY <2>3 DEF InsertReplay
    <2>5. y[1] \in Requests /\ y \in On(Target(y)) BY RowParts DEF On
    <2>6. {q, y[1]} \in Meets(q, Target(y)) BY <2>5 DEF Meets
    <2> QED BY <2>4, <2>6
  <1> QED BY <1>3, <1>4

\* TwoOnOneDatabase is kept.
LEMMA TwoOnOneKept ==
  TypeOK /\ HandlerOrder /\ RowsAreMade /\ EndedHasSaid /\ ComingKnows /\ TwoOnOneDatabase
  /\ [Next]_vars => TwoOnOneDatabase'
  <1> SUFFICES ASSUME TypeOK, HandlerOrder, RowsAreMade, EndedHasSaid, ComingKnows,
                      TwoOnOneDatabase, [Next]_vars
               PROVE  TwoOnOneDatabase'
    OBVIOUS
  <1>1. TypeOK' /\ OwnDistinct'
    <2>1. TypeOK' /\ HandlerOrder' /\ RowsAreMade'
      BY NextTyped, HandlerOrderKept, RowsAreMadeKept
    <2> QED BY <2>1, RowsOfOne, PTL
  <1>2. \A z : Target(z)' = Target(z) BY LoadStays DEF Target, dbs
  <1>3. blind \subseteq blind' /\ writtenOff \subseteq writtenOff' BY HistoriesGrow
  <1>0. \A z \in Rows : row'[z] \in Occupying \cup {"none", "DONE", "FAILED"}
    BY <1>1 DEF TypeOK, Status, Occupying
  <1> SUFFICES ASSUME NEW x \in Rows, NEW y \in Rows, x # y, Target(x) = Target(y),
                      row'[x] \in Occupying, row'[y] \in Occupying
               PROVE  \/ {x[1], y[1]} \in blind'
                      \/ x[1] # y[1] /\ {x, y} \cap writtenOff' # {}
    BY <1>0, <1>2 DEF TwoOnOneDatabase
  <1>4. x[1] # y[1] BY <1>1, <1>2 DEF OwnDistinct, Occupying
  <1>5. CASE row[x] \in Occupying /\ row[y] \in Occupying
    BY <1>3, <1>5 DEF TwoOnOneDatabase, Occupying
  <1>6. CASE x \in writtenOff' \/ y \in writtenOff' BY <1>4, <1>6
  <1>7. ASSUME NEW q \in Requests, InsertReplay(q), NEW z \in Rows, z = <<q, made[q] + 1>>,
               NEW w \in Rows, w # z, w[1] # z[1], row'[w] \in Occupying, Target(w) = Target(z)
        PROVE  {z[1], w[1]} \in blind' \/ w \in writtenOff'
    <2>1. row[w] \in Occupying BY <1>7 DEF InsertReplay, TypeOK
    <2>2. z[1] = q /\ w[1] # q BY <1>7
    <2> QED BY <1>7, <2>1, <2>2, InsertedIsBlind
  <1>8. CASE \E q \in Requests : InsertReplay(q) /\ x = <<q, made[q] + 1>>
    BY <1>4, <1>7, <1>8
  <1>9. CASE \E q \in Requests : InsertReplay(q) /\ y = <<q, made[q] + 1>>
    <2>1. {y[1], x[1]} \in blind' \/ x \in writtenOff' BY <1>4, <1>7, <1>9
    <2>2. {y[1], x[1]} = {x[1], y[1]} OBVIOUS
    <2> QED BY <1>4, <2>1, <2>2
  <1> QED BY <1>5, <1>6, <1>8, <1>9, HoldsSince

-----------------------------------------------------------------------------
(* The start of the service                                                 *)

\* Only a start of the service looks at what there is.
LEMMA StartChanges ==
  ASSUME [Next]_vars
  PROVE  /\ before' = before \/ Up
         /\ service' = service \/ Up \/ Down
         /\ marking' = marking \/ Up \/ Down \/ LookForAbandoned \/ MarkAbandoned
         /\ abandoned' = abandoned \/ Up \/ Down \/ LookForAbandoned \/ MarkAbandoned
  <1> USE DEF start, history
  <1>1. ASSUME NEW r \in Requests, Post(r) \/ Advance(r) \/ Reject(r)
        PROVE  UNCHANGED <<before, service, marking, abandoned>>
    BY <1>1 DEF Post, Advance, Check, InsertCapture, InsertReplay, Launch, LateCheck, Reject
  <1>2. ASSUME NEW r \in Requests, Timers(r) \/ Begin(r) \/ Exit(r) \/ Die(r)
        PROVE  UNCHANGED <<before, service, marking, abandoned>>
    BY <1>2 DEF Timers, Due, Fire, FireCapture, Begin, Exit, Die
  <1>3. ASSUME NEW x \in Rows, Say(x) \/ Fail(x) \/ Delete(x)
        PROVE  UNCHANGED <<before, service, marking, abandoned>>
    BY <1>3 DEF Say, Fail, Delete
  <1>4. Reschedule \/ LookForPast \/ MarkFailed => UNCHANGED <<before, service, marking, abandoned>>
    BY DEF Reschedule, LookForPast, MarkFailed
  <1>5. LookForAbandoned \/ MarkAbandoned \/ Down => UNCHANGED before
    BY DEF LookForAbandoned, MarkAbandoned, Down
  <1>6. LookForAbandoned \/ MarkAbandoned => UNCHANGED service
    BY DEF LookForAbandoned, MarkAbandoned
  <1>7. UNCHANGED vars => UNCHANGED <<before, service, marking, abandoned>> BY DEF vars
  <1> QED BY <1>1, <1>2, <1>3, <1>4, <1>5, <1>6, <1>7 DEF Next, Restart

\* What failed queries leave is forgotten by the next start only.
LEMMA MissedGrows ==
  ASSUME TypeOK, [Next]_vars, ~Up
  PROVE  missed.captures \subseteq missed'.captures /\ missed.rows \subseteq missed'.rows
  <1> USE DEF history
  <1>1. ASSUME NEW r \in Requests, Post(r) \/ Advance(r) \/ Reject(r) PROVE missed' = missed
    BY <1>1 DEF Post, Advance, Check, InsertCapture, InsertReplay, Launch, LateCheck, Reject
  <1>2. ASSUME NEW r \in Requests, Timers(r) \/ Begin(r) \/ Exit(r) \/ Die(r) PROVE missed' = missed
    BY <1>2 DEF Timers, Due, Fire, FireCapture, Begin, Exit, Die
  <1>3. ASSUME NEW x \in Rows, Say(x) \/ Fail(x) \/ Delete(x) PROVE missed' = missed
    BY <1>3 DEF Say, Fail, Delete
  <1>4. Down \/ UNCHANGED vars => missed' = missed BY DEF Down, vars
  <1>5. ASSUME Restart
        PROVE  missed' = missed \/ (\E some \in SUBSET Requests : MissCaptures(some))
                                \/ (\E some \in SUBSET Rows : MissRows(some))
    <2>1. Future \subseteq Requests /\ Past \subseteq Requests BY DEF Future, Past, Found
    <2>2. passed \subseteq Requests /\ abandoned \subseteq Rows BY DEF TypeOK
    <2> QED BY <1>5, <2>1, <2>2
        DEF Restart, Reschedule, LookForPast, MarkFailed, LookForAbandoned, MarkAbandoned
  <1> QED BY <1>1, <1>2, <1>3, <1>4, <1>5, MissedTyped DEF Next

\* A job and a process come from a handler that launches, or from a job.
LEMMA JobChanges ==
  ASSUME TypeOK, [Next]_vars, NEW r \in Requests
  PROVE  /\ r \in jobs' => r \in jobs \/ at[r] = "launch"
         /\ Alive(r)' => Alive(r) \/ at[r] = "launch" \/ r \in jobs
  <1> USE DEF timers, process, Alive
  <1>1. ASSUME NEW q \in Requests, Post(q) \/ Check(q) \/ InsertCapture(q) \/ InsertReplay(q)
                                   \/ Reject(q) \/ \E i \in 1..MaxMimic : LateCheck(q, i)
        PROVE  UNCHANGED <<jobs, proc>>
    BY <1>1 DEF Post, Check, InsertCapture, InsertReplay, LateCheck, Reject
  <1>2. CASE \E q \in Requests : Launch(q) BY <1>2 DEF Launch, TypeOK
  <1>3. CASE \E q \in Requests : Due(q) \/ Fire(q) BY <1>3 DEF Due, Fire, TypeOK
  <1>4. CASE \E q \in Requests : FireCapture(q) BY <1>4 DEF FireCapture, TypeOK
  <1>5. CASE \E q \in Requests : Begin(q) \/ Exit(q) \/ Die(q) BY <1>5 DEF Begin, Exit, Die, TypeOK
  <1>6. ASSUME NEW x \in Rows, Say(x) \/ Fail(x) \/ Delete(x) PROVE UNCHANGED <<jobs, proc>>
    BY <1>6 DEF Say, Fail, Delete
  <1>7. CASE Down BY <1>7 DEF Down, TypeOK
  <1>8. Up \/ Restart => UNCHANGED <<jobs, proc>>
    BY DEF Up, Restart, Reschedule, LookForPast, MarkFailed, LookForAbandoned, MarkAbandoned
  <1>9. UNCHANGED vars => UNCHANGED <<jobs, proc>> BY DEF vars
  <1> QED BY <1>1, <1>2, <1>3, <1>4, <1>5, <1>6, <1>7, <1>8, <1>9 DEF Next, Advance, Timers

\* A handler that is over stays so; one that is idle is begun by a service that is up.
LEMMA OverStays ==
  ASSUME TypeOK, [Next]_vars, NEW r \in Requests
  PROVE  /\ at[r] = "over" => at'[r] = "over"
         /\ at[r] = "idle" => at'[r] = "idle" \/ service = "up"
  <1>1. CASE \E q \in Requests : Post(q) BY <1>1 DEF Post, TypeOK
  <1>2. CASE \E q \in Requests : Check(q) \/ InsertCapture(q) BY <1>2 DEF Check, InsertCapture, TypeOK
  <1>3. CASE \E q \in Requests : InsertReplay(q) BY <1>3 DEF InsertReplay, TypeOK
  <1>4. CASE \E q \in Requests : Launch(q) \/ Reject(q) BY <1>4 DEF Launch, Reject, TypeOK
  <1>5. CASE Down BY <1>5 DEF Down, TypeOK
  <1>6. CASE UNCHANGED at BY <1>6
  <1> QED BY <1>1, <1>2, <1>3, <1>4, <1>5, <1>6, HandlerChanges

\* DownIsStill is kept.
LEMMA DownIsStillKept == TypeOK /\ DownIsStill /\ [Next]_vars => DownIsStill'
  <1> SUFFICES ASSUME TypeOK, DownIsStill, [Next]_vars, service' = "down"
               PROVE  jobs' = {} /\ \A r \in Requests : at'[r] \in {"idle", "over"}
    BY DEF DownIsStill
  <1>1. CASE Down BY <1>1 DEF Down, TypeOK
  <1>2. CASE service = "down"
    <2>1. jobs = {} /\ \A r \in Requests : at[r] \in {"idle", "over"} BY <1>2 DEF DownIsStill
    <2>2. \A r \in Requests : at'[r] \in {"idle", "over"} BY <1>2, <2>1, OverStays
    <2>3. \A r \in Requests : r \notin jobs' BY <2>1, JobChanges
    <2>4. jobs' \subseteq Requests BY NextTyped DEF TypeOK
    <2> QED BY <2>2, <2>3, <2>4
  <1>3. Up => service' = "up" BY DEF Up
  <1> QED BY <1>1, <1>2, <1>3, StartChanges

\* FoundRowsAreLeft is kept.
LEMMA FoundRowsAreLeftKept ==
  TypeOK /\ HandlerOrder /\ RowsAreMade /\ DownIsStill /\ FoundRowsAreLeft /\ [Next]_vars
  => FoundRowsAreLeft'
  <1> SUFFICES ASSUME TypeOK, HandlerOrder, RowsAreMade, DownIsStill, FoundRowsAreLeft,
                      [Next]_vars, service' = "up", NEW x \in before.rows'
               PROVE  /\ at'[x[1]] = "over" /\ x[1] \notin jobs'
                      /\ x[1] \in before.alive' \/ ~Alive(x[1])'
    BY DEF FoundRowsAreLeft
  <1>1. CASE Up
    <2>1. service = "down" /\ x \in Rows /\ row[x] # "none" /\ UNCHANGED <<at, jobs, proc>>
          /\ before.alive' = {r \in Requests : Alive(r)}
      BY <1>1 DEF Up, handler, timers, process
    <2>2. x[1] \in Requests /\ x[2] \in Nat /\ x[2] # 0 BY <2>1, RowParts
    <2>3. x[2] <= made[x[1]] BY <2>1 DEF RowsAreMade
    <2>4. at[x[1]] = "over" BY <2>1, <2>2, <2>3 DEF DownIsStill, HandlerOrder
    <2>5. Alive(x[1])' = Alive(x[1]) BY <2>1 DEF Alive
    <2> QED BY <2>1, <2>2, <2>4, <2>5 DEF DownIsStill
  <1>2. CASE before' = before /\ service = "up"
    <2>1. x \in before.rows /\ x \in Rows BY <1>2 DEF TypeOK
    <2>2. x[1] \in Requests BY <2>1, RowParts
    <2>3. /\ at[x[1]] = "over" /\ x[1] \notin jobs
          /\ x[1] \in before.alive \/ ~Alive(x[1])
      BY <1>2, <2>1 DEF FoundRowsAreLeft
    <2>4. at'[x[1]] = "over" BY <2>2, <2>3, OverStays
    <2>5. x[1] \notin jobs' /\ (Alive(x[1])' => Alive(x[1])) BY <2>2, <2>3, JobChanges
    <2> QED BY <1>2, <2>3, <2>4, <2>5
  <1>3. Down => service' = "down" BY DEF Down
  <1> QED BY <1>1, <1>2, <1>3, StartChanges

\* A row a start found makes no progress, unless its process goes on.
LEMMA FoundRowStays ==
  ASSUME TypeOK, FoundRowsAreLeft, [Next]_vars, service = "up", NEW x \in before.rows,
         x[1] \notin before.alive
  PROVE  row'[x] = row[x] \/ row'[x] \in {"none", "FAILED"}
  <1>1. x \in Rows /\ x[1] \in Requests BY RowParts DEF TypeOK
  <1>2. at[x[1]] = "over" /\ ~Alive(x[1]) BY DEF FoundRowsAreLeft
  <1>3. CASE \E q \in Requests : InsertReplay(q)
    <2>1. PICK q \in Requests : InsertReplay(q) BY <1>3
    <2>2. at[q] = "create" BY <2>1 DEF InsertReplay
    <2>3. x # <<q, made[q] + 1>> BY <1>2, <2>2
    <2> QED BY <1>1, <2>1, <2>3 DEF InsertReplay, TypeOK
  <1>4. CASE \E y \in Rows : Say(y)
    <2>1. PICK y \in Rows : Say(y) BY <1>4
    <2>2. x # y BY <1>2, <2>1 DEF Say, Alive
    <2> QED BY <1>1, <2>1, <2>2 DEF Say, Write, TypeOK
  <1>5. CASE \E y \in Rows : Fail(y) \/ Delete(y) BY <1>1, <1>5 DEF Fail, Delete, Write, TypeOK
  <1>6. CASE MarkAbandoned BY <1>1, <1>6 DEF MarkAbandoned, Write, TypeOK
  <1>7. CASE UNCHANGED row BY <1>7
  <1> QED BY <1>3, <1>4, <1>5, <1>6, <1>7, RowChanges

\* MarkedAreRead is kept.
LEMMA MarkedAreReadKept ==
  TypeOK /\ FoundRowsAreLeft /\ MarkedAreRead /\ [Next]_vars => MarkedAreRead'
  <1> SUFFICES ASSUME TypeOK, FoundRowsAreLeft, MarkedAreRead, [Next]_vars,
                      service' = "up", marking' = "mark", NEW x \in before.rows',
                      row'[x] \in Unfinished, x[1] \notin before.alive'
               PROVE  x \in abandoned'
    BY DEF MarkedAreRead
  <1>1. ~Up /\ ~Down BY DEF Up, Down
  <1>2. before' = before /\ service = "up" BY <1>1, StartChanges
  <1>3. x \in before.rows /\ x \in Rows /\ x[1] \notin before.alive BY <1>2 DEF TypeOK
  <1>4. row[x] \in Unfinished BY <1>2, <1>3, FoundRowStays DEF Unfinished
  <1>5. CASE LookForAbandoned BY <1>3, <1>4, <1>5 DEF LookForAbandoned
  <1>6. CASE MarkAbandoned
    <2>1. marking = "mark" BY <1>6 DEF MarkAbandoned
    <2>2. x \in abandoned BY <1>2, <1>3, <1>4, <2>1 DEF MarkedAreRead
    <2>3. PICK y \in abandoned : abandoned' = abandoned \ {y} /\ Write(y, "FAILED")
      BY <1>6 DEF MarkAbandoned
    <2>4. x # y BY <1>3, <2>3 DEF Write, Unfinished, TypeOK
    <2> QED BY <2>2, <2>3, <2>4
  <1>7. CASE marking' = marking /\ abandoned' = abandoned
    BY <1>2, <1>3, <1>4, <1>7 DEF MarkedAreRead
  <1> QED BY <1>1, <1>5, <1>6, <1>7, StartChanges

\* AbandonedAreMarked is kept.
LEMMA AbandonedAreMarkedKept ==
  TypeOK /\ FoundRowsAreLeft /\ MarkedAreRead /\ AbandonedAreMarked /\ [Next]_vars
  => AbandonedAreMarked'
  <1> SUFFICES ASSUME TypeOK, FoundRowsAreLeft, MarkedAreRead, AbandonedAreMarked, [Next]_vars,
                      service' = "up", marking' = "over", NEW x \in before.rows',
                      x \notin missed'.rows, x[1] \notin before.alive'
               PROVE  row'[x] \in {"none", "SCHEDULED", "DONE", "FAILED"}
    BY DEF AbandonedAreMarked
  <1>1. ~Up /\ ~Down BY DEF Up, Down
  <1>2. before' = before /\ service = "up" BY <1>1, StartChanges
  <1>3. x \in before.rows /\ x \in Rows /\ x[1] \notin before.alive BY <1>2 DEF TypeOK
  <1>5. x \notin missed.rows BY <1>1, MissedGrows
  <1>4. row[x] \in {"none", "SCHEDULED", "DONE", "FAILED"}
    <2>1. CASE marking = "over" BY <1>2, <1>3, <1>5, <2>1 DEF AbandonedAreMarked
    <2>2. CASE MarkAbandoned
      <3>1. marking = "mark" BY <2>2 DEF MarkAbandoned
      <3>2. x \notin abandoned
        <4>1. abandoned = {} \/ MissRows(abandoned) BY <2>2, <3>1 DEF MarkAbandoned
        <4>2. abandoned \in SUBSET Rows BY DEF TypeOK
        <4> QED BY <4>1, <4>2, MissedTyped
      <3>3. row[x] \notin Unfinished BY <1>2, <1>3, <3>1, <3>2 DEF MarkedAreRead
      <3> QED BY <1>3, <3>3 DEF TypeOK, Status, Unfinished
    <2>3. CASE LookForAbandoned
      <3>1. MissRows({y \in Rows : row[y] \in Unfinished}) BY <2>3 DEF LookForAbandoned
      <3>2. row[x] \notin Unfinished BY <1>3, <3>1, MissedTyped
      <3> QED BY <1>3, <3>2 DEF TypeOK, Status, Unfinished
    <2> QED BY <1>1, <2>1, <2>2, <2>3, StartChanges
  <1> QED BY <1>2, <1>3, <1>4, FoundRowStays

\* CaptureScheduled is kept.
LEMMA CaptureScheduledKept == TypeOK /\ CaptureScheduled /\ [Next]_vars => CaptureScheduled'
  <1> SUFFICES ASSUME TypeOK, CaptureScheduled, [Next]_vars, NEW r \in Requests,
                      cap'[r] = "SCHEDULED"
               PROVE  scheduled(r)
    BY LoadStays DEF CaptureScheduled, scheduled
  <1> USE DEF rows
  <1>1. ASSUME NEW q \in Requests, Post(q) \/ Check(q) \/ InsertReplay(q) \/ Launch(q)
                                   \/ Reject(q) \/ \E i \in 1..MaxMimic : LateCheck(q, i)
        PROVE  cap' = cap
    BY <1>1 DEF Post, Check, InsertReplay, LateCheck, Launch, Reject
  <1>2. CASE \E q \in Requests : InsertCapture(q)
    BY <1>2 DEF InsertCapture, Initial, CaptureScheduled, TypeOK
  <1>3. ASSUME NEW q \in Requests, Due(q) \/ Fire(q) \/ Exit(q) \/ Die(q) PROVE cap' = cap
    BY <1>3 DEF Due, Fire, Exit, Die
  <1>4. CASE \E q \in Requests : FireCapture(q) \/ Begin(q)
    BY <1>4 DEF FireCapture, Begin, CaptureScheduled, TypeOK
  <1>5. ASSUME NEW x \in Rows, Say(x) \/ Fail(x) \/ Delete(x) PROVE cap' = cap
    BY <1>5 DEF Say, Fail, Delete
  <1>6. Down \/ Up \/ Reschedule \/ LookForPast \/ LookForAbandoned \/ MarkAbandoned => cap' = cap
    BY DEF Down, Up, Reschedule, LookForPast, LookForAbandoned, MarkAbandoned
  <1>7. CASE MarkFailed BY <1>7 DEF MarkFailed, CaptureScheduled, TypeOK
  <1>8. UNCHANGED vars => cap' = cap BY DEF vars
  <1>9. cap' = cap => scheduled(r) BY DEF CaptureScheduled
  <1> QED BY <1>1, <1>2, <1>3, <1>4, <1>5, <1>6, <1>7, <1>8, <1>9 DEF Next, Advance, Timers, Restart

\* LooksAtFound is kept by a step that leaves what it is about.
Looks == <<before, due, cap, capId, load, service, resched, passed, capJobs, missed.captures>>
LEMMA LooksStutter == LooksAtFound /\ UNCHANGED Looks => LooksAtFound'
  BY DEF LooksAtFound, Looks, Settled

\* LooksAtFound is kept by what a request and its process do.
LEMMA LooksRequestKept ==
  ASSUME TypeOK, LooksAtFound, NEW r \in Requests,
         Post(r) \/ Advance(r) \/ Timers(r) \/ Reject(r) \/ Begin(r) \/ Exit(r) \/ Die(r)
  PROVE  LooksAtFound'
  <1> USE DEF request, rows, timers, start, history
  <1>1. CASE \/ Post(r) \/ Check(r) \/ InsertReplay(r) \/ Launch(r) \/ Reject(r) \/ Fire(r)
             \/ Exit(r) \/ Die(r) \/ \E i \in 1..MaxMimic : LateCheck(r, i)
    <2>1. UNCHANGED Looks
      BY <1>1 DEF Looks, Post, Check, InsertReplay, LateCheck, Launch, Reject, Fire, Exit, Die
    <2> QED BY <2>1, LooksStutter
  <1>2. CASE InsertCapture(r)
    <2>1. cap[r] = "none" /\ cap'[r] # "none" BY <1>2 DEF InsertCapture, Initial, TypeOK
    <2>2. r \notin before.captures BY <2>1 DEF LooksAtFound
    <2>3. \A q \in Requests : q # r => cap'[q] = cap[q] /\ capId'[q] = capId[q]
      BY <1>2 DEF InsertCapture, TypeOK
    <2>4. before.captures \subseteq Requests BY DEF TypeOK
    <2>5. UNCHANGED <<before, due, load, service, resched, passed, capJobs, missed>>
      BY <1>2 DEF InsertCapture
    <2>6. \A q \in before.captures : cap'[q] = cap[q] /\ capId'[q] = capId[q]
      BY <2>2, <2>3, <2>4
    <2> QED BY <2>5, <2>6 DEF LooksAtFound, Settled
  <1>3. CASE Due(r) BY <1>3 DEF Due, LooksAtFound, Settled
  <1>4. CASE FireCapture(r) \/ Begin(r)
    <2>1. \A q \in Requests : /\ cap[q] # "none" => cap'[q] # "none"
                              /\ cap'[q] = "SCHEDULED" => cap[q] = "SCHEDULED" /\ capJobs'[q] = capJobs[q]
      BY <1>4 DEF FireCapture, Begin, TypeOK
    <2>2. before.captures \subseteq Requests BY DEF TypeOK
    <2>3. UNCHANGED <<before, due, load, capId, service, resched, passed, missed>>
      BY <1>4 DEF FireCapture, Begin
    <2> QED BY <2>1, <2>2, <2>3 DEF LooksAtFound, Settled
  <1> QED BY <1>1, <1>2, <1>3, <1>4 DEF Advance, Timers

\* LooksAtFound is kept by the start of the service.
LEMMA LooksStartKept ==
  ASSUME TypeOK, CaptureScheduled, LooksAtFound, Down \/ Up \/ Restart
  PROVE  LooksAtFound'
  <1> USE DEF request, rows, timers, start, history
  <1>0. before.captures \subseteq Requests BY DEF TypeOK
  <1>7. Restart => missed.captures \subseteq missed'.captures
    BY MissedGrows DEF Restart, Next, Up, Reschedule, LookForPast, MarkFailed, LookForAbandoned,
                       MarkAbandoned
  <1>1. CASE Down BY <1>1 DEF Down, LooksAtFound
  <1>2. CASE Up BY <1>2 DEF Up, LooksAtFound
  <1>3. CASE Reschedule
    <2>1. /\ resched = "future" /\ resched' = "past"
          /\ UNCHANGED <<before, due, load, cap, capId, service, passed>>
      BY <1>3 DEF Reschedule
    <2>2. ASSUME service = "up", NEW r \in before.captures, capId[r] = load[r].by,
                 cap[r] = "SCHEDULED", r \notin before.due
          PROVE  capJobs'[r] > 0 \/ r \in due \ before.due \/ r \in missed'.captures
      <3>1. passed = before.due BY <2>1, <2>2 DEF LooksAtFound
      <3>2. r \in Requests /\ r \in Found BY <1>0, <2>2 DEF Found, CaptureScheduled
      <3>3. CASE r \in due BY <2>2, <3>3
      <3>4. CASE r \notin due
        <4>0. r \in Future BY <2>2, <3>1, <3>2, <3>4 DEF Future
        <4>5. CASE MissCaptures(Future)
          <5>1. Future \in SUBSET Requests BY DEF Future, Found
          <5> QED BY <4>0, <4>5, <5>1, MissedTyped
        <4>6. CASE ~MissCaptures(Future)
          <5>1. capJobs'[r] = capJobs[r] + Cardinality(Users)
            BY <1>3, <3>2, <4>0, <4>6 DEF Reschedule
          <5>2. Users # {} BY <3>2, LoadFacts
          <5>3. Cardinality(Users) \in Nat /\ Cardinality(Users) # 0
            BY <5>2, ServiceAssumption, FS_CardinalityType, FS_EmptySet
          <5>4. capJobs[r] \in Nat BY <3>2 DEF TypeOK
          <5> QED BY <5>1, <5>3, <5>4
        <4> QED BY <4>5, <4>6
      <3> QED BY <3>3, <3>4
    <2> QED BY <2>1, <2>2 DEF LooksAtFound, Settled
  <1>4. CASE LookForPast
    <2>0. missed.captures \subseteq missed'.captures BY <1>4, <1>7 DEF Restart
    <2>1. resched = "past" /\ UNCHANGED <<before, due, load, cap, capId, service, capJobs>>
      BY <1>4 DEF LookForPast
    <2>2. \A r \in before.captures : capId[r] = load[r].by /\ cap[r] = "SCHEDULED" => r \in Found
      BY <1>0 DEF Found, CaptureScheduled
    <2>3. CASE resched' = "mark" /\ passed' = Past
      BY <2>0, <2>1, <2>2, <2>3 DEF LooksAtFound, Settled, Past
    <2>4. CASE resched' = "over" /\ MissCaptures(Past)
      <3>1. Past \in SUBSET Requests BY DEF Past, Found
      <3>2. Past \subseteq missed'.captures BY <2>4, <3>1, MissedTyped
      <3> QED BY <2>0, <2>1, <2>2, <2>4, <3>2 DEF LooksAtFound, Settled, Past
    <2> QED BY <1>4, <2>3, <2>4 DEF LookForPast
  <1>5. CASE MarkFailed
    <2>0. missed.captures \subseteq missed'.captures BY <1>5, <1>7 DEF Restart
    <2>1. /\ resched = "mark" /\ resched' \in {"mark", "over"}
          /\ UNCHANGED <<before, due, load, capId, service, capJobs>>
      BY <1>5 DEF MarkFailed
    <2>2. CASE passed = {} /\ UNCHANGED cap
      BY <2>0, <2>1, <2>2 DEF LooksAtFound, Settled
    <2>3. CASE \E q \in passed : passed' = passed \ {q} /\ cap' = [cap EXCEPT ![q] = "FAILED"]
                                 /\ resched' = resched
      <3>1. PICK q \in passed : passed' = passed \ {q} /\ cap' = [cap EXCEPT ![q] = "FAILED"]
                                /\ resched' = resched
        BY <2>3
      <3>2. q \in Requests /\ cap'[q] = "FAILED" /\ \A r \in Requests : r # q => cap'[r] = cap[r]
        BY <3>1 DEF TypeOK
      <3> QED BY <1>0, <2>0, <2>1, <3>1, <3>2 DEF LooksAtFound, Settled
    <2>4. CASE resched' = "over" /\ MissCaptures(passed) /\ UNCHANGED cap
      <3>1. passed \in SUBSET Requests BY DEF TypeOK
      <3>2. passed \subseteq missed'.captures BY <2>4, <3>1, MissedTyped
      <3> QED BY <2>0, <2>1, <2>4, <3>2 DEF LooksAtFound, Settled
    <2> QED BY <1>5, <2>2, <2>3, <2>4 DEF MarkFailed
  <1>6. CASE LookForAbandoned \/ MarkAbandoned
    <2>1. UNCHANGED <<before, due, cap, capId, load, service, resched, passed, capJobs>>
      BY <1>6 DEF LookForAbandoned, MarkAbandoned
    <2>2. missed'.captures = missed.captures
      <3>1. abandoned \in SUBSET Rows /\ {x \in Rows : row[x] \in Unfinished} \in SUBSET Rows
        BY DEF TypeOK
      <3>2. \/ missed' = missed \/ MissRows(abandoned)
            \/ MissRows({x \in Rows : row[x] \in Unfinished})
        BY <1>6 DEF LookForAbandoned, MarkAbandoned
      <3> QED BY <3>1, <3>2, MissedTyped
    <2>3. UNCHANGED Looks BY <2>1, <2>2 DEF Looks
    <2> QED BY <2>3, LooksStutter
  <1> QED BY <1>1, <1>2, <1>3, <1>4, <1>5, <1>6 DEF Restart

\* LooksAtFound is kept.
LEMMA LooksAtFoundKept == TypeOK /\ CaptureScheduled /\ LooksAtFound /\ [Next]_vars => LooksAtFound'
  <1> SUFFICES ASSUME TypeOK, CaptureScheduled, LooksAtFound, [Next]_vars PROVE LooksAtFound'
    OBVIOUS
  <1>1. ASSUME NEW x \in Rows, Say(x) \/ Fail(x) \/ Delete(x) PROVE UNCHANGED Looks
    BY <1>1 DEF Looks, Say, Fail, Delete, request, rows, timers, start, history
  <1>2. UNCHANGED vars => UNCHANGED Looks
    BY DEF vars, Looks, request, rows, timers, start, history
  <1> QED BY <1>1, <1>2, LooksStutter, LooksRequestKept, LooksStartKept DEF Next

-----------------------------------------------------------------------------
(* The theorems                                                             *)

\* IInv holds at the start.
LEMMA InitInductive == Init => IInv
  <1> SUFFICES ASSUME Init PROVE IInv
    OBVIOUS
  <1>1. TypeOK BY InitTyped
  <1>2. \A r \in Requests : at[r] = "idle" /\ made[r] = 0 /\ cap[r] = "none" /\ Len(dbs(r)) \in Nat
    BY <1>1, LoadFacts DEF Init
  <1>3. \A x \in Rows : row[x] = "none" BY DEF Init
  <1>4. before.rows = {} /\ before.captures = {} /\ before.due = {} /\ service = "up"
        /\ resched = "over" /\ marking = "over"
    BY DEF Init
  <1>5. HandlerOrder /\ RowsAreMade /\ EndedHasSaid /\ ComingKnows /\ TwoOnOneDatabase
    <2>1. HandlerOrder BY <1>2 DEF HandlerOrder
    <2>2. RowsAreMade /\ EndedHasSaid BY <1>3 DEF RowsAreMade, EndedHasSaid
    <2>3. ComingKnows BY <1>2 DEF ComingKnows
    <2>4. TwoOnOneDatabase BY <1>3 DEF TwoOnOneDatabase
    <2> QED BY <2>1, <2>2, <2>3, <2>4
  <1>6. DownIsStill /\ FoundRowsAreLeft /\ MarkedAreRead /\ AbandonedAreMarked /\ CaptureScheduled
        /\ LooksAtFound
    BY <1>2, <1>4 DEF DownIsStill, FoundRowsAreLeft, MarkedAreRead, AbandonedAreMarked,
                      CaptureScheduled, LooksAtFound
  <1> QED BY <1>1, <1>5, <1>6 DEF IInv

\* IInv is kept.
LEMMA NextInductive == IInv /\ [Next]_vars => IInv'
  BY NextTyped, HandlerOrderKept, RowsAreMadeKept, EndedHasSaidKept, ComingKnowsKept, TwoOnOneKept,
     DownIsStillKept, FoundRowsAreLeftKept, MarkedAreReadKept, AbandonedAreMarkedKept,
     CaptureScheduledKept, LooksAtFoundKept
  DEF IInv

\* IInv holds in every state.
THEOREM Inductive == Spec => []IInv
  BY InitInductive, NextInductive, PTL DEF Spec

\* Two replays hold one database only if neither could see the other when it was
\* let in, or one was written off by a restart and goes on: of any number of
\* requests, whatever stops and fails.
THEOREM OneOnOneDatabase == Spec => []TwoOnOneDatabase
  <1>1. IInv => TwoOnOneDatabase BY DEF IInv
  <1> QED BY Inductive, <1>1, PTL

\* When a start of the service is through, no row it found is in progress but by
\* a process that goes on, and each scheduled capture it looks at has a job, has
\* come due meanwhile, or is not scheduled any more.
THEOREM StartSettles == Spec => []RestartSettles
  <1>1. IInv => RestartSettles
    BY DEF IInv, RestartSettles, LooksAtFound, FoundAreResolved, Resolved, Settled
  <1> QED BY Inductive, <1>1, PTL
================================================================================
