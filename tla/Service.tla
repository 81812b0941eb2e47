-------------------------------- MODULE Service --------------------------------
(***************************************************************************)
(* The service as it admits, launches, deletes and, after a restart, sorts  *)
(* out captures, replays and mimics. A request is a row of the awaits of    *)
(* its handler; the queries of different requests run in any order. What a  *)
(* launched process does is in Capture, Replay and Mimic: here it checks    *)
(* its row, writes its statuses in order, and may die at any time.          *)
(*                                                                         *)
(* A replay has a row <<r, 1>>; a mimic r has a capture and a row <<r, i>>  *)
(* for each of its databases; a capture has no replay row.                  *)
(***************************************************************************)
EXTENDS Naturals, Sequences, FiniteSets

CONSTANTS Requests,    \* POST /captures, /replays and /captures/mimic
          Loads,       \* what they ask for: of each its kind, its databases, by whom, when
          Databases,   \* the databases replays run on
          Users,       \* the users' ids
          MaxMimic,    \* replays of a mimic
          MaxFaults    \* stops of the service, failed queries, dead processes, DELETEs

ASSUME ServiceAssumption ==
  /\ \A l \in Loads, r \in Requests :
       /\ l[r].kind \in {"capture", "replay", "mimic"}
       /\ l[r].by \in Users /\ l[r].when \in {"now", "later", "past"}
       /\ l[r].dbs \in Seq(Databases) /\ Len(l[r].dbs) <= MaxMimic
       /\ l[r].kind = "capture" => l[r].dbs = <<>>
       /\ l[r].kind = "replay" => Len(l[r].dbs) = 1
  /\ Users \subseteq Nat \ {0} /\ IsFiniteSet(Users) /\ IsFiniteSet(Requests)
  /\ {MaxMimic, MaxFaults} \subseteq Nat

VARIABLES
  load,      \* what the requests ask for
  due,       \* the requests whose scheduledStart has passed
  at,        \* where the handler is
  made,      \* how many replay rows it has inserted
  pending,   \* noMimicReplaysOnSameDb: the checks not answered yet
  answer,    \* the response, written once
  row,       \* Replay.status, "none" without a row
  cap,       \* Capture.status of a capture or a mimic
  capId,     \* Capture.id, counted up by the database
  jobs,      \* node-schedule: the jobs that launch r itself
  capJobs,   \* how many jobs of doReschedule launch r as a capture
  proc,      \* the process launched for r
  said,      \* how many statuses the process has written of each row
  service,   \* "up" or "down"
  resched,   \* where rescheduleCaptures is
  passed,    \* its pastScheduled, and what was due at its now
  marking,   \* where markAbandonedReplaysAsFailed is
  abandoned, \* the rows it has still to mark
  faults,    \* how many of MaxFaults there were
  blind,     \* history: the pairs that were admitted without seeing each other
  before,    \* history: what there was when the service started
  writtenOff, \* history: the rows markAbandonedReplaysAsFailed has marked
  missed     \* history: what this start has left because a query failed

request == <<load, due>>
handler == <<at, made, pending, answer>>
rows    == <<row, cap, capId>>
timers  == <<jobs, capJobs>>
process == <<proc, said>>
start   == <<service, resched, passed, marking, abandoned>>
history == <<blind, before, writtenOff, missed>>
vars    == <<request, handler, rows, timers, process, start, faults, history>>

Rows     == Requests \X (1..MaxMimic)
Status   == {"SCHEDULED", "STARTED", "STARTING", "RUNNING", "STOPPING", "DONE", "FAILED"}
Progress == <<"STARTING", "RUNNING", "STOPPING", "DONE">>

TypeOK ==
  /\ load \in Loads /\ due \subseteq Requests
  /\ at \in [Requests -> {"idle", "check", "create", "launch", "over"}]
  /\ made \in [Requests -> 0..MaxMimic]
  /\ pending \in [Requests -> SUBSET (1..MaxMimic)]
  /\ answer \in [Requests -> {"none", "created", "refused", "error"}]
  /\ row \in [Rows -> Status \cup {"none"}]
  /\ cap \in [Requests -> {"none", "SCHEDULED", "STARTED", "STARTING", "FAILED"}]
  /\ capId \in [Requests -> Nat]
  /\ jobs \subseteq Requests /\ capJobs \in [Requests -> Nat]
  /\ proc \in [Requests -> {"none", "launched", "working", "capture", "gone"}]
  /\ said \in [Rows -> 0..Len(Progress)]
  /\ service \in {"up", "down"}
  /\ resched \in {"future", "past", "mark", "over"}
  /\ passed \subseteq Requests
  /\ marking \in {"read", "mark", "over"} /\ abandoned \subseteq Rows
  /\ faults \in 0..MaxFaults
  /\ blind \subseteq SUBSET Requests
  /\ writtenOff \subseteq Rows
  /\ before \in [alive : SUBSET Requests, rows : SUBSET Rows,
                  captures : SUBSET Requests, due : SUBSET Requests]
  /\ missed \in [captures : SUBSET Requests, rows : SUBSET Rows]

Init ==
  /\ load \in Loads /\ due = {r \in Requests : load[r].when = "past"}
  /\ at = [r \in Requests |-> "idle"] /\ made = [r \in Requests |-> 0]
  /\ pending = [r \in Requests |-> {}] /\ answer = [r \in Requests |-> "none"]
  /\ row = [x \in Rows |-> "none"] /\ cap = [r \in Requests |-> "none"]
  /\ capId = [r \in Requests |-> 0]
  /\ jobs = {} /\ capJobs = [r \in Requests |-> 0]
  /\ proc = [r \in Requests |-> "none"] /\ said = [x \in Rows |-> 0]
  /\ service = "up" /\ resched = "over" /\ passed = {} /\ marking = "over" /\ abandoned = {}
  /\ faults = 0
  /\ blind = {} /\ writtenOff = {} /\ before = [alive |-> {}, rows |-> {}, captures |-> {}, due |-> {}]
  /\ missed = [captures |-> {}, rows |-> {}]

kind(r)   == load[r].kind
dbs(r)    == load[r].dbs
scheduled(r) == load[r].when # "now"
Target(x) == dbs(x[1])[x[2]]
Alive(r)  == proc[r] \in {"launched", "working"}

\* Mutant: a scheduled replay does not hold its database.
OccupyingStarted == {"STARTED", "STARTING", "RUNNING", "STOPPING"}

\* ReplayDao.anyReplaysCurrentlyOnDb: the statuses it counts.
Occupying == {"SCHEDULED", "STARTED", "STARTING", "RUNNING", "STOPPING"}
On(db)    == {x \in Rows : row[x] \in Occupying /\ Target(x) = db}

\* Mutant: a replay that is stopping is taken for over.
UnfinishedUntilStopping == {"STARTED", "STARTING", "RUNNING"}

\* ReplayDao.getAbandonedReplays: the statuses it looks for.
Unfinished == {"STARTED", "STARTING", "RUNNING", "STOPPING"}

(***************************************************************************)
(* Requests                                                                *)
(***************************************************************************)

\* Admitted for a database, its row not inserted yet.
Coming(db) ==
  {q \in Requests : at[q] = "create" /\ \E i \in (made[q] + 1)..Len(dbs(q)) : dbs(q)[i] = db}

\* r goes ahead on db: whoever is there or is coming does not know of it.
Meets(r, db) == {{r, q} : q \in (Coming(db) \cup {x[1] : x \in On(db)}) \ {r}}

\* A request arrives. Nothing asks whether its scheduledStart is in the
\* future. noMimicReplaysOnSameDb refuses a mimic with a database twice, starts
\* the checks of the others in any case, and goes on without waiting for them.
Post(r) ==
  LET twice == \E i, j \in DOMAIN dbs(r) : i # j /\ dbs(r)[i] = dbs(r)[j]
  IN /\ service = "up" /\ at[r] = "idle"
     /\ at' = [at EXCEPT ![r] = IF kind(r) = "replay" THEN "check" ELSE IF twice THEN "over" ELSE "create"]
     /\ pending' = [pending EXCEPT ![r] = IF kind(r) = "mimic" THEN DOMAIN dbs(r) ELSE {}]
     /\ answer' = [answer EXCEPT ![r] = IF twice THEN "refused" ELSE @]
     /\ UNCHANGED <<request, made, rows, timers, process, start, faults, history>>

\* noReplaysOnTargetDb: the rows decide, and the handler goes on some awaits later.
Check(r) ==
  /\ at[r] = "check"
  /\ LET db == dbs(r)[1] IN
       IF On(db) # {}
       THEN /\ at' = [at EXCEPT ![r] = "over"]
            /\ answer' = [answer EXCEPT ![r] = "refused"]
            /\ UNCHANGED blind
       ELSE /\ at' = [at EXCEPT ![r] = "create"]
            /\ blind' = blind \cup Meets(r, db)
            /\ UNCHANGED answer
  /\ UNCHANGED <<request, made, pending, rows, timers, process, start, faults, before, writtenOff,
                 missed>>

\* A check of noMimicReplaysOnSameDb answers: it can only be the first to respond.
LateCheck(r, i) ==
  /\ i \in pending[r]
  /\ pending' = [pending EXCEPT ![r] = @ \ {i}]
  /\ answer' = [answer EXCEPT ![r] = IF @ = "none" /\ On(dbs(r)[i]) # {} THEN "refused" ELSE @]
  /\ UNCHANGED <<request, at, made, rows, timers, process, start, faults, history>>

\* Mutant: one that is launched at once is inserted as RUNNING.
InitialRunning(r) == IF scheduled(r) THEN "SCHEDULED" ELSE "RUNNING"

Initial(r) == IF scheduled(r) THEN "SCHEDULED" ELSE "STARTED"

\* CaptureDao.makeCapture, for a capture or a mimic.
InsertCapture(r) ==
  /\ at[r] = "create" /\ kind(r) # "replay" /\ cap[r] = "none"
  /\ cap' = [cap EXCEPT ![r] = Initial(r)]
  /\ capId' = [capId EXCEPT ![r] = 1 + Cardinality({q \in Requests : capId[q] # 0})]
  /\ at' = [at EXCEPT ![r] = IF dbs(r) = <<>> THEN "launch" ELSE @]
  /\ UNCHANGED <<request, made, pending, answer, row, timers, process, start, faults, history>>

\* makeDbReference and ReplayDao.makeReplay, for a replay or the next one of a mimic.
InsertReplay(r) ==
  LET x == <<r, made[r] + 1>>
  IN /\ at[r] = "create" /\ made[r] < Len(dbs(r)) /\ (kind(r) = "mimic" => cap[r] # "none")
     /\ row' = [row EXCEPT ![x] = Initial(r)]
     /\ made' = [made EXCEPT ![r] = @ + 1]
     /\ at' = [at EXCEPT ![r] = IF made[r] + 1 = Len(dbs(r)) THEN "launch" ELSE @]
     /\ blind' = IF kind(r) = "mimic" THEN blind \cup Meets(r, Target(x)) ELSE blind
     /\ UNCHANGED <<request, pending, answer, cap, capId, timers, process, start, faults,
                    before, writtenOff, missed>>

\* Mutant: the handler leaves the scheduled ones to a later reschedule.
LaunchNow(r) ==
  /\ at[r] = "launch"
  /\ at' = [at EXCEPT ![r] = "over"]
  /\ answer' = [answer EXCEPT ![r] = IF @ = "none" THEN "created" ELSE @]
  /\ proc' = [proc EXCEPT ![r] = IF scheduled(r) THEN @ ELSE "launched"]
  /\ UNCHANGED <<request, made, pending, rows, timers, said, start, faults, history>>

\* Respond, and launch at once or schedule the job. A job for a time that has
\* passed is never run. A handler whose response is out has done it all before
\* it throws.
Launch(r) ==
  /\ at[r] = "launch"
  /\ at' = [at EXCEPT ![r] = "over"]
  /\ answer' = [answer EXCEPT ![r] = IF @ = "none" THEN "created" ELSE @]
  /\ jobs' = IF scheduled(r) /\ r \notin due THEN jobs \cup {r} ELSE jobs
  /\ proc' = [proc EXCEPT ![r] = IF scheduled(r) THEN @ ELSE "launched"]
  /\ UNCHANGED <<request, made, pending, rows, capJobs, said, start, faults, history>>

\* A query of the handler fails: the rows inserted so far stay. The check of a
\* replay has no handler for errors, so its request is never answered.
Reject(r) ==
  /\ at[r] \in {"check", "create", "launch"} /\ faults < MaxFaults
  /\ faults' = faults + 1
  /\ at' = [at EXCEPT ![r] = "over"]
  /\ answer' = [answer EXCEPT ![r] = IF @ = "none" /\ at[r] # "check" THEN "error" ELSE @]
  /\ UNCHANGED <<request, made, pending, rows, timers, process, start, history>>

\* DELETE /replays/:id removes the row; the process is not told.
Delete(x) ==
  /\ service = "up" /\ row[x] # "none" /\ faults < MaxFaults
  /\ faults' = faults + 1
  /\ row' = [row EXCEPT ![x] = "none"]
  /\ UNCHANGED <<request, handler, cap, capId, timers, process, start, history>>

(***************************************************************************)
(* Time and processes                                                      *)
(***************************************************************************)

Due(r) ==
  /\ scheduled(r) /\ r \notin due
  /\ due' = due \cup {r}
  /\ UNCHANGED <<load, handler, rows, timers, process, start, faults, history>>

\* The job of the handler: it launches what was asked for.
Fire(r) ==
  /\ r \in jobs \cap due
  /\ jobs' = jobs \ {r}
  /\ proc' = [proc EXCEPT ![r] = IF @ = "none" THEN "launched" ELSE @]
  /\ UNCHANGED <<request, handler, rows, capJobs, said, start, faults, history>>

\* A job of doReschedule launches a capture, also where it was a mimic. There is
\* a job for each user, all due at once: a second process that validCapture lets
\* pass before the first has written STARTING is left out.
FireCapture(r) ==
  /\ capJobs[r] > 0 /\ r \in due
  /\ capJobs' = [capJobs EXCEPT ![r] = @ - 1]
  /\ proc' = [proc EXCEPT ![r] = IF @ = "none" /\ cap[r] = "SCHEDULED" THEN "capture" ELSE @]
  /\ cap' = [cap EXCEPT ![r] = IF @ \in {"SCHEDULED", "STARTED"} THEN "STARTING" ELSE @]
  /\ UNCHANGED <<request, handler, row, capId, jobs, said, start, faults, history>>

\* validReplay, validCapture and validMimic: every row is STARTED or SCHEDULED.
Begin(r) ==
  LET valid == /\ cap[r] \in {"none", "STARTED", "SCHEDULED"}
               /\ \A i \in DOMAIN dbs(r) : row[<<r, i>>] \in {"STARTED", "SCHEDULED"}
  IN /\ proc[r] = "launched"
     /\ proc' = [proc EXCEPT ![r] = IF valid THEN "working" ELSE "gone"]
     /\ cap' = [cap EXCEPT ![r] = IF valid /\ @ # "none" THEN "STARTING" ELSE @]
     /\ UNCHANGED <<request, handler, row, capId, timers, said, start, faults, history>>

\* updateReplayStatus asks nothing of the row, and does nothing without one.
Write(x, status) == row' = [row EXCEPT ![x] = IF @ = "none" THEN @ ELSE status]

Say(x) ==
  /\ proc[x[1]] = "working" /\ x[2] \in DOMAIN dbs(x[1]) /\ said[x] < Len(Progress)
  /\ said' = [said EXCEPT ![x] = @ + 1]
  /\ Write(x, Progress[said[x] + 1])
  /\ UNCHANGED <<request, handler, cap, capId, timers, proc, start, faults, history>>

Fail(x) ==
  /\ proc[x[1]] = "working" /\ x[2] \in DOMAIN dbs(x[1]) /\ said[x] < Len(Progress)
  /\ faults < MaxFaults
  /\ faults' = faults + 1
  /\ said' = [said EXCEPT ![x] = Len(Progress)]
  /\ Write(x, "FAILED")
  /\ UNCHANGED <<request, handler, cap, capId, timers, proc, start, history>>

Exit(r) ==
  /\ proc[r] = "working" /\ \A i \in DOMAIN dbs(r) : said[<<r, i>>] = Len(Progress)
  /\ proc' = [proc EXCEPT ![r] = "gone"]
  /\ UNCHANGED <<request, handler, rows, timers, said, start, faults, history>>

\* It could not be spawned, was killed, or threw: nothing is written.
Die(r) ==
  /\ Alive(r) /\ faults < MaxFaults
  /\ faults' = faults + 1
  /\ proc' = [proc EXCEPT ![r] = "gone"]
  /\ UNCHANGED <<request, handler, rows, timers, said, start, history>>

(***************************************************************************)
(* Stop and start of the service                                           *)
(***************************************************************************)

\* The processes may go down with it, or live on.
Down ==
  /\ \E dead \in SUBSET {r \in Requests : Alive(r)} :
       proc' = [r \in Requests |-> IF r \in dead THEN "gone" ELSE proc[r]]
  /\ service = "up" /\ faults < MaxFaults
  /\ faults' = faults + 1 /\ service' = "down"
  /\ at' = [r \in Requests |-> IF at[r] = "idle" THEN "idle" ELSE "over"]
  /\ pending' = [r \in Requests |-> {}]
  /\ jobs' = {} /\ capJobs' = [r \in Requests |-> 0]
  /\ resched' = "over" /\ marking' = "over" /\ passed' = {} /\ abandoned' = {}
  /\ UNCHANGED <<request, made, answer, rows, said, history>>

\* launch awaits neither rescheduleCaptures nor markAbandonedReplaysAsFailed
\* before it listens.
Up ==
  /\ service = "down" /\ service' = "up"
  /\ resched' = "future" /\ passed' = due
  /\ marking' = "read" /\ abandoned' = {}
  /\ before' = [alive |-> {r \in Requests : Alive(r)}, rows |-> {x \in Rows : row[x] # "none"},
                 captures |-> {r \in Requests : cap[r] # "none"}, due |-> due]
  /\ missed' = [captures |-> {}, rows |-> {}]
  /\ UNCHANGED <<request, handler, rows, timers, process, faults, blind, writtenOff>>

\* getScheduledCaptures: the join asks that the owner's id is the capture's, and
\* says nothing of the user, so a capture comes once for every user.
Found  == {r \in Requests : cap[r] = "SCHEDULED" /\ scheduled(r) /\ load[r].by = capId[r]}
Future == Found \ (passed \cup due)
Past   == passed \cap Found

\* This start leaves these captures, or these rows, as they are.
MissCaptures(some) == missed' = [missed EXCEPT !.captures = @ \cup some]
MissRows(some)     == missed' = [missed EXCEPT !.rows = @ \cup some]

\* A job for each capture found. getScheduledCaptures catches what fails and
\* answers null: none is scheduled, and the past ones are looked for all the same.
Reschedule ==
  /\ resched = "future" /\ resched' = "past"
  /\ \/ /\ capJobs' = [r \in Requests |-> IF r \in Future THEN capJobs[r] + Cardinality(Users)
                                                          ELSE capJobs[r]]
        /\ UNCHANGED missed
     \/ MissCaptures(Future) /\ UNCHANGED capJobs
  /\ UNCHANGED <<request, handler, rows, jobs, process, service, passed, marking, abandoned,
                 faults, blind, before, writtenOff>>

\* Mutant: the second query asks for the future again.
LookForFuture ==
  /\ resched = "past" /\ resched' = "mark"
  /\ passed' = Found \ due
  /\ UNCHANGED <<request, handler, rows, timers, process, service, marking, abandoned, faults, history>>

\* The past ones are to be marked; a null answer is logged, and that is all.
LookForPast ==
  /\ resched = "past"
  /\ \/ resched' = "mark" /\ passed' = Past /\ UNCHANGED missed
     \/ resched' = "over" /\ passed' = {} /\ MissCaptures(Past)
  /\ UNCHANGED <<request, handler, rows, timers, process, service, marking, abandoned, faults,
                 blind, before, writtenOff>>

\* markFailed, one after the other. An update that fails is caught by nobody: it
\* rejects rescheduleCaptures, and the captures after it are not marked either.
MarkFailed ==
  /\ resched = "mark"
  /\ \/ passed = {} /\ resched' = "over" /\ UNCHANGED <<passed, cap, missed>>
     \/ \E r \in passed : /\ passed' = passed \ {r}
                          /\ cap' = [cap EXCEPT ![r] = "FAILED"]
                          /\ UNCHANGED <<resched, missed>>
     \/ /\ passed # {} /\ resched' = "over" /\ passed' = {}
        /\ MissCaptures(passed) /\ UNCHANGED cap
  /\ UNCHANGED <<request, handler, row, capId, timers, process, service, marking, abandoned,
                 faults, blind, before, writtenOff>>

\* getAbandonedReplays, which answers null when its query fails.
LookForAbandoned ==
  LET found == {x \in Rows : row[x] \in Unfinished}
  IN /\ marking = "read"
     /\ \/ marking' = "mark" /\ abandoned' = found /\ UNCHANGED missed
        \/ marking' = "over" /\ abandoned' = {} /\ MissRows(found)
     /\ UNCHANGED <<request, handler, rows, timers, process, service, resched, passed, faults,
                    blind, before, writtenOff>>

\* One row after the other; an update that fails leaves it and the ones after it.
MarkAbandoned ==
  /\ marking = "mark"
  /\ \/ abandoned = {} /\ marking' = "over" /\ UNCHANGED <<abandoned, row, writtenOff, missed>>
     \/ \E x \in abandoned : /\ abandoned' = abandoned \ {x}
                             /\ Write(x, "FAILED")
                             /\ writtenOff' = writtenOff \cup {x}
                             /\ UNCHANGED <<marking, missed>>
     \/ /\ abandoned # {} /\ marking' = "over" /\ abandoned' = {}
        /\ MissRows(abandoned) /\ UNCHANGED <<row, writtenOff>>
  /\ UNCHANGED <<request, handler, cap, capId, timers, process, service, resched, passed,
                 faults, blind, before>>

\* What the handlers, the timers and the start of the service go on with.
Advance(r) ==
  Check(r) \/ InsertCapture(r) \/ InsertReplay(r) \/ Launch(r)
  \/ (\E i \in 1..MaxMimic : LateCheck(r, i))

Timers(r) == Due(r) \/ Fire(r) \/ FireCapture(r)
Restart   == Reschedule \/ LookForPast \/ MarkFailed \/ LookForAbandoned \/ MarkAbandoned

Next ==
  \/ \E r \in Requests : Post(r) \/ Advance(r) \/ Timers(r) \/ Reject(r) \/ Begin(r) \/ Exit(r) \/ Die(r)
  \/ \E x \in Rows : Say(x) \/ Fail(x) \/ Delete(x)
  \/ Down \/ Up \/ Restart

Spec == Init /\ [][Next]_vars

\* Queries answer and timers run. Nobody has to post, and a process owes nothing.
FairSpec == Spec /\ WF_vars(Restart \/ \E r \in Requests : Advance(r) \/ Timers(r))

(***************************************************************************)
(* Properties                                                              *)
(***************************************************************************)

\* Two replays hold one database only if neither could see the other when it
\* was let in (the check and the insertion are awaits apart, and a mimic goes
\* ahead of its checks), or the process of one goes on although a restart wrote
\* its row off. Two replays of one mimic never do.
TwoOnOneDatabase ==
  \A x, y \in Rows :
    /\ x # y /\ {row[x], row[y]} \cap {"none", "DONE", "FAILED"} = {} /\ Target(x) = Target(y)
    => {x[1], y[1]} \in blind \/ (x[1] # y[1] /\ {x, y} \cap writtenOff # {})

\* When the start of the service is through with the abandoned replays, none of
\* the rows it found is left in progress, except by a process that goes on, or
\* because the query or the update for it, or for one before it, failed.
AbandonedAreMarked ==
  marking = "over" /\ service = "up" =>
    \A x \in before.rows \ missed.rows :
      row[x] \in {"none", "SCHEDULED", "DONE", "FAILED"} \/ x[1] \in before.alive

\* What the restart owes a capture it found SCHEDULED: a job when its time was
\* still to come, FAILED when it had passed. One that comes due while the rows
\* are being read gets a job that never runs.
Resolved(r) == cap[r] = "SCHEDULED" => capJobs[r] > 0 \/ r \in due \ before.due

\* A restart resolves the captures whose owner has the id of the capture, the
\* ones getScheduledCaptures finds, if its queries answer.
FoundAreResolved ==
  resched = "over" /\ service = "up" =>
    \A r \in before.captures \ missed.captures : capId[r] = load[r].by => Resolved(r)

\* A start of the service settles what it finds: abandoned replays are marked and
\* the scheduled captures that it looks at have a job, or have failed. It leaves
\* but what a failed query was to return and a failed update was still to mark:
\* none of the captures when a query of replays fails, none of those to come when
\* the query of the past ones fails, and the other way round.
RestartSettles == AbandonedAreMarked /\ FoundAreResolved

\* A restart whose queries answer resolves every scheduled capture, as the comment
\* over rescheduleCaptures says.
ScheduledResolved ==
  resched = "over" /\ service = "up" =>
    \A r \in before.captures \ missed.captures : Resolved(r)

\* Who is told "created" before the time has come gets the process when it has,
\* unless the service stops or something fails. (Told later, it never does: a
\* job for a time that has passed does not run, and nothing rejects the time.)
CreatedRuns ==
  \A r \in Requests : (answer[r] = "created" /\ r \notin due) ~> (proc[r] # "none" \/ faults > 0)

================================================================================
