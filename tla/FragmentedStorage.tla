--------------------------- MODULE FragmentedStorage ---------------------------
(***************************************************************************)
(* The stored files of one capture (or replay) and of one kind, workload   *)
(* or metrics: a depot with a file per sample, in-progress files that cache *)
(* the samples merged so far, and the done file. Nothing locks them. The    *)
(* process puts samples in the depot and builds the done file at its end    *)
(* (read with live = false), once per teardown that gets that far; the     *)
(* service reads the metrics meanwhile, once per request (live = true), and *)
(* each of its reads rewrites the cache.                                   *)
(*                                                                         *)
(* A sample is the time its window ended, which is the time in its key; a   *)
(* file's content is the set of samples merged in it. The single operations *)
(* of the backend are atomic, and what happens between two of them is an    *)
(* action. A key that was listed may be gone when it is read.               *)
(***************************************************************************)
EXTENDS Naturals, FiniteSets

CONSTANTS LastSample,  \* the samples are 1..LastSample
          Readers,     \* GET /metrics requests of the service
          Finalisers,  \* teardowns of the process
          Failing      \* those of them whose operations may reject

Samples == 1..LastSample
Times   == 0..LastSample  \* 0: no sample merged yet (new Date(Number.MIN_VALUE))
Actors  == Readers \cup Finalisers

ASSUME StorageAssumption ==
  /\ LastSample \in Nat
  /\ Readers \cap Finalisers = {}
  /\ Failing \subseteq Actors

VARIABLES
  kind,        \* the FragmentType of the storage
  depot,       \* the samples whose file is in the depot
  inProgress,  \* the in-progress files: what each time's file holds
  isDone,      \* does the done file exist
  done,        \* its content
  deleting,    \* deletions issued and not awaited, <<actor, file, time>>
  at,          \* which operation of FragmentedStorage.read an actor is at
  lastTime,    \* the time of the in-progress file an actor found
  todo,        \* the samples it listed in the depot
  result,      \* what it has merged
  stored,      \* history: every sample ever put
  begun,       \* history: stored when a reader began
  listed,      \* history: the samples live reads have listed
  overtaken,   \* history: the samples put after a live read listed a later one,
               \* or after a finaliser listed the depot
  builders     \* history: the finalisers that found no done file

files   == <<depot, inProgress, isDone, done, deleting>>
locals  == <<lastTime, todo, result>>
history == <<stored, begun, listed, overtaken, builders>>
vars    == <<kind, files, at, locals, history>>

TypeOK ==
  /\ kind \in {"workload", "metrics"}
  /\ depot \subseteq Samples
  /\ DOMAIN inProgress \subseteq Times
  /\ inProgress \in [DOMAIN inProgress -> SUBSET Samples]
  /\ isDone \in BOOLEAN
  /\ done \subseteq Samples
  /\ deleting \subseteq Actors \X {"inProgress", "depot"} \X Times
  /\ at \in [Actors -> {"idle", "listRoot", "readRoot", "listDepot", "readDepot",
                        "listOld", "writeInProgress", "writeDone", "cleanRoot",
                        "cleanDepot", "rewrite", "over", "failed"}]
  /\ lastTime \in [Actors -> Times]
  /\ todo \in [Actors -> SUBSET Samples]
  /\ result \in [Actors -> SUBSET Samples]
  /\ stored \subseteq Samples
  /\ begun \in [Readers -> SUBSET Samples]
  /\ listed \subseteq Samples
  /\ overtaken \subseteq Samples
  /\ builders \subseteq Finalisers

Init ==
  /\ kind \in {"workload", "metrics"}
  /\ depot = {} /\ deleting = {}
  /\ inProgress = [t \in {} |-> {}]
  /\ isDone = FALSE /\ done = {}
  /\ at = [a \in Actors |-> "idle"]
  /\ lastTime = [a \in Actors |-> 0]
  /\ todo = [a \in Actors |-> {}]
  /\ result = [a \in Actors |-> {}]
  /\ stored = {} /\ listed = {} /\ overtaken = {} /\ builders = {}
  /\ begun = [r \in Readers |-> {}]

Go(a, step) == at' = [at EXCEPT ![a] = step]

\* Merging is over: of what the actor knows, only the result is used again.
Merged(a) ==
  /\ lastTime' = [lastTime EXCEPT ![a] = 0]
  /\ todo' = [todo EXCEPT ![a] = {}]

----------------------------------------------------------------------------
(* The process stores a sample                                              *)

\* A sample that comes now may never be merged.
TooLate(s) ==
  \/ \E t \in listed : t > s
  \/ \E f \in Finalisers : at[f] \notin {"idle", "listRoot", "readRoot", "listDepot"}

\* writeJson under getSingleSampleKey. The windows' samples are sent
\* concurrently, in any order, and a replay's finaliser does not wait for them.
Put(s) ==
  /\ s \in Samples \ stored
  /\ depot' = depot \cup {s}
  /\ stored' = stored \cup {s}
  /\ overtaken' = IF TooLate(s) THEN overtaken \cup {s} ELSE overtaken
  /\ UNCHANGED <<kind, inProgress, isDone, done, deleting, at, locals,
                 begun, listed, builders>>

----------------------------------------------------------------------------
(* FragmentedStorage.read                                                   *)

\* exists(doneKey), and a done file is read as it is. Only metrics are read
\* by the service.
Begin(a) ==
  /\ at[a] = "idle"
  /\ a \in Readers => kind = "metrics"
  /\ begun' = IF a \in Readers THEN [begun EXCEPT ![a] = stored] ELSE begun
  /\ IF isDone
     THEN /\ result' = [result EXCEPT ![a] = done]
          /\ Go(a, IF a \in Finalisers /\ kind = "workload" THEN "rewrite" ELSE "over")
          /\ UNCHANGED builders
     ELSE /\ Go(a, "listRoot")
          /\ builders' = builders \cup (Finalisers \cap {a})
          /\ UNCHANGED result
  /\ UNCHANGED <<kind, files, lastTime, todo, stored, listed, overtaken>>

\* The times of the in-progress files that count: a file of time 0 never does.
CacheTimes == DOMAIN inProgress \ {0}

\* Mutant: without an in-progress file there is nothing to read.
ListRootRequired(a) ==
  /\ at[a] = "listRoot"
  /\ \/ CacheTimes = {} /\ Go(a, "failed") /\ UNCHANGED lastTime
     \/ \E k \in CacheTimes :
          /\ \A other \in CacheTimes : other <= k
          /\ lastTime' = [lastTime EXCEPT ![a] = k]
          /\ Go(a, "readRoot")
  /\ UNCHANGED <<kind, files, todo, result, history>>

\* getLatestInProgressObject: the latest key.
ListRoot(a) ==
  /\ at[a] = "listRoot"
  /\ \/ /\ CacheTimes = {}
        /\ lastTime' = [lastTime EXCEPT ![a] = 0]
        /\ Go(a, "listDepot")
     \/ \E k \in CacheTimes :
          /\ \A other \in CacheTimes : other <= k
          /\ lastTime' = [lastTime EXCEPT ![a] = k]
          /\ Go(a, "readRoot")
  /\ UNCHANGED <<kind, files, todo, result, history>>

\* readJson of that key rejects if the file is gone.
ReadRoot(a) ==
  /\ at[a] = "readRoot"
  /\ IF lastTime[a] \in DOMAIN inProgress
     THEN result' = [result EXCEPT ![a] = inProgress[lastTime[a]]] /\ Go(a, "listDepot")
     ELSE Go(a, "failed") /\ UNCHANGED result
  /\ UNCHANGED <<kind, files, lastTime, todo, history>>

\* Mutant: an off-by-one in the filter.
ListDepotSkipsOne(a) ==
  /\ at[a] = "listDepot"
  /\ LET new == {s \in depot : s > lastTime[a] + 1} IN
       /\ todo' = [todo EXCEPT ![a] = new]
       /\ listed' = IF a \in Readers THEN listed \cup new ELSE listed
  /\ Go(a, "readDepot")
  /\ UNCHANGED <<kind, files, lastTime, result, stored, begun, overtaken, builders>>

\* Only what is later than the in-progress file is merged.
ListDepot(a) ==
  /\ at[a] = "listDepot"
  /\ LET new == {s \in depot : s > lastTime[a]} IN
       /\ todo' = [todo EXCEPT ![a] = new]
       /\ listed' = IF a \in Readers THEN listed \cup new ELSE listed
  /\ Go(a, "readDepot")
  /\ UNCHANGED <<kind, files, lastTime, result, stored, begun, overtaken, builders>>

\* The files are read one after the other. None is ever put twice, so the reads
\* succeed exactly if all could be made at once; they reject if one is gone.
ReadDepot(a) ==
  /\ at[a] = "readDepot"
  /\ IF todo[a] \subseteq depot
     THEN /\ result' = [result EXCEPT ![a] = @ \cup todo[a]]
          /\ Go(a, IF a \in Readers THEN "listOld" ELSE "writeDone")
     ELSE Go(a, "failed") /\ UNCHANGED result
  /\ UNCHANGED <<kind, files, lastTime, todo, history>>

\* deleteInProgress: the deletions are issued in a forEach, not awaited.
DeleteInProgress(a) ==
  deleting' = deleting \cup {<<a, "inProgress", k>> : k \in DOMAIN inProgress}

----------------------------------------------------------------------------
(* live = true: updateInProgressObject                                      *)

ListOld(a) ==
  /\ at[a] = "listOld"
  /\ DeleteInProgress(a)
  /\ Go(a, "writeInProgress")
  /\ UNCHANGED <<kind, depot, inProgress, isDone, done, locals, history>>

\* Mutants: the time of the latest file in the depot by now; the next one.
LatestInDepot(a) == {t \in depot \cup {lastTime[a]} : \A s \in depot \cup {lastTime[a]} : s <= t}
LatestPlusOne(a) == {t + 1 : t \in {u \in todo[a] \cup {lastTime[a]} : \A s \in todo[a] : s <= u}}

\* The time of the new file, as a set of one: that of the latest sample merged.
Latest(a) == {t \in todo[a] \cup {lastTime[a]} : \A s \in todo[a] \cup {lastTime[a]} : s <= t}

\* The key may be that of a file whose deletion was just issued.
WriteInProgress(a) ==
  /\ at[a] = "writeInProgress"
  /\ \E t \in Latest(a) :
       inProgress' = [k \in DOMAIN inProgress \cup {t} |->
                        IF k = t THEN result[a] ELSE inProgress[k]]
  /\ Go(a, "over")
  /\ Merged(a)
  /\ UNCHANGED <<kind, depot, isDone, done, deleting, result, history>>

----------------------------------------------------------------------------
(* live = false: the done file, and buildFinalWorkloadFile                  *)

\* Mutant: what was merged from the depot only.
WriteDoneNewOnly(a) ==
  /\ at[a] = "writeDone"
  /\ isDone' = TRUE
  /\ done' = todo[a]
  /\ Go(a, "cleanRoot")
  /\ Merged(a)
  /\ UNCHANGED <<kind, depot, inProgress, deleting, result, history>>

WriteDone(a) ==
  /\ at[a] = "writeDone"
  /\ isDone' = TRUE
  /\ done' = result[a]
  /\ Go(a, "cleanRoot")
  /\ Merged(a)
  /\ UNCHANGED <<kind, depot, inProgress, deleting, result, history>>

CleanRoot(a) ==
  /\ at[a] = "cleanRoot"
  /\ DeleteInProgress(a)
  /\ Go(a, "cleanDepot")
  /\ UNCHANGED <<kind, depot, inProgress, isDone, done, locals, history>>

CleanDepot(a) ==
  /\ at[a] = "cleanDepot"
  /\ deleting' = deleting \cup {<<a, "depot", s>> : s \in depot}
  /\ Go(a, IF kind = "workload" THEN "rewrite" ELSE "over")
  /\ UNCHANGED <<kind, depot, inProgress, isDone, done, locals, history>>

\* Mutant: it merges the depot again.
RewriteDepot(a) ==
  /\ at[a] = "rewrite"
  /\ done' = depot
  /\ Go(a, "over")
  /\ UNCHANGED <<kind, depot, inProgress, isDone, deleting, locals, history>>

\* buildFinalWorkloadFile writes what it has read once more.
Rewrite(a) ==
  /\ at[a] = "rewrite"
  /\ done' = result[a]
  /\ Go(a, "over")
  /\ UNCHANGED <<kind, depot, inProgress, isDone, deleting, locals, history>>

----------------------------------------------------------------------------

Without(t) == [k \in DOMAIN inProgress \ {t} |-> inProgress[k]]

\* A deletion takes effect some time after it was issued.
DeletionLands(d) ==
  /\ d \in deleting
  /\ deleting' = deleting \ {d}
  /\ IF d[2] = "depot"
     THEN depot' = depot \ {d[3]} /\ UNCHANGED inProgress
     ELSE inProgress' = Without(d[3]) /\ UNCHANGED depot
  /\ UNCHANGED <<kind, isDone, done, at, locals, history>>

\* An awaited operation rejects, and nothing in read catches it.
OpFails(a) ==
  /\ a \in Failing
  /\ at[a] \notin {"idle", "over", "failed"}
  /\ Go(a, "failed")
  /\ UNCHANGED <<kind, files, locals, history>>

Step(a) ==
  \/ ListRoot(a) \/ ReadRoot(a) \/ ListDepot(a) \/ ReadDepot(a)
  \/ ListOld(a) \/ WriteInProgress(a)
  \/ WriteDone(a) \/ CleanRoot(a) \/ CleanDepot(a) \/ Rewrite(a)

Next ==
  \/ \E s \in Samples : Put(s)
  \/ \E a \in Actors : Begin(a) \/ Step(a) \/ OpFails(a)
  \/ \E d \in deleting : DeletionLands(d)

\* An operation of the backend that was called comes back.
Fairness == \A a \in Actors : WF_vars(Step(a))

Spec == Init /\ [][Next]_vars
FairSpec == Spec /\ Fairness

----------------------------------------------------------------------------
(* Properties                                                               *)

\* Two teardowns both looked for the done file before either wrote it: the
\* second may find the depot half deleted and overwrite the whole file.
Overlap == \E f, g \in builders : f # g

\* The final file holds every sample ever stored, but for those that were stored
\* after a live read had already cached a later one (getUpdatedObject skips
\* them), and unless two teardowns overlap.
OnlyOvertakenLost ==
  isDone /\ ~Overlap => stored \ overtaken \subseteq done

\* What makes the filter time > lastTime sound: until the done file is written, an
\* in-progress file of time t stands for everything up to t, whichever reader wrote
\* it and whatever deletions of other readers are under way.
CacheStandsForDepot ==
  ~isDone =>
    \A k \in DOMAIN inProgress :
      {s \in stored \ overtaken : s <= k} \subseteq inProgress[k]

\* A live read that comes back returns at least what was stored when it began,
\* except what was overtaken, however the other reads shuffle the files; once the
\* done file is being built, it may return less.
LiveReadIsCurrent ==
  \A r \in Readers :
    at[r] = "over" /\ builders = {} => begun[r] \ overtaken \subseteq result[r]

\* With one teardown at a time a done file is for ever: late live reads and the
\* second write of buildFinalWorkloadFile leave it as it is.
DoneUnchanged ==
  [][isDone /\ ~Overlap => isDone' /\ done' = done]_vars

\* No live read is under way and none has left a deletion behind.
Quiet ==
  /\ \A r \in Readers : at[r] \in {"idle", "over", "failed"}
  /\ \A d \in deleting : d[1] \in Finalisers

\* A teardown that begins to merge builds the done file, unless a live read comes
\* in between (it may delete the in-progress file the teardown has listed, whose
\* read then rejects and ends the teardown).
FinalFileBuilt ==
  \A f \in Finalisers \ Failing :
    at[f] = "listRoot" /\ Quiet ~> isDone \/ ~Quiet

===============================================================================
