----------------------------- MODULE ReplayWizard -----------------------------
(***************************************************************************)
(* The wizard that starts a replay, in two steps: name, capture and time,   *)
(* then the database. A click runs a handler over several requests to the   *)
(* service; nothing disables the button meanwhile, and the handler reads    *)
(* the form where it gets to it, not as it was clicked. The service checks  *)
(* the form of a name but not whether it is taken.                          *)
(***************************************************************************)
EXTENDS Naturals, FiniteSets

CONSTANTS Names, Clicks,
          Captures,   \* those that are done
          MaxFailures \* the requests that come to nothing

Empty == "empty" \* '' in the form

VARIABLES
  page,     \* modalPage
  disabled, \* is the button
  name, captureId, \* in the form
  db,       \* is a database chosen
  later,    \* is it scheduled (replayType "specific")
  at,       \* the request a click waits for
  asked,    \* the name and the capture it has asked for
  body,     \* the replay it has made of the form
  rows,     \* the clicks whose replay the service has inserted
  failures,
  cut,      \* history: the clicks over which the wizard was reset before they read it
  unaware,  \* history: pairs, one inserted when the other had its name checked
  unchecked \* history: the clicks whose check of the name failed

form    == <<page, disabled, name, captureId, db, later>>
clicks  == <<at, asked, body>>
history == <<cut, unaware, unchecked>>
rvars   == <<form, clicks, rows, failures, history>>

Named == [name : Names \cup {Empty}, capture : Captures \cup {Empty}]
Body  == [name : Names \cup {Empty}, capture : Captures \cup {Empty}, db : BOOLEAN]

TypeOK ==
  /\ page \in {1, 2} /\ {disabled, db, later} \subseteq BOOLEAN
  /\ name \in Names \cup {Empty} /\ captureId \in Captures \cup {Empty}
  /\ at \in [Clicks -> {"idle", "name", "name again", "bucket", "workload", "database", "start",
                        "answer", "over"}]
  /\ asked \in [Clicks -> Named] /\ body \in [Clicks -> Body]
  /\ {rows, cut, unchecked} \subseteq SUBSET Clicks
  /\ failures \in 0..MaxFailures /\ unaware \subseteq SUBSET Clicks

Init ==
  /\ page = 1 /\ disabled = TRUE /\ name = Empty /\ captureId = Empty
  /\ db = FALSE /\ later = FALSE
  /\ at = [c \in Clicks |-> "idle"]
  /\ asked = [c \in Clicks |-> [name |-> Empty, capture |-> Empty]]
  /\ body = [c \in Clicks |-> [name |-> Empty, capture |-> Empty, db |-> FALSE]]
  /\ rows = {} /\ failures = 0 /\ cut = {} /\ unaware = {} /\ unchecked = {}

Go(c, from, to) == at[c] = from /\ at' = [at EXCEPT ![c] = to]

\* The inputs of the two pages, and the captures of the list: those that are
\* done, after an option that is none.
Inputs  == IF page = 1 THEN {"name", "capture", "time"} ELSE {"db"}
Options == Captures \cup {Empty}

\* handleNameChange; a name that is not well-formed is no name.
TypeName(n) ==
  /\ "name" \in Inputs /\ name' = n /\ disabled' = (Empty \in {n, captureId})
  /\ UNCHANGED <<page, captureId, db, later, clicks, rows, failures, history>>

\* handleCaptureId.
ChooseCapture(k) ==
  /\ "capture" \in Inputs /\ captureId' = k /\ disabled' = (Empty \in {name, k})
  /\ UNCHANGED <<page, name, db, later, clicks, rows, failures, history>>

ChooseTime ==
  /\ "time" \in Inputs /\ later' = ~later
  /\ UNCHANGED <<page, disabled, name, captureId, db, clicks, rows, failures, history>>

\* handleDBName.
ChooseDatabase ==
  /\ "db" \in Inputs /\ db' = ~db /\ disabled' = db
  /\ UNCHANGED <<page, name, captureId, later, clicks, rows, failures, history>>

\* Mutant: the name was checked in the first step.
ClickChecksOnce(c) ==
  /\ ~disabled /\ Go(c, "idle", IF page = 1 THEN "name" ELSE "bucket")
  /\ asked' = [asked EXCEPT ![c] = [name |-> name, capture |-> captureId]]
  /\ UNCHANGED <<form, body, rows, failures, history>>

\* handleClick: both steps begin with the name and the capture of the form.
Click(c) ==
  /\ ~disabled /\ Go(c, "idle", IF page = 1 THEN "name" ELSE "name again")
  /\ asked' = [asked EXCEPT ![c] = [name |-> name, capture |-> captureId]]
  /\ UNCHANGED <<form, body, rows, failures, history>>

\* Mutant: the pages are counted from 0.
ResetToZero ==
  /\ page' = 0 /\ disabled' = TRUE /\ name' = Empty /\ captureId' = Empty /\ db' = FALSE /\ later' = FALSE
  /\ cut' = cut \cup {c \in Clicks : at[c] \in {"name again", "bucket", "workload"}}

\* cancelModal.
Reset ==
  /\ page' = 1 /\ disabled' = TRUE /\ name' = Empty /\ captureId' = Empty /\ db' = FALSE /\ later' = FALSE
  /\ cut' = cut \cup {c \in Clicks : at[c] \in {"name again", "bucket", "workload"}}

Cancel ==
  /\ Reset /\ UNCHANGED <<clicks, rows, failures, unaware, unchecked>>

\* The service knows the name, for this capture. Of a name or a capture that is
\* not filled in it knows nothing.
Taken(x) == \E r \in rows : body[r].name = x.name /\ body[r].capture = x.capture

Fail == failures < MaxFailures /\ failures' = failures + 1

\* A request that fails yields null, which is "not taken".
Check(c, from, to) ==
  \/ Go(c, from, IF Taken(asked[c]) THEN "over" ELSE to) /\ UNCHANGED <<failures, unchecked>>
  \/ Go(c, from, to) /\ Fail /\ unchecked' = unchecked \cup {c}

Refused(c) == Taken(asked[c]) /\ c \notin unchecked'

\* validateName: a time that has passed is refused; then changeProgress(2), over
\* whatever the form has become.
NameChecked(c) ==
  /\ Check(c, "name", "over")
  /\ \/ (later \/ Refused(c)) /\ UNCHANGED form
     \/ ~Refused(c) /\ page' = 2 /\ disabled' = TRUE
        /\ UNCHANGED <<name, captureId, db, later>>
  /\ UNCHANGED <<asked, body, rows, cut, unaware>>

NameCheckedAgain(c) ==
  /\ Check(c, "name again", "bucket")
  /\ UNCHANGED <<form, asked, body, rows, cut, unaware>>

\* The workload asked for is that of the capture in the form by then: of none
\* there is none.
BucketExists(c) ==
  /\ \/ Go(c, "bucket", IF captureId = Empty THEN "over" ELSE "workload") /\ UNCHANGED failures
     \/ Go(c, "bucket", "over") /\ Fail
  /\ UNCHANGED <<form, asked, body, rows, history>>

\* The replay is made of the form as it is when the workload is found, which may
\* be another's.
WorkloadExists(c) ==
  /\ \/ Go(c, "workload", "database") /\ UNCHANGED failures
     \/ Go(c, "workload", "over") /\ Fail
  /\ body' = [body EXCEPT ![c] = [name |-> name, capture |-> captureId, db |-> db]]
  /\ UNCHANGED <<form, asked, rows, history>>

DatabaseValid(c) ==
  /\ \/ Go(c, "database", IF body[c].db THEN "start" ELSE "over") /\ UNCHANGED failures
     \/ Go(c, "database", "over") /\ Fail
  /\ UNCHANGED <<form, asked, body, rows, history>>

\* Those whose name has been found free.
Past == {d \in Clicks : at[d] \in {"bucket", "workload", "database", "start"}}

\* POST /replays, which needs both.
Filled(b) == Empty \notin {b.name, b.capture}
Start(c) ==
  /\ at[c] = "start"
  /\ \/ /\ Filled(body[c]) /\ Go(c, "start", "answer")
        /\ rows' = rows \cup {c}
        /\ unaware' = unaware \cup {{c, d} : d \in Past}
        /\ UNCHANGED failures
     \/ ~Filled(body[c]) /\ Go(c, "start", "over") /\ UNCHANGED <<rows, failures, unaware>>
     \/ Go(c, "start", "over") /\ Fail /\ UNCHANGED <<rows, unaware>>
  /\ UNCHANGED <<form, asked, body, cut, unchecked>>

\* The wizard closes itself, by its cancel button.
Started(c) ==
  /\ Go(c, "answer", "over") /\ Reset
  /\ UNCHANGED <<asked, body, rows, failures, unaware, unchecked>>

Answered(c) ==
  NameChecked(c) \/ NameCheckedAgain(c) \/ BucketExists(c) \/ WorkloadExists(c)
  \/ DatabaseValid(c) \/ Start(c) \/ Started(c)

Next ==
  \/ ChooseTime \/ ChooseDatabase \/ Cancel
  \/ \E n \in Names \cup {Empty} : TypeName(n)
  \/ \E k \in Options : ChooseCapture(k)
  \/ \E c \in Clicks : Click(c) \/ Answered(c)

Spec == Init /\ [][Next]_rvars

\* Two replays of a capture have one name only if one was inserted between the
\* check of the other and its insertion, if a check failed, or if the wizard was
\* reset over a click, which then took the name from the next form.
NamesDistinct ==
  \A c, d \in rows :
    c # d /\ body[c].name = body[d].name /\ body[c].capture = body[d].capture =>
      {c, d} \in unaware \/ {c, d} \cap (unchecked \cup cut) # {}

===============================================================================
