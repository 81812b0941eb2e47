---------------------------- MODULE CaptureWizard ----------------------------
(***************************************************************************)
(* The wizard that starts a capture, or with a step for each replay a       *)
(* mimic. As in ReplayWizard a click is a handler of several requests over  *)
(* a form that changes under it. The list of replays is one array for the   *)
(* life of the page: replays are pushed onto the one that cancelModal puts  *)
(* back, so what was entered once goes with every later mimic.              *)
(***************************************************************************)
EXTENDS Naturals, Sequences, FiniteSets

CONSTANTS CaptureNames, ReplayNames,
          Databases,
          Clicks,
          MaxReplays,  \* mimicLimit
          MaxFailures, \* requests that come to nothing, databases refused, and cancels
          MaxPicks     \* selections of a database

Empty == "empty" \* '' in the form

VARIABLES
  step, disabled, captureName, concurrent, mimicName,
  failed,    \* is there an errorMsg
  current,   \* currentReplay: the selection, an object of its own, and its database
  dbRefs,    \* the databases there are to select
  replays,   \* the array: of each its object, its database, its name, who pushed it
  picks,     \* how many selections there were
  opening,   \* how often the form was reset
  at,        \* the request a click waits for
  asked,     \* the name it has asked for, and the selection it has had validated
  body,      \* what it starts
  started,   \* the names of the captures the service has
  failures,
  clickedIn, \* history: the opening in which it was made
  together   \* history: the pairs of clicks that had a database validated at a time

form    == <<step, disabled, captureName, concurrent, mimicName, failed, current, dbRefs>>
clicks  == <<at, asked, body>>
service == <<started, failures>>
cvars   == <<form, replays, picks, opening, clicks, service, clickedIn, together>>

NoDb    == [object |-> 0, db |-> Empty]
Objects == [object : 0..MaxPicks, db : Databases \cup {Empty}]
Entries == [object : 0..MaxPicks, db : Databases, name : ReplayNames \cup {Empty}, by : Clicks]

TypeOK ==
  /\ step \in Nat \ {0} /\ {disabled, concurrent, failed} \subseteq BOOLEAN
  /\ captureName \in CaptureNames \cup {Empty} /\ mimicName \in ReplayNames \cup {Empty}
  /\ current \in Objects /\ dbRefs \subseteq Databases
  /\ replays \in Seq(Entries) /\ picks \in 0..MaxPicks /\ opening \in Nat
  /\ at \in [Clicks -> {"idle", "name", "bucket", "database", "database and on", "post", "answer", "over"}]
  /\ asked \in [Clicks -> [name : CaptureNames \cup {Empty}, selection : Objects]]
  /\ body \in [Clicks -> [name : CaptureNames \cup {Empty}, replays : Seq(Entries)]]
  /\ started \subseteq CaptureNames /\ failures \in 0..MaxFailures
  /\ clickedIn \in [Clicks -> Nat] /\ together \subseteq SUBSET Clicks

Init ==
  /\ step = 1 /\ disabled = TRUE /\ captureName = Empty /\ concurrent = FALSE /\ mimicName = Empty
  /\ failed = FALSE /\ current = NoDb /\ dbRefs = Databases
  /\ replays = <<>> /\ picks = 0 /\ opening = 0
  /\ at = [c \in Clicks |-> "idle"]
  /\ asked = [c \in Clicks |-> [name |-> Empty, selection |-> NoDb]]
  /\ body = [c \in Clicks |-> [name |-> Empty, replays |-> <<>>]]
  /\ started = {} /\ failures = 0
  /\ clickedIn = [c \in Clicks |-> 0] /\ together = {}

Go(c, from, to) == at[c] = from /\ at' = [at EXCEPT ![c] = to]
Fail            == failures < MaxFailures /\ failures' = failures + 1

(***************************************************************************)
(* The form                                                                *)
(***************************************************************************)

\* The inputs of a step, and the buttons that can be clicked.
Inputs  == IF step = 1 THEN {"captureName", "concurrent"} ELSE {"mimicName", "db"}
Buttons == {b \in {"next", "another"} :
              ~disabled /\ (b = "another" => step > 1 /\ Len(replays) < MaxReplays)}

\* handleNameChange; a name that is not well-formed is no name.
TypeName(n) ==
  /\ "captureName" \in Inputs /\ captureName' = n /\ disabled' = (n = Empty) /\ failed' = FALSE
  /\ UNCHANGED <<step, concurrent, mimicName, current, dbRefs,
                 replays, picks, opening, clicks, service, clickedIn, together>>

\* handleConcurrentChange.
ChooseConcurrent ==
  /\ "concurrent" \in Inputs /\ concurrent' = ~concurrent
  /\ UNCHANGED <<step, disabled, captureName, mimicName, failed, current, dbRefs,
                 replays, picks, opening, clicks, service, clickedIn, together>>

\* handleMimicName.
TypeMimicName(n) ==
  /\ "mimicName" \in Inputs /\ mimicName' = n /\ disabled' = (n = Empty) /\ failed' = FALSE
  /\ UNCHANGED <<step, captureName, concurrent, current, dbRefs,
                 replays, picks, opening, clicks, service, clickedIn, together>>

\* The list of databases begins with an option that is none. What DBInfo hands on
\* for a database is parsed anew, an object of its own.
Options   == dbRefs \cup {Empty}
Option(d) == IF d = Empty THEN NoDb ELSE [object |-> picks + 1, db |-> d]

\* handleDBName: any database enables the button.
Select(d) ==
  /\ "db" \in Inputs /\ d \in Options /\ picks < MaxPicks /\ picks' = picks + 1
  /\ current' = Option(d) /\ disabled' = (d = Empty) /\ failed' = FALSE
  /\ UNCHANGED <<step, captureName, concurrent, mimicName, dbRefs,
                 replays, opening, clicks, service, clickedIn, together>>

\* cancelModal: all of the form but the contents of the array.
Reset ==
  /\ step' = 1 /\ disabled' = TRUE /\ captureName' = Empty /\ concurrent' = FALSE
  /\ mimicName' = Empty /\ failed' = FALSE /\ current' = NoDb /\ dbRefs' = Databases
  /\ opening' = opening + 1

Cancel ==
  /\ Reset /\ Fail /\ UNCHANGED <<replays, picks, clicks, started, clickedIn, together>>

(***************************************************************************)
(* Step 1: validateCapture                                                 *)
(***************************************************************************)
Click(c) ==
  /\ step = 1 /\ "next" \in Buttons /\ Go(c, "idle", "name")
  /\ asked' = [asked EXCEPT ![c].name = captureName]
  /\ clickedIn' = [clickedIn EXCEPT ![c] = opening]
  /\ UNCHANGED <<form, replays, picks, opening, body, service, together>>

\* A request that fails yields null, which is "not taken".
NameChecked(c) ==
  /\ \/ asked[c].name \in started /\ Go(c, "name", "over") /\ failed' = TRUE /\ UNCHANGED failures
     \/ asked[c].name \notin started /\ Go(c, "name", "bucket") /\ UNCHANGED <<failed, failures>>
     \/ Go(c, "name", "bucket") /\ Fail /\ UNCHANGED failed
  /\ UNCHANGED <<step, disabled, captureName, concurrent, mimicName, current, dbRefs, replays,
                 picks, opening, asked, body, started, clickedIn, together>>

\* The bucket is there. What goes on is the form as it is by then: to the first
\* replay, or as a capture.
BucketExists(c) ==
  /\ \/ concurrent /\ Go(c, "bucket", "over") /\ step' = 2 /\ disabled' = TRUE /\ UNCHANGED body
     \/ ~concurrent /\ Go(c, "bucket", "post") /\ UNCHANGED <<step, disabled>>
        /\ body' = [body EXCEPT ![c] = [name |-> captureName, replays |-> <<>>]]
  /\ UNCHANGED <<captureName, concurrent, mimicName, failed, current, dbRefs, replays, picks,
                 opening, asked, service, clickedIn, together>>

\* Without the bucket, or with a time that has passed or a duration out of range:
\* they are in the form too, and any of them may be.
Refuse(c) ==
  /\ Go(c, "bucket", "over") /\ failed' = TRUE
  /\ UNCHANGED <<step, disabled, captureName, concurrent, mimicName, current, dbRefs, replays,
                 picks, opening, asked, body, service, clickedIn, together>>

(***************************************************************************)
(* Step 2 and on: validateMimic, addAnotherReplay                          *)
(***************************************************************************)

\* "Create", or "Add Another"; a name the list has is refused at once.
ClickReplay(c, next) ==
  LET taken == \E i \in DOMAIN replays : replays[i].name = mimicName
  IN /\ step > 1 /\ (IF next = "database" THEN "next" ELSE "another") \in Buttons
     /\ Go(c, "idle", IF taken THEN "over" ELSE next)
     /\ failed' = (failed \/ taken)
     /\ asked' = [asked EXCEPT ![c].selection = current]
     /\ clickedIn' = [clickedIn EXCEPT ![c] = opening]
     /\ together' = together \cup {{c, d} : d \in {d \in Clicks : at[d] \in {"database", "database and on"}}}
     /\ UNCHANGED <<step, disabled, captureName, concurrent, mimicName, current, dbRefs, replays,
                    picks, opening, body, service>>

DatabaseInvalid(c) ==
  /\ Go(c, "database", "over") \/ Go(c, "database and on", "over")
  /\ failed' = TRUE
  /\ Fail \/ (asked[c].selection.db = Empty /\ UNCHANGED failures)
  /\ UNCHANGED <<step, disabled, captureName, concurrent, mimicName, current, dbRefs, replays,
                 picks, opening, asked, body, started, clickedIn, together>>

\* The list with the object of c pushed: the object gets the name there is now,
\* in every place it has.
Pushed(c) ==
  LET o == asked[c].selection
  IN Append([i \in DOMAIN replays |-> IF replays[i].object = o.object
                                       THEN [replays[i] EXCEPT !.name = mimicName] ELSE replays[i]],
            [object |-> o.object, db |-> o.db, name |-> mimicName, by |-> c])

\* Mutant: the database can be selected once more.
DatabaseValidKept(c) ==
  /\ asked[c].selection.db # Empty /\ replays' = Pushed(c)
  /\ current' = NoDb /\ mimicName' = Empty
  /\ \/ failed /\ (Go(c, "database", "over") \/ Go(c, "database and on", "over"))
        /\ UNCHANGED <<step, disabled, body>>
     \/ ~failed /\ Go(c, "database", "post") /\ UNCHANGED <<step, disabled>>
        /\ body' = [body EXCEPT ![c] = [name |-> captureName, replays |-> replays']]
     \/ ~failed /\ Go(c, "database and on", "over") /\ step' = step + 1 /\ disabled' = TRUE
        /\ UNCHANGED body
  /\ UNCHANGED <<captureName, concurrent, failed, dbRefs, picks, opening, asked, service,
                 clickedIn, together>>

\* The replay is pushed; an errorMsg of before keeps the handler from going on.
DatabaseValid(c) ==
  /\ asked[c].selection.db # Empty /\ replays' = Pushed(c)
  /\ current' = NoDb /\ mimicName' = Empty
  /\ dbRefs' = dbRefs \ {asked[c].selection.db}
  /\ \/ failed /\ (Go(c, "database", "over") \/ Go(c, "database and on", "over"))
        /\ UNCHANGED <<step, disabled, body>>
     \/ ~failed /\ Go(c, "database", "post") /\ UNCHANGED <<step, disabled>>
        /\ body' = [body EXCEPT ![c] = [name |-> captureName, replays |-> replays']]
     \/ ~failed /\ Go(c, "database and on", "over") /\ step' = step + 1 /\ disabled' = TRUE
        /\ UNCHANGED body
  /\ UNCHANGED <<captureName, concurrent, failed, picks, opening, asked, service,
                 clickedIn, together>>

(***************************************************************************)
(* startCapture, startConcurrent                                           *)
(***************************************************************************)

\* What the service accepts: well-formed names, at most five replays, no
\* database twice.
Accepted(b) ==
  /\ b.name # Empty /\ Len(b.replays) <= 5
  /\ \A i, j \in DOMAIN b.replays :
       b.replays[i].name # Empty /\ (i # j => b.replays[i].db # b.replays[j].db)

Post(c) ==
  /\ \/ /\ Accepted(body[c]) /\ Go(c, "post", "answer")
        /\ started' = started \cup {body[c].name} /\ UNCHANGED <<failed, failures>>
     \/ /\ Go(c, "post", "over") /\ failed' = TRUE
        /\ (Fail \/ (~Accepted(body[c]) /\ UNCHANGED failures))
        /\ UNCHANGED started
  /\ UNCHANGED <<step, disabled, captureName, concurrent, mimicName, current, dbRefs, replays,
                 picks, opening, asked, body, clickedIn, together>>

\* The wizard closes itself; the button for a capture is there in step 1 only.
Started(c) ==
  /\ Go(c, "answer", "over")
  /\ IF body[c].replays = <<>> /\ step > 1 THEN UNCHANGED <<form, opening>> ELSE Reset
  /\ UNCHANGED <<replays, picks, asked, body, service, clickedIn, together>>

Next ==
  \/ ChooseConcurrent \/ Cancel
  \/ \E n \in CaptureNames \cup {Empty} : TypeName(n)
  \/ \E n \in ReplayNames \cup {Empty} : TypeMimicName(n)
  \/ \E d \in Databases \cup {Empty} : Select(d)
  \/ \E c \in Clicks :
       \/ Click(c) \/ NameChecked(c) \/ BucketExists(c) \/ Refuse(c)
       \/ ClickReplay(c, "database") \/ ClickReplay(c, "database and on")
       \/ DatabaseInvalid(c) \/ DatabaseValid(c) \/ Post(c) \/ Started(c)

Spec == Init /\ [][Next]_cvars

\* A mimic is sent with a database twice (which the service refuses) only if one
\* of the two was entered in an earlier opening of the wizard, or by a click
\* while that of the other was still being validated.
DistinctDatabases ==
  \A c \in Clicks : \A i, j \in DOMAIN body[c].replays :
    LET x == body[c].replays[i]
        y == body[c].replays[j]
    IN i # j /\ x.db = y.db => clickedIn[x.by] # clickedIn[y.by] \/ {x.by, y.by} \in together

===============================================================================
