----------------------------- MODULE Client_proofs -----------------------------
(***************************************************************************)
(* Theorems about the web client: what MCClient's run finds of its wizards, *)
(* pages, dashboard and bot for a few clicks, names, databases, refreshes   *)
(* and requests holds for any. Each of the six programs has an inductive    *)
(* invariant of its own, of the variables it has for itself.                *)
(***************************************************************************)
EXTENDS MCClient, FiniteSetTheorems, SequenceTheorems, TLAPS

\* The bounds are numbers.
LEMMA Bounds ==
  /\ MaxFailures \in Nat /\ MaxReplays \in Nat /\ MaxPicks \in Nat /\ MaxLoads \in Nat
  /\ MaxEdits \in Nat /\ MaxOut \in Nat /\ MaxSaved \in Nat /\ MaxChanges \in Nat
  /\ MaxTurns \in Nat /\ MaxRequests \in Nat
  BY BoundsAssumption

-----------------------------------------------------------------------------
(* The wizard of a replay                                                   *)

Checked(c) == at[c] \in {"bucket", "workload", "database", "start"}
Made(c)    == at[c] \in {"database", "start"} \/ c \in rows

\* A click whose replay is inserted waits for the answer, or has had it.
RowsSettled == \A c \in rows : at[c] \in {"answer", "over"}

\* The name and the capture do not change on the second page: a click there has
\* asked for those the form has, until the wizard is reset over it.
AskedIsForm ==
  \A c \in Clicks \ cut : at[c] \in {"name again", "bucket", "workload"} =>
    page = 2 /\ asked[c].name = name /\ asked[c].capture = captureId

\* So the replay is made with what was asked for.
MadeAsAsked ==
  \A c \in Clicks \ cut : Made(c) =>
    body[c].name = asked[c].name /\ body[c].capture = asked[c].capture

\* A name found free is free, but for replays inserted since.
FoundFree ==
  \A c \in Clicks \ (unchecked \cup cut), r \in rows : Checked(c) =>
    \/ {c, r} \in unaware
    \/ body[r].name # asked[c].name \/ body[r].capture # asked[c].capture

ReplayInv ==
  R!TypeOK /\ RowsSettled /\ AskedIsForm /\ MadeAsAsked /\ FoundFree /\ R!NamesDistinct

\* A request of a click is answered.
LEMMA ReplayGoes ==
  ASSUME R!TypeOK, NEW c \in Clicks, NEW from, NEW to, R!Go(c, from, to)
  PROVE  at[c] = from /\ \A d \in Clicks : at'[d] = IF d = c THEN to ELSE at[d]
  BY DEF R!Go, R!TypeOK

\* The types of a replay's wizard, in parts.
ReplayStages == {"idle", "name", "name again", "bucket", "workload", "database", "start", "answer", "over"}
LEMMA ReplayParts ==
  R!TypeOK <=>
    /\ page \in {1, 2} /\ disabled \in BOOLEAN /\ db \in BOOLEAN /\ later \in BOOLEAN
    /\ name \in ReplayNames \cup {R!Empty} /\ captureId \in Captures \cup {R!Empty}
    /\ at \in [Clicks -> ReplayStages]
    /\ asked \in [Clicks -> R!Named] /\ body \in [Clicks -> R!Body]
    /\ rows \subseteq Clicks /\ cut \subseteq Clicks /\ unchecked \subseteq Clicks
    /\ failures \in 0..MaxFailures /\ unaware \subseteq SUBSET Clicks
  BY DEF R!TypeOK, ReplayStages

LEMMA ReplayTyped == R!TypeOK /\ R!Next => R!TypeOK'
  <1> SUFFICES ASSUME R!TypeOK, R!Next PROVE R!TypeOK'
    OBVIOUS
  <1> DEFINE Typed ==
        /\ page' \in {1, 2} /\ disabled' \in BOOLEAN /\ db' \in BOOLEAN /\ later' \in BOOLEAN
        /\ name' \in ReplayNames \cup {R!Empty} /\ captureId' \in Captures \cup {R!Empty}
        /\ at' \in [Clicks -> ReplayStages]
        /\ asked' \in [Clicks -> R!Named] /\ body' \in [Clicks -> R!Body]
        /\ rows' \subseteq Clicks /\ cut' \subseteq Clicks /\ unchecked' \subseteq Clicks
        /\ failures' \in 0..MaxFailures /\ unaware' \subseteq SUBSET Clicks
  <1> SUFFICES Typed
    <2> SUFFICES ASSUME Typed PROVE R!TypeOK'
      OBVIOUS
    <2>1. {disabled, db, later}' \subseteq BOOLEAN OBVIOUS
    <2>2. {rows, cut, unchecked}' \subseteq SUBSET Clicks OBVIOUS
    <2> QED BY <2>1, <2>2 DEF R!TypeOK, ReplayStages
  <1> USE ReplayParts DEF R!form, R!clicks, R!history
  <1>g. ASSUME NEW c, NEW from, NEW to \in ReplayStages, R!Go(c, from, to)
        PROVE  at' \in [Clicks -> ReplayStages]
    BY <1>g DEF R!Go
  <1>f. R!Fail => failures' \in 0..MaxFailures BY Bounds DEF R!Fail
  <1>1. CASE R!ChooseTime BY <1>1 DEF R!ChooseTime
  <1>2. CASE R!ChooseDatabase BY <1>2 DEF R!ChooseDatabase
  <1>3. CASE R!Cancel BY <1>3 DEF R!Cancel, R!Reset
  <1>4. CASE \E n \in ReplayNames \cup {R!Empty} : R!TypeName(n) BY <1>4 DEF R!TypeName
  <1>5. CASE \E k \in R!Options : R!ChooseCapture(k) BY <1>5 DEF R!ChooseCapture, R!Options
  <1>6. ASSUME NEW c \in Clicks, R!Click(c) PROVE Typed
    <2>1. [name |-> name, capture |-> captureId] \in R!Named BY DEF R!Named
    <2>2. at' \in [Clicks -> ReplayStages] BY <1>6, <1>g DEF R!Click, ReplayStages
    <2> QED BY <1>6, <2>1, <2>2 DEF R!Click
  <1>7. ASSUME NEW c \in Clicks, R!NameChecked(c) \/ R!NameCheckedAgain(c) PROVE Typed
    <2>1. UNCHANGED <<name, captureId, db, later, asked, body, rows, cut, unaware>>
          /\ page' \in {1, 2} /\ disabled' \in BOOLEAN
      BY <1>7 DEF R!NameChecked, R!NameCheckedAgain
    <2>2. \E from, to \in ReplayStages : R!Check(c, from, to)
      BY <1>7 DEF R!NameChecked, R!NameCheckedAgain, ReplayStages
    <2>3. \E from, to \in ReplayStages : R!Go(c, from, to) BY <2>2, ZenonT(40) DEF R!Check, ReplayStages
    <2>4. failures' \in 0..MaxFailures /\ unchecked' \subseteq Clicks BY <2>2, <1>f DEF R!Check
    <2> QED BY <2>1, <2>3, <2>4, <1>g
  <1>8. ASSUME NEW c \in Clicks, R!BucketExists(c) \/ R!DatabaseValid(c) PROVE Typed
    <2>1. UNCHANGED <<R!form, asked, body, rows, cut, unaware, unchecked>>
      BY <1>8 DEF R!BucketExists, R!DatabaseValid
    <2>2. \E from, to \in ReplayStages : R!Go(c, from, to)
      BY <1>8 DEF R!BucketExists, R!DatabaseValid, ReplayStages
    <2>3. failures' \in 0..MaxFailures BY <1>8, <1>f DEF R!BucketExists, R!DatabaseValid
    <2> QED BY <2>1, <2>2, <2>3, <1>g
  <1>9. ASSUME NEW c \in Clicks, R!WorkloadExists(c) PROVE Typed
    <2>1. [name |-> name, capture |-> captureId, db |-> db] \in R!Body BY DEF R!Body
    <2>2. \E from, to \in ReplayStages : R!Go(c, from, to) BY <1>9 DEF R!WorkloadExists, ReplayStages
    <2>3. failures' \in 0..MaxFailures BY <1>9, <1>f DEF R!WorkloadExists
    <2>4. at' \in [Clicks -> ReplayStages] BY <2>2, <1>g
    <2> QED BY <1>9, <2>1, <2>3, <2>4 DEF R!WorkloadExists
  <1>10. ASSUME NEW c \in Clicks, R!Start(c) PROVE Typed
    <2>1. {{c, d} : d \in R!Past} \subseteq SUBSET Clicks BY DEF R!Past
    <2>2. \E from, to \in ReplayStages : R!Go(c, from, to) BY <1>10 DEF R!Start, ReplayStages
    <2>3. failures' \in 0..MaxFailures BY <1>10, <1>f DEF R!Start
    <2>4. rows' \subseteq Clicks /\ unaware' \subseteq SUBSET Clicks BY <1>10, <2>1 DEF R!Start
    <2>5. UNCHANGED <<R!form, asked, body, cut, unchecked>> BY <1>10 DEF R!Start
    <2> QED BY <2>2, <2>3, <2>4, <2>5, <1>g
  <1>11. ASSUME NEW c \in Clicks, R!Started(c) PROVE Typed
    <2>1. at' \in [Clicks -> ReplayStages] BY <1>11, <1>g DEF R!Started, ReplayStages
    <2> QED BY <1>11, <2>1 DEF R!Started, R!Reset
  <1> QED
    BY <1>1, <1>2, <1>3, <1>4, <1>5, <1>6, <1>7, <1>8, <1>9, <1>10, <1>11 DEF R!Next, R!Answered

\* A click is made, or a request of it before the last is answered.
ReplayClick(c) ==
  \/ R!Click(c) \/ R!NameChecked(c) \/ R!NameCheckedAgain(c) \/ R!BucketExists(c)
  \/ R!WorkloadExists(c) \/ R!DatabaseValid(c) \/ R!Start(c)

\* The form changes by its inputs and by a reset, its names on the first page
\* only, and a check of the name turns the page.
ReplayInput == /\ UNCHANGED <<at, asked, body, rows, cut, unaware, unchecked>>
               /\ UNCHANGED <<page, name, captureId>> \/ page # 2
ReplayReset == /\ R!Reset /\ UNCHANGED <<asked, body, rows, unaware, unchecked>>
               /\ at' = at \/ \E c \in Clicks : R!Go(c, "answer", "over")
LEMMA ReplayStep ==
  ASSUME R!TypeOK, R!Next
  PROVE  \/ ReplayInput \/ ReplayReset
         \/ \E c \in Clicks : /\ ReplayClick(c) /\ UNCHANGED <<name, captureId, cut>>
                              /\ page' = page \/ page' = 2
  <1> USE DEF R!form, R!clicks, R!history
  <1>1. CASE R!ChooseTime BY <1>1 DEF R!ChooseTime, ReplayInput
  <1>2. CASE R!ChooseDatabase BY <1>2 DEF R!ChooseDatabase, ReplayInput
  <1>3. CASE R!Cancel BY <1>3 DEF R!Cancel, ReplayReset
  <1>4. ASSUME NEW n, R!TypeName(n) PROVE ReplayInput
    <2>1. page = 1 BY <1>4 DEF R!TypeName, R!Inputs
    <2> QED BY <1>4, <2>1 DEF R!TypeName, ReplayInput
  <1>5. ASSUME NEW k, R!ChooseCapture(k) PROVE ReplayInput
    <2>1. page = 1 BY <1>5 DEF R!ChooseCapture, R!Inputs
    <2> QED BY <1>5, <2>1 DEF R!ChooseCapture, ReplayInput
  <1>6. ASSUME NEW c \in Clicks, R!Started(c) PROVE ReplayReset BY <1>6 DEF R!Started, ReplayReset
  <1>7. ASSUME NEW c \in Clicks, R!NameChecked(c)
        PROVE  UNCHANGED <<name, captureId, cut>> /\ (page' = page \/ page' = 2)
    BY <1>7 DEF R!NameChecked
  <1>8. ASSUME NEW c \in Clicks, ReplayClick(c), ~R!NameChecked(c)
        PROVE  UNCHANGED <<name, captureId, cut>> /\ page' = page
    BY <1>8
    DEF ReplayClick, R!Click, R!NameCheckedAgain, R!BucketExists, R!WorkloadExists, R!DatabaseValid,
        R!Start
  <1> QED
    BY <1>1, <1>2, <1>3, <1>4, <1>5, <1>6, <1>7, <1>8 DEF R!Next, R!Answered, ReplayClick

\* Where a click goes, by the request that is answered.
LEMMA ReplayStage ==
  ASSUME R!TypeOK, NEW c \in Clicks
  PROVE  /\ R!Click(c) => /\ at[c] = "idle" /\ at'[c] \in {"name", "name again"}
                          /\ at'[c] = "name again" => page = 2
         /\ R!NameChecked(c) => at[c] = "name" /\ at'[c] = "over"
         /\ R!NameCheckedAgain(c) => /\ at[c] = "name again" /\ at'[c] \in {"bucket", "over"}
                                     /\ at'[c] = "bucket" => ~R!Taken(asked[c]) \/ c \in unchecked'
         /\ R!BucketExists(c) => at[c] = "bucket" /\ at'[c] \in {"workload", "over"}
         /\ R!WorkloadExists(c) => at[c] = "workload" /\ at'[c] \in {"database", "over"}
         /\ R!DatabaseValid(c) => at[c] = "database" /\ at'[c] \in {"start", "over"}
         /\ R!Start(c) => /\ at[c] = "start" /\ at'[c] \in {"answer", "over"}
                          /\ rows' # rows => at'[c] = "answer"
  <1> USE ReplayParts
  <1>1. R!Click(c) => /\ at[c] = "idle" /\ at'[c] \in {"name", "name again"}
                      /\ at'[c] = "name again" => page = 2
    BY DEF R!Click, R!Go
  <1>2. R!NameChecked(c) => at[c] = "name" /\ at'[c] = "over" BY DEF R!NameChecked, R!Check, R!Go
  <1>3. R!NameCheckedAgain(c) =>
          /\ at[c] = "name again" /\ at'[c] \in {"bucket", "over"}
          /\ at'[c] = "bucket" => ~R!Taken(asked[c]) \/ c \in unchecked'
    BY DEF R!NameCheckedAgain, R!Check, R!Go
  <1>4. R!BucketExists(c) => at[c] = "bucket" /\ at'[c] \in {"workload", "over"}
    BY DEF R!BucketExists, R!Go
  <1>5. R!WorkloadExists(c) => at[c] = "workload" /\ at'[c] \in {"database", "over"}
    BY DEF R!WorkloadExists, R!Go
  <1>6. R!DatabaseValid(c) => at[c] = "database" /\ at'[c] \in {"start", "over"}
    BY DEF R!DatabaseValid, R!Go
  <1>7. R!Start(c) => /\ at[c] = "start" /\ at'[c] \in {"answer", "over"}
                      /\ rows' # rows => at'[c] = "answer"
    BY DEF R!Start, R!Go
  <1> QED BY <1>1, <1>2, <1>3, <1>4, <1>5, <1>6, <1>7

\* What a click changes: its own request, what it asked for and its replay.
LEMMA ReplayClickChanges ==
  ASSUME R!TypeOK, NEW c \in Clicks, ReplayClick(c)
  PROVE  /\ \A d \in Clicks : d # c => at'[d] = at[d] /\ asked'[d] = asked[d] /\ body'[d] = body[d]
         /\ R!Click(c) \/ asked' = asked
         /\ R!WorkloadExists(c) \/ body' = body
         /\ \/ rows' = rows
            \/ R!Start(c) /\ rows' = rows \cup {c} /\ unaware' = unaware \cup {{c, d} : d \in R!Past}
         /\ unaware \subseteq unaware' /\ unchecked \subseteq unchecked'
         /\ at[c] \notin {"answer", "over"}
  <1> USE ReplayParts DEF ReplayClick, R!history, R!clicks
  <1>1. \A d \in Clicks : d # c => at'[d] = at[d]
    BY DEF R!Click, R!NameChecked, R!NameCheckedAgain, R!Check, R!BucketExists, R!WorkloadExists,
           R!DatabaseValid, R!Start, R!Go
  <1>2. \A d \in Clicks : d # c => asked'[d] = asked[d] /\ body'[d] = body[d]
    BY DEF R!Click, R!NameChecked, R!NameCheckedAgain, R!BucketExists, R!WorkloadExists,
           R!DatabaseValid, R!Start
  <1>3. (R!Click(c) \/ asked' = asked) /\ (R!WorkloadExists(c) \/ body' = body)
    BY DEF R!Click, R!NameChecked, R!NameCheckedAgain, R!BucketExists, R!WorkloadExists,
           R!DatabaseValid, R!Start
  <1>4. /\ \/ rows' = rows
           \/ R!Start(c) /\ rows' = rows \cup {c} /\ unaware' = unaware \cup {{c, d} : d \in R!Past}
        /\ unaware \subseteq unaware' /\ unchecked \subseteq unchecked'
    BY DEF R!Click, R!NameChecked, R!NameCheckedAgain, R!Check, R!BucketExists, R!WorkloadExists,
           R!DatabaseValid, R!Start
  <1>5. at[c] \notin {"answer", "over"} BY ReplayStage
  <1> QED BY <1>1, <1>2, <1>3, <1>4, <1>5

\* So the replays there are stay what they are.
LEMMA RowsStay ==
  ASSUME R!TypeOK, RowsSettled, NEW c \in Clicks, ReplayClick(c)
  PROVE  c \notin rows /\ \A d \in rows : at'[d] = at[d] /\ body'[d] = body[d]
  BY ReplayClickChanges, ReplayParts DEF RowsSettled

\* A reset cuts off those that have yet to read the form.
LEMMA ResetCuts ==
  ASSUME R!TypeOK, ReplayReset
  PROVE  /\ cut \subseteq cut'
         /\ \A c \in Clicks : at'[c] # "over" => at'[c] = at[c]
         /\ \A c \in Clicks : at[c] \in {"answer", "over"} => at'[c] \in {"answer", "over"}
         /\ \A c \in Clicks : at[c] \in {"name again", "bucket", "workload"} => c \in cut'
  BY ReplayParts, ReplayGoes DEF ReplayReset, R!Reset

\* RowsSettled is kept.
LEMMA RowsSettledKept == R!TypeOK /\ RowsSettled /\ R!Next => RowsSettled'
  <1> SUFFICES ASSUME R!TypeOK, RowsSettled, R!Next PROVE RowsSettled'
    OBVIOUS
  <1>1. ASSUME NEW c \in Clicks, ReplayClick(c) PROVE RowsSettled'
    <2>1. \A d \in rows : at'[d] \in {"answer", "over"} BY <1>1, RowsStay DEF RowsSettled
    <2>2. rows' # rows => rows' = rows \cup {c} /\ at'[c] = "answer"
      BY <1>1, ReplayClickChanges, ReplayStage
    <2> QED BY <2>1, <2>2 DEF RowsSettled
  <1>2. CASE ReplayReset BY <1>2, ResetCuts, ReplayParts DEF RowsSettled, ReplayReset
  <1>3. CASE ReplayInput BY <1>3 DEF RowsSettled, ReplayInput
  <1> QED BY <1>1, <1>2, <1>3, ReplayStep

\* AskedIsForm is kept.
LEMMA AskedIsFormKept == R!TypeOK /\ AskedIsForm /\ R!Next => AskedIsForm'
  <1> SUFFICES ASSUME R!TypeOK, AskedIsForm, R!Next, NEW c \in Clicks, c \notin cut',
                      at'[c] \in {"name again", "bucket", "workload"}
               PROVE  page' = 2 /\ asked'[c].name = name' /\ asked'[c].capture = captureId'
    BY DEF AskedIsForm
  <1>0. c \notin cut /\ at[c] \in {"name again", "bucket", "workload"} =>
          page = 2 /\ asked[c].name = name /\ asked[c].capture = captureId
    BY DEF AskedIsForm
  <1>1. CASE ReplayInput BY <1>0, <1>1 DEF ReplayInput
  <1>2. CASE ReplayReset BY <1>2, ResetCuts
  <1>3. ASSUME NEW d \in Clicks, ReplayClick(d), UNCHANGED <<name, captureId, cut>>,
               page' = page \/ page' = 2
        PROVE  page' = 2 /\ asked'[c].name = name' /\ asked'[c].capture = captureId'
    <2>1. CASE c # d BY <1>0, <1>3, <2>1, ReplayClickChanges
    <2>2. CASE c = d /\ R!Click(d)
      <3>1. page' = 2 BY <1>3, <2>2, ReplayStage
      <3>2. asked'[c].name = name /\ asked'[c].capture = captureId BY <2>2, ReplayParts DEF R!Click
      <3> QED BY <1>3, <3>1, <3>2
    <2>3. CASE c = d /\ ~R!Click(d)
      <3>1. asked' = asked BY <1>3, <2>3, ReplayClickChanges
      <3>2. at[c] \in {"name again", "bucket", "workload"} BY <1>3, <2>3, ReplayStage DEF ReplayClick
      <3> QED BY <1>0, <1>3, <3>1, <3>2
    <2> QED BY <2>1, <2>2, <2>3
  <1> QED BY <1>1, <1>2, <1>3, ReplayStep

\* MadeAsAsked is kept.
LEMMA MadeAsAskedKept ==
  R!TypeOK /\ RowsSettled /\ AskedIsForm /\ MadeAsAsked /\ R!Next => MadeAsAsked'
  <1> SUFFICES ASSUME R!TypeOK, RowsSettled, AskedIsForm, MadeAsAsked, R!Next,
                      NEW c \in Clicks, c \notin cut', Made(c)'
               PROVE  body'[c].name = asked'[c].name /\ body'[c].capture = asked'[c].capture
    BY DEF MadeAsAsked
  <1>0. c \notin cut /\ Made(c) => body[c].name = asked[c].name /\ body[c].capture = asked[c].capture
    BY DEF MadeAsAsked
  <1>1. CASE ReplayInput BY <1>0, <1>1 DEF Made, ReplayInput
  <1>2. CASE ReplayReset BY <1>0, <1>2, ResetCuts DEF Made, ReplayReset
  <1>3. ASSUME NEW d \in Clicks, ReplayClick(d), UNCHANGED cut
        PROVE  body'[c].name = asked'[c].name /\ body'[c].capture = asked'[c].capture
    <2>1. CASE c # d BY <1>0, <1>3, <2>1, ReplayClickChanges DEF Made
    <2>2. CASE c = d /\ R!WorkloadExists(d)
      <3>1. asked' = asked /\ at[c] = "workload" BY <2>2, ReplayStage DEF R!WorkloadExists
      <3>2. body'[c].name = name /\ body'[c].capture = captureId
        BY <2>2, ReplayParts DEF R!WorkloadExists
      <3> QED BY <1>3, <3>1, <3>2 DEF AskedIsForm
    <2>3. CASE c = d /\ ~R!WorkloadExists(d)
      <3>1. Made(c) /\ ~R!Click(d)
        BY <1>3, <2>3, ReplayStage, RowsStay, ReplayClickChanges DEF Made, ReplayClick
      <3> QED BY <1>0, <1>3, <2>3, <3>1, ReplayClickChanges
    <2> QED BY <2>1, <2>2, <2>3
  <1> QED BY <1>1, <1>2, <1>3, ReplayStep

\* FoundFree is kept: what a replay's insertion takes from the clicks that have
\* been told their name is free, it makes them unaware of.
LEMMA FoundFreeKept == R!TypeOK /\ RowsSettled /\ FoundFree /\ R!Next => FoundFree'
  <1> SUFFICES ASSUME R!TypeOK, RowsSettled, FoundFree, R!Next,
                      NEW c \in Clicks, NEW r \in rows', c \notin unchecked', c \notin cut', Checked(c)'
               PROVE  \/ {c, r} \in unaware'
                      \/ body'[r].name # asked'[c].name \/ body'[r].capture # asked'[c].capture
    BY DEF FoundFree
  <1>0. c \notin unchecked /\ c \notin cut /\ r \in rows /\ Checked(c) =>
          \/ {c, r} \in unaware
          \/ body[r].name # asked[c].name \/ body[r].capture # asked[c].capture
    BY DEF FoundFree
  <1>1. CASE ReplayInput BY <1>0, <1>1 DEF Checked, ReplayInput
  <1>2. CASE ReplayReset BY <1>0, <1>2, ResetCuts DEF Checked, ReplayReset
  <1>3. ASSUME NEW d \in Clicks, ReplayClick(d), UNCHANGED cut
        PROVE  \/ {c, r} \in unaware'
               \/ body'[r].name # asked'[c].name \/ body'[r].capture # asked'[c].capture
    <2>0. c \notin unchecked /\ c \notin cut /\ unaware \subseteq unaware'
      BY <1>3, ReplayClickChanges
    <2>1. CASE r \notin rows
      <3>1. R!Start(d) /\ r = d /\ unaware' = unaware \cup {{d, e} : e \in R!Past} /\ at[d] = "start"
        BY <1>3, <2>1, ReplayClickChanges, ReplayStage, ZenonT(40)
      <3>2. c \in R!Past BY <1>3, <3>1, ReplayClickChanges DEF Checked, R!Past
      <3> QED BY <3>1, <3>2
    <2>2. CASE r \in rows
      <3>1. body'[r] = body[r] BY <1>3, <2>2, RowsStay
      <3>2. CASE c # d BY <1>0, <1>3, <2>0, <2>2, <3>1, <3>2, ReplayClickChanges DEF Checked
      <3>3. CASE c = d /\ Checked(c)
        <4>1. asked' = asked BY <1>3, <3>3, ReplayClickChanges, ReplayStage DEF Checked
        <4> QED BY <1>0, <2>0, <2>2, <3>1, <3>3, <4>1
      <3>4. CASE c = d /\ ~Checked(c)
        <4>1. R!NameCheckedAgain(d) BY <1>3, <3>4, ReplayStage DEF Checked, ReplayClick
        <4>2. asked' = asked /\ ~R!Taken(asked[c])
          BY <3>4, <4>1, ReplayStage DEF R!NameCheckedAgain, Checked
        <4> QED BY <2>2, <3>1, <4>2 DEF R!Taken
      <3> QED BY <3>2, <3>3, <3>4
    <2> QED BY <2>1, <2>2
  <1> QED BY <1>1, <1>2, <1>3, ReplayStep

\* NamesDistinct is kept: the replay that is inserted was found free.
LEMMA NamesDistinctKept == ReplayInv /\ R!Next => R!NamesDistinct'
  <1> SUFFICES ASSUME ReplayInv, R!Next, NEW c \in rows', NEW d \in rows', c # d,
                      body'[c].name = body'[d].name, body'[c].capture = body'[d].capture
               PROVE  {c, d} \in unaware' \/ {c, d} \cap (unchecked' \cup cut') # {}
    BY DEF R!NamesDistinct
  <1> USE DEF ReplayInv
  <1>0. c \in rows /\ d \in rows /\ body[c].name = body[d].name /\ body[c].capture = body[d].capture
          => {c, d} \in unaware \/ {c, d} \cap (unchecked \cup cut) # {}
    BY DEF R!NamesDistinct
  <1>1. CASE ReplayInput BY <1>0, <1>1 DEF ReplayInput
  <1>2. CASE ReplayReset BY <1>0, <1>2, ResetCuts DEF ReplayReset
  <1>3. ASSUME NEW e \in Clicks, ReplayClick(e), UNCHANGED cut
        PROVE  {c, d} \in unaware' \/ {c, d} \cap (unchecked' \cup cut') # {}
    <2>0. /\ \A r \in rows : r # e /\ body'[r] = body[r]
          /\ unaware \subseteq unaware' /\ unchecked \subseteq unchecked'
      BY <1>3, RowsStay, ReplayClickChanges
    <2>1. CASE c \in rows /\ d \in rows BY <1>0, <1>3, <2>0, <2>1
    <2>2. CASE rows' # rows
      <3>1. R!Start(e) /\ at[e] = "start" /\ body' = body /\ rows' = rows \cup {e}
        BY <1>3, <2>2, ReplayClickChanges, ReplayStage DEF R!Start
      <3>2. \A r \in rows : body[r].name = body[e].name /\ body[r].capture = body[e].capture =>
              {e, r} \in unaware \/ e \in unchecked \/ e \in cut
        BY <3>1 DEF MadeAsAsked, FoundFree, Made, Checked
      <3>3. CASE c = e /\ d \in rows BY <1>3, <2>0, <3>1, <3>2, <3>3
      <3>4. CASE d = e /\ c \in rows
        <4>1. {c, d} = {e, c} BY <3>4
        <4> QED BY <1>3, <2>0, <3>1, <3>2, <3>4, <4>1
      <3> QED BY <2>1, <3>1, <3>3, <3>4
    <2> QED BY <2>1, <2>2
  <1> QED BY <1>1, <1>2, <1>3, ReplayStep

\* The invariant of a replay's wizard is one.
LEMMA ReplayInit == R!Init => ReplayInv
  <1> SUFFICES ASSUME R!Init PROVE ReplayInv
    OBVIOUS
  <1>1. R!TypeOK
    <2>1. [name |-> R!Empty, capture |-> R!Empty] \in R!Named BY DEF R!Named
    <2>2. [name |-> R!Empty, capture |-> R!Empty, db |-> FALSE] \in R!Body BY DEF R!Body
    <2>3. failures \in 0..MaxFailures BY Bounds DEF R!Init
    <2>4. asked \in [Clicks -> R!Named] /\ body \in [Clicks -> R!Body] BY <2>1, <2>2 DEF R!Init
    <2>5. at \in [Clicks -> ReplayStages] BY DEF R!Init, ReplayStages
    <2> QED BY <2>3, <2>4, <2>5, ReplayParts DEF R!Init
  <1>2. rows = {} /\ \A c \in Clicks : at[c] = "idle" BY DEF R!Init
  <1> QED BY <1>1, <1>2 DEF ReplayInv, RowsSettled, AskedIsForm, MadeAsAsked, FoundFree,
                            R!NamesDistinct, Made, Checked
LEMMA ReplayStutter == ReplayInv /\ UNCHANGED R!rvars => ReplayInv'
  <1> SUFFICES ASSUME ReplayInv, UNCHANGED R!rvars PROVE ReplayInv'
    OBVIOUS
  <1> USE DEF R!rvars, R!form, R!clicks, R!history, ReplayInv
  <1>1. R!TypeOK' BY DEF R!TypeOK
  <1>2. RowsSettled' /\ AskedIsForm' BY DEF RowsSettled, AskedIsForm
  <1>3. MadeAsAsked' BY DEF MadeAsAsked, Made
  <1>4. FoundFree' BY DEF FoundFree, Checked
  <1>5. R!NamesDistinct' BY DEF R!NamesDistinct
  <1> QED BY <1>1, <1>2, <1>3, <1>4, <1>5
LEMMA ReplayKept == ReplayInv /\ [R!Next]_(R!rvars) => ReplayInv'
  <1>1. ReplayInv /\ R!Next => ReplayInv'
    BY ReplayTyped, RowsSettledKept, AskedIsFormKept, MadeAsAskedKept, FoundFreeKept,
       NamesDistinctKept
    DEF ReplayInv
  <1> QED BY <1>1, ReplayStutter

-----------------------------------------------------------------------------
(* The wizard of a capture                                                  *)

Validating(c) == at[c] \in {"database", "database and on"}
Pushed        == {"post", "answer", "over"}
PastPush(c)   == at[c] \in Pushed
Excused(c, d) == clickedIn[c] # clickedIn[d] \/ {c, d} \in together

NotLater == \A c \in Clicks : clickedIn[c] <= opening

\* The selection is of a database that is still there to select.
CurrentThere == current.db \in dbRefs \cup {C!Empty}

\* What was pushed by a click of this opening is not there to select any more.
PushedGone ==
  \A i \in DOMAIN replays : clickedIn[replays[i].by] = opening => replays[i].db \notin dbRefs

\* A click pushes one replay, and is past that; so are those of what is sent.
PushedOver ==
  /\ \A i \in DOMAIN replays : PastPush(replays[i].by)
  /\ \A c \in Clicks : \A i \in DOMAIN body[c].replays : PastPush(body[c].replays[i].by)

\* Two clicks that wait for their databases were both waiting when the second was made.
WaitTogether ==
  \A c, d \in Clicks : c # d /\ Validating(c) /\ Validating(d) => {c, d} \in together

\* What a click is about to push is new in its opening, or was validated meanwhile.
NewHere ==
  \A c \in Clicks : Validating(c) /\ asked[c].selection.db # C!Empty =>
    \A i \in DOMAIN replays : replays[i].db = asked[c].selection.db => Excused(c, replays[i].by)

\* No database is twice in the list without an excuse.
DistinctHere ==
  \A i, j \in DOMAIN replays :
    i # j /\ replays[i].db = replays[j].db => Excused(replays[i].by, replays[j].by)

CaptureInv ==
  C!TypeOK /\ NotLater /\ CurrentThere /\ PushedGone /\ PushedOver /\ WaitTogether /\ NewHere
  /\ DistinctHere /\ C!DistinctDatabases

\* The types of a capture's wizard, in parts.
CaptureStages == {"idle", "name", "bucket", "database", "database and on", "post", "answer", "over"}
Asking        == [name : CaptureNames \cup {C!Empty}, selection : C!Objects]
Sending       == [name : CaptureNames \cup {C!Empty}, replays : Seq(C!Entries)]
LEMMA CaptureParts ==
  C!TypeOK <=>
    /\ step \in Nat \ {0} /\ disabled \in BOOLEAN /\ concurrent \in BOOLEAN /\ failed \in BOOLEAN
    /\ captureName \in CaptureNames \cup {C!Empty} /\ mimicName \in ReplayNames \cup {C!Empty}
    /\ current \in C!Objects /\ dbRefs \subseteq Databases
    /\ replays \in Seq(C!Entries) /\ picks \in 0..MaxPicks /\ opening \in Nat
    /\ at \in [Clicks -> CaptureStages] /\ asked \in [Clicks -> Asking] /\ body \in [Clicks -> Sending]
    /\ started \subseteq CaptureNames /\ failures \in 0..MaxFailures
    /\ clickedIn \in [Clicks -> Nat] /\ together \subseteq SUBSET Clicks
  BY DEF C!TypeOK, CaptureStages, Asking, Sending

\* The list with a replay pushed: the others keep their databases and clicks.
LEMMA PushedIs ==
  ASSUME C!TypeOK, NEW c \in Clicks, asked[c].selection.db # C!Empty
  PROVE  /\ C!Pushed(c) \in Seq(C!Entries)
         /\ DOMAIN replays = 1..Len(replays) /\ Len(replays) \in Nat
         /\ DOMAIN C!Pushed(c) = 1..(Len(replays) + 1)
         /\ \A i \in DOMAIN replays :
              C!Pushed(c)[i].db = replays[i].db /\ C!Pushed(c)[i].by = replays[i].by
         /\ C!Pushed(c)[Len(replays) + 1].db = asked[c].selection.db
         /\ C!Pushed(c)[Len(replays) + 1].by = c
  <1> DEFINE o == asked[c].selection
             last == [object |-> o.object, db |-> o.db, name |-> mimicName, by |-> c]
             Named2(e) == IF e.object = o.object THEN [e EXCEPT !.name = mimicName] ELSE e
             before == [i \in DOMAIN replays |-> Named2(replays[i])]
  <1>1. o \in C!Objects /\ o.object \in 0..MaxPicks /\ o.db \in Databases
    BY CaptureParts DEF Asking, C!Objects
  <1>2. last \in C!Entries BY <1>1, CaptureParts DEF C!Entries
  <1>3. \A e \in C!Entries : Named2(e) \in C!Entries /\ Named2(e).db = e.db /\ Named2(e).by = e.by
    BY CaptureParts DEF C!Entries
  <1>4. /\ DOMAIN replays = 1..Len(replays) /\ Len(replays) \in Nat
        /\ \A i \in 1..Len(replays) : replays[i] \in C!Entries
    BY CaptureParts
  <1>5. /\ before \in Seq(C!Entries) /\ Len(before) = Len(replays)
        /\ \A i \in 1..Len(replays) : before[i].db = replays[i].db /\ before[i].by = replays[i].by
    BY <1>3, <1>4
  <1>6. C!Pushed(c) = Append(before, last) BY DEF C!Pushed
  <1> HIDE DEF before, last, Named2
  <1>7. /\ Append(before, last) \in Seq(C!Entries)
        /\ DOMAIN Append(before, last) = 1..(Len(replays) + 1)
        /\ \A i \in 1..Len(replays) : Append(before, last)[i] = before[i]
        /\ Append(before, last)[Len(replays) + 1] = last
    BY <1>2, <1>4, <1>5
  <1>8. last.db = o.db /\ last.by = c BY DEF last
  <1> QED BY <1>4, <1>5, <1>6, <1>7, <1>8

LEMMA CaptureGoes ==
  ASSUME C!TypeOK, NEW c \in Clicks, NEW from, NEW to \in CaptureStages, C!Go(c, from, to)
  PROVE  /\ at[c] = from /\ at' \in [Clicks -> CaptureStages]
         /\ \A d \in Clicks : at'[d] = IF d = c THEN to ELSE at[d]
  BY CaptureParts DEF C!Go

LEMMA CaptureTyped == C!TypeOK /\ C!Next => C!TypeOK'
  <1> SUFFICES ASSUME C!TypeOK, C!Next PROVE C!TypeOK'
    OBVIOUS
  <1> DEFINE Typed ==
        /\ step' \in Nat \ {0} /\ disabled' \in BOOLEAN /\ concurrent' \in BOOLEAN /\ failed' \in BOOLEAN
        /\ captureName' \in CaptureNames \cup {C!Empty} /\ mimicName' \in ReplayNames \cup {C!Empty}
        /\ current' \in C!Objects /\ dbRefs' \subseteq Databases
        /\ replays' \in Seq(C!Entries) /\ picks' \in 0..MaxPicks /\ opening' \in Nat
        /\ at' \in [Clicks -> CaptureStages] /\ asked' \in [Clicks -> Asking]
        /\ body' \in [Clicks -> Sending]
        /\ started' \subseteq CaptureNames /\ failures' \in 0..MaxFailures
        /\ clickedIn' \in [Clicks -> Nat] /\ together' \subseteq SUBSET Clicks
  <1> SUFFICES Typed
    <2> SUFFICES ASSUME Typed PROVE C!TypeOK'
      OBVIOUS
    <2>1. {disabled, concurrent, failed}' \subseteq BOOLEAN OBVIOUS
    <2> QED BY <2>1 DEF C!TypeOK, CaptureStages, Asking, Sending
  <1>w. ASSUME NEW c \in Clicks, NEW W \in SUBSET Clicks
        PROVE  {{c, d} : d \in W} \subseteq SUBSET Clicks
    OBVIOUS
  <1>s. /\ step \in Nat \ {0} /\ step + 1 \in Nat \ {0} /\ 2 \in Nat \ {0}
        /\ disabled \in BOOLEAN
    BY CaptureParts
  <1> USE CaptureParts DEF C!form, C!clicks, C!service
  <1>f. C!Fail => failures' \in 0..MaxFailures BY Bounds DEF C!Fail
  <1>n. C!NoDb \in C!Objects BY Bounds DEF C!NoDb, C!Objects
  <1>r. C!Reset => /\ step' \in Nat \ {0} /\ disabled' \in BOOLEAN /\ concurrent' \in BOOLEAN
                   /\ failed' \in BOOLEAN /\ captureName' \in CaptureNames \cup {C!Empty}
                   /\ mimicName' \in ReplayNames \cup {C!Empty} /\ current' \in C!Objects
                   /\ dbRefs' \subseteq Databases /\ opening' \in Nat
    <2> SUFFICES ASSUME C!Reset
                 PROVE  /\ step' \in Nat \ {0} /\ disabled' \in BOOLEAN /\ concurrent' \in BOOLEAN
                        /\ failed' \in BOOLEAN /\ captureName' \in CaptureNames \cup {C!Empty}
                        /\ mimicName' \in ReplayNames \cup {C!Empty} /\ current' \in C!Objects
                        /\ dbRefs' \subseteq Databases /\ opening' \in Nat
      OBVIOUS
    <2>1. step' \in Nat \ {0} /\ opening' \in Nat BY DEF C!Reset
    <2>2. current' \in C!Objects BY <1>n DEF C!Reset
    <2> QED BY <2>1, <2>2 DEF C!Reset
  <1>1. CASE C!ChooseConcurrent BY <1>1 DEF C!ChooseConcurrent
  <1>2. CASE C!Cancel BY <1>2, <1>f, <1>r DEF C!Cancel
  <1>3. CASE \E n \in CaptureNames \cup {C!Empty} : C!TypeName(n) BY <1>3, ZenonT(40) DEF C!TypeName
  <1>4. CASE \E n \in ReplayNames \cup {C!Empty} : C!TypeMimicName(n) BY <1>4 DEF C!TypeMimicName
  <1>5. ASSUME NEW d \in Databases \cup {C!Empty}, C!Select(d) PROVE Typed
    <2>1. picks' \in 0..MaxPicks BY <1>5, Bounds DEF C!Select
    <2>2. current' \in C!Objects BY <1>5, <1>n, <2>1 DEF C!Select, C!Option, C!Objects
    <2> QED BY <1>5, <2>1, <2>2 DEF C!Select
  <1>6. ASSUME NEW c \in Clicks, C!Click(c) PROVE Typed
    <2>1. at' \in [Clicks -> CaptureStages] BY <1>6, CaptureGoes DEF C!Click, CaptureStages
    <2>2. [asked[c] EXCEPT !.name = captureName] \in Asking BY DEF Asking
    <2>3. asked' = [asked EXCEPT ![c] = [asked[c] EXCEPT !.name = captureName]] BY <1>6 DEF C!Click
    <2>4. asked' \in [Clicks -> Asking] BY <2>2, <2>3
    <2> QED BY <1>6, <2>1, <2>4 DEF C!Click
  <1>7. ASSUME NEW c \in Clicks, C!NameChecked(c) PROVE Typed
    <2>1. at' \in [Clicks -> CaptureStages] BY <1>7, CaptureGoes DEF C!NameChecked, CaptureStages
    <2>2. failures' \in 0..MaxFailures /\ failed' \in BOOLEAN BY <1>7, <1>f DEF C!NameChecked
    <2> QED BY <1>7, <2>1, <2>2 DEF C!NameChecked
  <1>8. ASSUME NEW c \in Clicks, C!BucketExists(c) PROVE Typed
    <2>1. at' \in [Clicks -> CaptureStages] BY <1>8, CaptureGoes DEF C!BucketExists, CaptureStages
    <2>2. [name |-> captureName, replays |-> <<>>] \in Sending BY DEF Sending
    <2>a. (step' = 2 /\ disabled' = TRUE) \/ (step' = step /\ disabled' = disabled)
      BY <1>8 DEF C!BucketExists
    <2>3. step' \in Nat \ {0} /\ disabled' \in BOOLEAN BY ONLY <1>s, <2>a
    <2>4. body' = body \/ body' = [body EXCEPT ![c] = [name |-> captureName, replays |-> <<>>]]
      BY <1>8 DEF C!BucketExists
    <2>5. body' \in [Clicks -> Sending] BY <2>2, <2>4
    <2> QED BY <1>8, <2>1, <2>3, <2>5 DEF C!BucketExists
  <1>9. ASSUME NEW c \in Clicks, C!Refuse(c) PROVE Typed
    <2>1. at' \in [Clicks -> CaptureStages] BY <1>9, CaptureGoes DEF C!Refuse, CaptureStages
    <2> QED BY <1>9, <2>1 DEF C!Refuse
  <1>10. ASSUME NEW c \in Clicks, NEW next \in {"database", "database and on"}, C!ClickReplay(c, next)
         PROVE  Typed
    <2>0. C!Go(c, "idle", "over") \/ C!Go(c, "idle", next) BY <1>10 DEF C!ClickReplay
    <2>z. next \in CaptureStages /\ "over" \in CaptureStages BY DEF CaptureStages
    <2>1. at' \in [Clicks -> CaptureStages] BY <2>0, <2>z, CaptureGoes
    <2>y. asked[c] \in Asking /\ current \in C!Objects OBVIOUS
    <2>a. [asked[c] EXCEPT !.selection = current] \in Asking BY <2>y DEF Asking
    <2>b. asked' = [asked EXCEPT ![c] = [asked[c] EXCEPT !.selection = current]]
      BY <1>10 DEF C!ClickReplay
    <2>2. asked' \in [Clicks -> Asking] BY <2>a, <2>b
    <2>d. \E W \in SUBSET Clicks : together' = together \cup {{c, d} : d \in W}
      BY <1>10 DEF C!ClickReplay
    <2>3. together' \subseteq SUBSET Clicks BY <1>w, <2>d
    <2>4. failed' \in BOOLEAN /\ clickedIn' \in [Clicks -> Nat] BY <1>10 DEF C!ClickReplay
    <2>5. UNCHANGED <<step, disabled, captureName, concurrent, mimicName, current, dbRefs, replays,
                      picks, opening, body, started, failures>>
      BY <1>10 DEF C!ClickReplay
    <2> QED BY <2>1, <2>2, <2>3, <2>4, <2>5
  <1>11. ASSUME NEW c \in Clicks, C!DatabaseInvalid(c) PROVE Typed
    <2>1. at' \in [Clicks -> CaptureStages] BY <1>11, CaptureGoes DEF C!DatabaseInvalid, CaptureStages
    <2>2. failures' \in 0..MaxFailures /\ failed' \in BOOLEAN BY <1>11, <1>f DEF C!DatabaseInvalid
    <2> QED BY <1>11, <2>1, <2>2 DEF C!DatabaseInvalid
  <1>12. ASSUME NEW c \in Clicks, C!DatabaseValid(c) PROVE Typed
    <2>1. at' \in [Clicks -> CaptureStages] BY <1>12, CaptureGoes DEF C!DatabaseValid, CaptureStages
    <2>2. replays' \in Seq(C!Entries) BY <1>12, PushedIs DEF C!DatabaseValid
    <2>3. [name |-> captureName, replays |-> replays'] \in Sending BY <2>2 DEF Sending
    <2>d. (step' = step + 1 /\ disabled' = TRUE) \/ (step' = step /\ disabled' = disabled)
      BY <1>12 DEF C!DatabaseValid
    <2>a. step' \in Nat \ {0} /\ disabled' \in BOOLEAN BY ONLY <1>s, <2>d
    <2>b. body' = body \/ body' = [body EXCEPT ![c] = [name |-> captureName, replays |-> replays']]
      BY <1>12 DEF C!DatabaseValid
    <2>c. body' \in [Clicks -> Sending] BY <2>3, <2>b
    <2>4. step' \in Nat \ {0} /\ disabled' \in BOOLEAN /\ body' \in [Clicks -> Sending]
      BY <2>a, <2>c
    <2>5. current' \in C!Objects /\ dbRefs' \subseteq Databases /\ mimicName' = C!Empty
      BY <1>12, <1>n DEF C!DatabaseValid
    <2>6. UNCHANGED <<captureName, concurrent, failed, picks, opening, asked, started, failures,
                      clickedIn, together>>
      BY <1>12 DEF C!DatabaseValid
    <2> QED BY <2>1, <2>2, <2>4, <2>5, <2>6
  <1>13. ASSUME NEW c \in Clicks, C!Post(c) PROVE Typed
    <2>1. at' \in [Clicks -> CaptureStages] BY <1>13, CaptureGoes DEF C!Post, CaptureStages
    <2>2. body[c].name \in CaptureNames \cup {C!Empty} BY DEF Sending
    <2>3. started' \subseteq CaptureNames BY <1>13, <2>2 DEF C!Post, C!Accepted
    <2>4. failures' \in 0..MaxFailures /\ failed' \in BOOLEAN BY <1>13, <1>f DEF C!Post
    <2> QED BY <1>13, <2>1, <2>3, <2>4 DEF C!Post
  <1>14. ASSUME NEW c \in Clicks, C!Started(c) PROVE Typed
    <2>1. at' \in [Clicks -> CaptureStages] BY <1>14, CaptureGoes DEF C!Started, CaptureStages
    <2>2. C!Reset \/ UNCHANGED <<C!form, opening>> BY <1>14 DEF C!Started
    <2>3. UNCHANGED <<replays, picks, asked, body, started, failures, clickedIn, together>>
      BY <1>14 DEF C!Started
    <2>4. CASE C!Reset BY <1>r, <2>1, <2>3, <2>4
    <2> QED BY <2>1, <2>2, <2>3, <2>4
  <1> QED
    BY <1>1, <1>2, <1>3, <1>4, <1>5, <1>6, <1>7, <1>8, <1>9, <1>10, <1>11, <1>12, <1>13, <1>14
    DEF C!Next

\* What is entered in the form, answered, or ended by a reset, leaves alone what
\* has been pushed and asked for.
CaptureQuiet ==
  /\ UNCHANGED <<replays, asked, clickedIn, together>>
  /\ \A c \in Clicks : PastPush(c) => PastPush(c)'
  /\ \A c \in Clicks : Validating(c)' => Validating(c)
  /\ UNCHANGED <<opening, dbRefs>> \/ opening' = opening + 1
  /\ (current' = current /\ dbRefs' = dbRefs) \/ current'.db \in dbRefs' \cup {C!Empty}
  /\ \A c \in Clicks : body'[c].replays = body[c].replays \/ body'[c].replays = <<>>

\* The requests of a click, but for the one that pushes its replay.
CaptureAnswer(c) ==
  C!NameChecked(c) \/ C!BucketExists(c) \/ C!Refuse(c) \/ C!DatabaseInvalid(c) \/ C!Post(c)
  \/ C!Started(c)
LEMMA CaptureAnswerGoes ==
  ASSUME C!TypeOK, NEW c \in Clicks, CaptureAnswer(c)
  PROVE  /\ \A d \in Clicks : PastPush(d) => PastPush(d)'
         /\ \A d \in Clicks : Validating(d)' => Validating(d)
  <1> DEFINE Goes(from, to) == C!Go(c, from, to)
  <1>1. \/ Goes("name", "over") \/ Goes("name", "bucket") \/ Goes("bucket", "over")
        \/ Goes("bucket", "post") \/ Goes("database", "over") \/ Goes("database and on", "over")
        \/ Goes("post", "answer") \/ Goes("post", "over") \/ Goes("answer", "over")
    BY DEF CaptureAnswer, C!NameChecked, C!BucketExists, C!Refuse, C!DatabaseInvalid, C!Post, C!Started
  <1> HIDE DEF Goes
  <1>2. ASSUME NEW from \in CaptureStages, NEW to \in CaptureStages, Goes(from, to),
               to \notin {"database", "database and on"},
               from \in {"post", "answer", "over"} => to \in {"post", "answer", "over"}
        PROVE  /\ \A d \in Clicks : PastPush(d) => PastPush(d)'
               /\ \A d \in Clicks : Validating(d)' => Validating(d)
    BY <1>2, CaptureGoes DEF PastPush, Pushed, Validating, Goes
  <1> QED BY <1>1, <1>2 DEF CaptureStages

LEMMA BodySet ==
  ASSUME C!TypeOK, NEW c \in Clicks, NEW n, NEW q,
         body' = [body EXCEPT ![c] = [name |-> n, replays |-> q]]
  PROVE  \A d \in Clicks : body'[d].replays = body[d].replays \/ body'[d].replays = q
  <1>1. body \in [Clicks -> Sending] BY CaptureParts
  <1>2. body'[c] = [name |-> n, replays |-> q] BY <1>1
  <1>3. body'[c].replays = q BY <1>2
  <1>4. \A d \in Clicks : d # c => body'[d] = body[d] BY <1>1
  <1> QED BY <1>3, <1>4

LEMMA CaptureStep ==
  ASSUME C!TypeOK, C!Next
  PROVE  \/ CaptureQuiet
         \/ \E c \in Clicks : C!Click(c) \/ C!DatabaseValid(c) \/ \E next \in {"database", "database and on"} : C!ClickReplay(c, next)
  <1> USE DEF C!form, C!clicks, C!service
  <1>1. ASSUME UNCHANGED <<opening, current, dbRefs, replays, at, asked, body, clickedIn, together>>
        PROVE  CaptureQuiet
    BY <1>1 DEF CaptureQuiet, PastPush, Validating
  <1>2. CASE C!ChooseConcurrent BY <1>1, <1>2 DEF C!ChooseConcurrent
  <1>3. CASE \E n \in CaptureNames \cup {C!Empty} : C!TypeName(n) BY <1>1, <1>3 DEF C!TypeName
  <1>4. CASE \E n \in ReplayNames \cup {C!Empty} : C!TypeMimicName(n)
    BY <1>1, <1>4 DEF C!TypeMimicName
  <1>5. CASE \E d \in Databases \cup {C!Empty} : C!Select(d)
    <2>1. PICK d \in Databases \cup {C!Empty} : C!Select(d) BY <1>5
    <2>2. current' = C!Option(d) /\ d \in dbRefs \cup {C!Empty} BY <2>1 DEF C!Select, C!Options
    <2>3. current'.db = d BY <2>2 DEF C!Option, C!NoDb
    <2>4. UNCHANGED <<opening, dbRefs, replays, at, asked, body, clickedIn, together>>
      BY <2>1 DEF C!Select
    <2> QED BY <2>2, <2>3, <2>4 DEF CaptureQuiet, PastPush, Validating
  <1>6. C!Reset => opening' = opening + 1 /\ current'.db = C!Empty BY DEF C!Reset, C!NoDb
  <1>7. CASE C!Cancel BY <1>6, <1>7 DEF C!Cancel, CaptureQuiet, PastPush, Validating
  <1>8. ASSUME NEW c \in Clicks, CaptureAnswer(c) PROVE CaptureQuiet
    <2>1. UNCHANGED <<replays, asked, clickedIn, together>>
      BY <1>8
      DEF CaptureAnswer, C!NameChecked, C!BucketExists, C!Refuse, C!DatabaseInvalid, C!Post, C!Started
    <2>2. \A d \in Clicks : body'[d].replays = body[d].replays \/ body'[d].replays = <<>>
      <3>1. CASE C!BucketExists(c)
        <4>1. body' = body \/ body' = [body EXCEPT ![c] = [name |-> captureName, replays |-> <<>>]]
          BY <3>1 DEF C!BucketExists
        <4> QED BY <4>1, BodySet
      <3>2. CASE ~C!BucketExists(c)
        BY <1>8, <3>2 DEF CaptureAnswer, C!NameChecked, C!Refuse, C!DatabaseInvalid, C!Post, C!Started
      <3> QED BY <3>1, <3>2
    <2>3. \/ C!Started(c) /\ C!Reset
          \/ UNCHANGED <<opening, current, dbRefs>>
      BY <1>8
      DEF CaptureAnswer, C!NameChecked, C!BucketExists, C!Refuse, C!DatabaseInvalid, C!Post, C!Started
    <2> QED BY <1>6, <1>8, <2>1, <2>2, <2>3, CaptureAnswerGoes DEF CaptureQuiet
  <1> QED BY <1>2, <1>3, <1>4, <1>5, <1>7, <1>8 DEF C!Next, CaptureAnswer

\* A click is made once, and that is all that changes with it.
LEMMA CaptureClicked ==
  ASSUME C!TypeOK, NEW c \in Clicks, NEW next \in {"database", "database and on"},
         C!Click(c) \/ C!ClickReplay(c, next)
  PROVE  /\ at[c] = "idle" /\ UNCHANGED <<opening, current, dbRefs, replays, body>>
         /\ \A d \in Clicks : d # c => at'[d] = at[d] /\ asked'[d] = asked[d]
                                       /\ clickedIn'[d] = clickedIn[d]
         /\ clickedIn'[c] = opening
         /\ together \subseteq together'
         /\ Validating(c)' => /\ asked'[c].selection = current
                              /\ \A d \in Clicks : Validating(d) => {c, d} \in together'
  <1> USE CaptureParts DEF C!form, C!clicks, C!service
  <1>1. CASE C!Click(c)
    <2>1. at[c] = "idle" /\ \A d \in Clicks : at'[d] = IF d = c THEN "name" ELSE at[d]
      BY <1>1, CaptureGoes, ZenonT(40) DEF C!Click, CaptureStages
    <2>2. \A d \in Clicks : d # c => asked'[d] = asked[d] BY <1>1 DEF C!Click
    <2>3. clickedIn' = [clickedIn EXCEPT ![c] = opening] BY <1>1 DEF C!Click
    <2>4. UNCHANGED <<opening, current, dbRefs, replays, body, together>> BY <1>1 DEF C!Click
    <2>5. ~Validating(c)' BY <2>1 DEF Validating
    <2> QED BY <2>1, <2>2, <2>3, <2>4, <2>5
  <1>2. CASE C!ClickReplay(c, next)
    <2>0. C!Go(c, "idle", "over") \/ C!Go(c, "idle", next) BY <1>2 DEF C!ClickReplay
    <2>1. at[c] = "idle" /\ \A d \in Clicks : d # c => at'[d] = at[d] BY <2>0 DEF C!Go
    <2>2. asked' = [asked EXCEPT ![c] = [asked[c] EXCEPT !.selection = current]]
      BY <1>2 DEF C!ClickReplay
    <2>3. clickedIn' = [clickedIn EXCEPT ![c] = opening] BY <1>2 DEF C!ClickReplay
    <2>4. UNCHANGED <<opening, current, dbRefs, replays, body>> BY <1>2 DEF C!ClickReplay
    <2>5. asked[c] \in Asking OBVIOUS
    <2>6. asked'[c].selection = current BY <2>2, <2>5 DEF Asking
    <2>7. together \subseteq together' /\ \A d \in Clicks : Validating(d) => {c, d} \in together'
      BY <1>2 DEF C!ClickReplay, Validating
    <2> QED BY <2>1, <2>2, <2>3, <2>4, <2>6, <2>7
  <1> QED BY <1>1, <1>2

\* Who pushes a replay does it once.
LEMMA CapturePushes ==
  ASSUME C!TypeOK, NEW c \in Clicks, C!DatabaseValid(c)
  PROVE  /\ Validating(c) /\ PastPush(c)' /\ \A d \in Clicks : d # c => at'[d] = at[d]
         /\ asked[c].selection.db # C!Empty /\ replays' = C!Pushed(c)
         /\ current'.db = C!Empty /\ dbRefs' = dbRefs \ {asked[c].selection.db}
         /\ UNCHANGED <<opening, asked, clickedIn, together>>
         /\ \A d \in Clicks : body'[d].replays = body[d].replays \/ body'[d].replays = replays'
  <1> USE CaptureParts
  <1>1. \/ C!Go(c, "database", "over") \/ C!Go(c, "database and on", "over") \/ C!Go(c, "database", "post")
    BY DEF C!DatabaseValid
  <1>2. Validating(c) /\ PastPush(c)' /\ \A d \in Clicks : d # c => at'[d] = at[d]
    BY <1>1 DEF C!Go, Validating, PastPush, Pushed
  <1>3. /\ asked[c].selection.db # C!Empty /\ replays' = C!Pushed(c)
        /\ current'.db = C!Empty /\ dbRefs' = dbRefs \ {asked[c].selection.db}
        /\ UNCHANGED <<opening, asked, clickedIn, together>>
    BY DEF C!DatabaseValid, C!NoDb
  <1>4. body' = body \/ body' = [body EXCEPT ![c] = [name |-> captureName, replays |-> replays']]
    BY DEF C!DatabaseValid
  <1>5. \A d \in Clicks : body'[d].replays = body[d].replays \/ body'[d].replays = replays'
    BY <1>4, BodySet
  <1> QED BY <1>2, <1>3, <1>5

\* The clicks of what was pushed are clicks.
LEMMA CaptureBy ==
  ASSUME C!TypeOK
  PROVE  /\ \A i \in DOMAIN replays : replays[i].by \in Clicks /\ replays[i].db \in Databases
         /\ \A c \in Clicks : \A i \in DOMAIN body[c].replays :
              body[c].replays[i].by \in Clicks /\ body[c].replays[i].db \in Databases
  <1>0. \A q \in Seq(C!Entries) : \A i \in DOMAIN q : q[i] \in C!Entries
    OBVIOUS
  <1>e. \A e \in C!Entries : e.by \in Clicks /\ e.db \in Databases BY DEF C!Entries
  <1>1. \A q \in Seq(C!Entries) : \A i \in DOMAIN q : q[i].by \in Clicks /\ q[i].db \in Databases
    BY <1>0, <1>e
  <1>2. replays \in Seq(C!Entries) /\ \A c \in Clicks : body[c].replays \in Seq(C!Entries)
    BY CaptureParts DEF Sending
  <1> QED BY <1>1, <1>2

LEMMA CaptureQuietKeeps == CaptureInv /\ C!TypeOK' /\ CaptureQuiet => CaptureInv'
  <1> SUFFICES ASSUME CaptureInv, C!TypeOK', CaptureQuiet PROVE CaptureInv'
    OBVIOUS
  <1> USE DEF CaptureInv
  <1>0. UNCHANGED <<replays, asked, clickedIn, together>> BY DEF CaptureQuiet
  <1>1. NotLater'
    <2>1. opening' = opening \/ opening' = opening + 1 BY DEF CaptureQuiet
    <2> QED BY <1>0, <2>1, CaptureParts DEF NotLater
  <1>2. CurrentThere' BY DEF CaptureQuiet, CurrentThere
  <1>3. PushedGone'
    <2>1. CASE UNCHANGED <<opening, dbRefs>> BY <1>0, <2>1 DEF PushedGone
    <2>2. CASE opening' = opening + 1
      <3>1. \A c \in Clicks : clickedIn[c] # opening + 1 BY CaptureParts DEF NotLater
      <3> QED BY <1>0, <2>2, <3>1, CaptureBy DEF PushedGone
    <2> QED BY <2>1, <2>2 DEF CaptureQuiet
  <1>4. PushedOver'
    <2>1. \A i \in DOMAIN replays' : at'[replays'[i].by] \in Pushed
      BY <1>0, CaptureBy DEF PushedOver, CaptureQuiet, PastPush
    <2>2. ASSUME NEW c \in Clicks, NEW i \in DOMAIN body'[c].replays
          PROVE  at'[body'[c].replays[i].by] \in Pushed
      <3>1. body'[c].replays = body[c].replays BY <2>2 DEF CaptureQuiet
      <3> QED BY <2>2, <3>1, CaptureBy DEF PushedOver, CaptureQuiet, PastPush
    <2> QED BY <2>1, <2>2 DEF PushedOver, PastPush
  <1>5. WaitTogether' BY <1>0 DEF WaitTogether, CaptureQuiet
  <1>6. NewHere' BY <1>0 DEF NewHere, CaptureQuiet, Excused
  <1>7. DistinctHere' BY <1>0 DEF DistinctHere, Excused
  <1>8. C!DistinctDatabases'
    <2> SUFFICES ASSUME NEW c \in Clicks, NEW i \in DOMAIN body'[c].replays,
                        NEW j \in DOMAIN body'[c].replays, i # j,
                        body'[c].replays[i].db = body'[c].replays[j].db
                 PROVE  \/ clickedIn'[body'[c].replays[i].by] # clickedIn'[body'[c].replays[j].by]
                        \/ {body'[c].replays[i].by, body'[c].replays[j].by} \in together'
      BY DEF C!DistinctDatabases
    <2>1. body'[c].replays = body[c].replays BY DEF CaptureQuiet
    <2> QED BY <1>0, <2>1 DEF C!DistinctDatabases
  <1> QED BY <1>1, <1>2, <1>3, <1>4, <1>5, <1>6, <1>7, <1>8

LEMMA Reflexive == \A n \in Nat : n <= n
  OBVIOUS

LEMMA CaptureClickKeeps ==
  ASSUME CaptureInv, C!TypeOK', NEW c \in Clicks, NEW next \in {"database", "database and on"},
         C!Click(c) \/ C!ClickReplay(c, next)
  PROVE  CaptureInv'
  <1> USE DEF CaptureInv
  <1>0. /\ at[c] = "idle" /\ UNCHANGED <<opening, current, dbRefs, replays, body>>
        /\ \A d \in Clicks : d # c => at'[d] = at[d] /\ asked'[d] = asked[d]
                                      /\ clickedIn'[d] = clickedIn[d]
        /\ clickedIn'[c] = opening
        /\ together \subseteq together'
        /\ Validating(c)' => /\ asked'[c].selection = current
                             /\ \A d \in Clicks : Validating(d) => {c, d} \in together'
    BY CaptureClicked
  <1>1. NotLater'
    <2>1. \A d \in Clicks : d # c => clickedIn'[d] <= opening BY <1>0 DEF NotLater
    <2>a. opening \in Nat BY CaptureParts
    <2>b. opening <= opening BY <2>a, Reflexive
    <2>2. clickedIn'[c] <= opening BY <1>0, <2>b
    <2> QED BY <1>0, <2>1, <2>2 DEF NotLater
  <1>2. CurrentThere' BY <1>0 DEF CurrentThere
  <1>c. /\ \A i \in DOMAIN replays : replays[i].by \in Clicks \ {c}
        /\ \A d \in Clicks : \A i \in DOMAIN body[d].replays : body[d].replays[i].by \in Clicks \ {c}
    BY <1>0, CaptureBy DEF PushedOver, PastPush, Pushed
  <1>3. PushedGone' BY <1>0, <1>c DEF PushedGone
  <1>4. PushedOver'
    <2>0. /\ \A i \in DOMAIN replays : at[replays[i].by] \in Pushed
          /\ \A d \in Clicks : \A i \in DOMAIN body[d].replays : at[body[d].replays[i].by] \in Pushed
      BY DEF PushedOver, PastPush
    <2>1. \A i \in DOMAIN replays' : at'[replays'[i].by] \in Pushed BY <1>0, <1>c, <2>0
    <2>2. \A d \in Clicks : \A i \in DOMAIN body'[d].replays : at'[body'[d].replays[i].by] \in Pushed
      BY <1>0, <1>c, <2>0
    <2> QED BY <2>1, <2>2 DEF PushedOver, PastPush
  <1>5. WaitTogether'
    <2> SUFFICES ASSUME NEW d \in Clicks, NEW e \in Clicks, d # e, Validating(d)', Validating(e)'
                 PROVE  {d, e} \in together'
      BY DEF WaitTogether
    <2>1. CASE d # c /\ e # c BY <1>0, <2>1 DEF WaitTogether, Validating
    <2>2. CASE d = c BY <1>0, <2>2 DEF Validating
    <2>3. CASE e = c
      <3>1. {d, e} = {e, d} OBVIOUS
      <3> QED BY <1>0, <2>3, <3>1 DEF Validating
    <2> QED BY <2>1, <2>2, <2>3
  <1>6. NewHere'
    <2> SUFFICES ASSUME NEW d \in Clicks, Validating(d)', asked'[d].selection.db # C!Empty,
                        NEW i \in DOMAIN replays, replays[i].db = asked'[d].selection.db
                 PROVE  Excused(d, replays[i].by)'
      BY <1>0 DEF NewHere, Excused
    <2>1. CASE d # c
      <3>1. Excused(d, replays[i].by) BY <1>0, <2>1 DEF NewHere, Validating
      <3> QED BY <1>0, <1>c, <2>1, <3>1 DEF Excused
    <2>2. CASE d = c
      <3>1. replays[i].db \in dbRefs BY <1>0, <2>2 DEF CurrentThere
      <3>2. clickedIn[replays[i].by] # opening BY <3>1 DEF PushedGone
      <3> QED BY <1>0, <1>c, <2>2, <3>2 DEF Excused
    <2> QED BY <2>1, <2>2
  <1>e. ASSUME NEW d \in Clicks \ {c}, NEW e \in Clicks \ {c}, Excused(d, e)
        PROVE  clickedIn'[d] # clickedIn'[e] \/ {d, e} \in together'
    BY <1>0, <1>e DEF Excused
  <1>7. DistinctHere'
    <2> SUFFICES ASSUME NEW i \in DOMAIN replays, NEW j \in DOMAIN replays, i # j,
                        replays[i].db = replays[j].db
                 PROVE  \/ clickedIn'[replays[i].by] # clickedIn'[replays[j].by]
                        \/ {replays[i].by, replays[j].by} \in together'
      BY <1>0 DEF DistinctHere, Excused
    <2>1. Excused(replays[i].by, replays[j].by) BY DEF DistinctHere
    <2> QED BY <1>c, <1>e, <2>1
  <1>8. C!DistinctDatabases'
    <2> SUFFICES ASSUME NEW d \in Clicks, NEW i \in DOMAIN body[d].replays,
                        NEW j \in DOMAIN body[d].replays, i # j,
                        body[d].replays[i].db = body[d].replays[j].db
                 PROVE  \/ clickedIn'[body[d].replays[i].by] # clickedIn'[body[d].replays[j].by]
                        \/ {body[d].replays[i].by, body[d].replays[j].by} \in together'
      BY <1>0 DEF C!DistinctDatabases
    <2>1. Excused(body[d].replays[i].by, body[d].replays[j].by) BY DEF C!DistinctDatabases, Excused
    <2> QED BY <1>c, <1>e, <2>1
  <1> QED BY <1>1, <1>2, <1>3, <1>4, <1>5, <1>6, <1>7, <1>8

LEMMA CapturePushKeeps ==
  ASSUME CaptureInv, C!TypeOK', NEW c \in Clicks, C!DatabaseValid(c)
  PROVE  CaptureInv'
  <1> USE DEF CaptureInv
  <1> DEFINE gone == asked[c].selection.db
             n == Len(replays)
  <1>0. /\ Validating(c) /\ PastPush(c)' /\ \A d \in Clicks : d # c => at'[d] = at[d]
        /\ gone # C!Empty /\ current'.db = C!Empty /\ dbRefs' = dbRefs \ {gone}
        /\ UNCHANGED <<opening, asked, clickedIn, together>>
        /\ \A d \in Clicks : body'[d].replays = body[d].replays \/ body'[d].replays = replays'
    BY CapturePushes
  <1>p. /\ DOMAIN replays = 1..n /\ n \in Nat /\ DOMAIN replays' = 1..(n + 1)
        /\ \A i \in 1..n : replays'[i].db = replays[i].db /\ replays'[i].by = replays[i].by
        /\ replays'[n + 1].db = gone /\ replays'[n + 1].by = c
    BY CapturePushes, PushedIs
  <1> HIDE DEF gone, n
  <1>i. \A i \in 1..(n + 1) : i \in 1..n \/ i = n + 1 BY <1>p
  <1>1. NotLater' BY <1>0 DEF NotLater
  <1>2. CurrentThere' BY <1>0 DEF CurrentThere
  <1>3. PushedGone' BY <1>0, <1>p, <1>i DEF PushedGone
  <1>c. \A d \in Clicks : PastPush(d) => PastPush(d)' BY <1>0 DEF PastPush
  <1>4. PushedOver'
    <2>1. ASSUME NEW i \in DOMAIN replays' PROVE at'[replays'[i].by] \in Pushed
      <3>1. CASE i \in 1..n
        <4>1. replays[i].by \in Clicks /\ PastPush(replays[i].by) BY <1>p, <3>1, CaptureBy DEF PushedOver
        <4> QED BY <1>c, <1>p, <3>1, <4>1 DEF PastPush
      <3>2. CASE i = n + 1 BY <1>0, <1>p, <3>2 DEF PastPush
      <3> QED BY <1>p, <1>i, <3>1, <3>2
    <2>2. ASSUME NEW d \in Clicks, NEW i \in DOMAIN body'[d].replays
          PROVE  at'[body'[d].replays[i].by] \in Pushed
      <3>1. CASE body'[d].replays = replays' BY <2>1, <2>2, <3>1 DEF PastPush
      <3>2. CASE body'[d].replays = body[d].replays
        <4>1. body[d].replays[i].by \in Clicks /\ PastPush(body[d].replays[i].by)
          BY <2>2, <3>2, CaptureBy DEF PushedOver
        <4> QED BY <1>c, <3>2, <4>1 DEF PastPush
      <3> QED BY <1>0, <3>1, <3>2
    <2> QED BY <2>1, <2>2 DEF PushedOver, PastPush
  <1>v. \A d \in Clicks : Validating(d)' => Validating(d) /\ d # c
    BY <1>0 DEF Validating, PastPush, Pushed
  <1>5. WaitTogether' BY <1>0, <1>v DEF WaitTogether
  <1>6. NewHere'
    <2> SUFFICES ASSUME NEW d \in Clicks, Validating(d), d # c, asked[d].selection.db # C!Empty,
                        NEW i \in 1..(n + 1), replays'[i].db = asked[d].selection.db
                 PROVE  Excused(d, replays'[i].by)
      BY <1>0, <1>p, <1>v DEF NewHere, Excused
    <2>1. CASE i \in 1..n BY <1>p, <2>1 DEF NewHere
    <2>2. CASE i = n + 1 BY <1>0, <1>p, <2>2 DEF WaitTogether, Excused
    <2> QED BY <1>i, <2>1, <2>2
  <1>7. DistinctHere'
    <2> SUFFICES ASSUME NEW i \in 1..(n + 1), NEW j \in 1..(n + 1), i # j, replays'[i].db = replays'[j].db
                 PROVE  Excused(replays'[i].by, replays'[j].by)
      BY <1>0, <1>p DEF DistinctHere, Excused
    <2>1. CASE i \in 1..n /\ j \in 1..n BY <1>p, <2>1 DEF DistinctHere
    <2>2. CASE i = n + 1 /\ j \in 1..n
      <3>1. replays[j].db = gone /\ j \in DOMAIN replays BY <1>p, <2>2
      <3>2. Excused(c, replays[j].by) BY <1>0, <3>1 DEF NewHere, gone
      <3> QED BY <1>p, <2>2, <3>2
    <2>3. CASE j = n + 1 /\ i \in 1..n
      <3>a. replays[i].db = gone /\ i \in DOMAIN replays BY <1>p, <2>3
      <3>b. Excused(c, replays[i].by) BY <1>0, <3>a DEF NewHere, gone
      <3>1. Excused(replays'[j].by, replays'[i].by) BY <1>p, <2>3, <3>b
      <3>2. {replays'[i].by, replays'[j].by} = {replays'[j].by, replays'[i].by} OBVIOUS
      <3> QED BY <3>1, <3>2 DEF Excused
    <2> QED BY <1>i, <2>1, <2>2, <2>3
  <1>8. C!DistinctDatabases'
    <2> SUFFICES ASSUME NEW d \in Clicks, NEW i \in DOMAIN body'[d].replays,
                        NEW j \in DOMAIN body'[d].replays, i # j,
                        body'[d].replays[i].db = body'[d].replays[j].db
                 PROVE  \/ clickedIn'[body'[d].replays[i].by] # clickedIn'[body'[d].replays[j].by]
                        \/ {body'[d].replays[i].by, body'[d].replays[j].by} \in together'
      BY DEF C!DistinctDatabases
    <2>1. CASE body'[d].replays = body[d].replays BY <1>0, <2>1 DEF C!DistinctDatabases
    <2>2. CASE body'[d].replays = replays' BY <1>7, <2>2 DEF DistinctHere, Excused
    <2> QED BY <1>0, <2>1, <2>2
  <1> QED BY <1>1, <1>2, <1>3, <1>4, <1>5, <1>6, <1>7, <1>8

\* The invariant of a capture's wizard is one.
LEMMA CaptureInit == C!Init => CaptureInv
  <1> SUFFICES ASSUME C!Init PROVE CaptureInv
    OBVIOUS
  <1>1. C!TypeOK
    <2>1. C!NoDb \in C!Objects BY Bounds DEF C!NoDb, C!Objects
    <2>2. [name |-> C!Empty, selection |-> C!NoDb] \in Asking BY <2>1 DEF Asking
    <2>3. [name |-> C!Empty, replays |-> <<>>] \in Sending BY DEF Sending
    <2>4. failures \in 0..MaxFailures /\ picks \in 0..MaxPicks BY Bounds DEF C!Init
    <2>5. asked \in [Clicks -> Asking] /\ body \in [Clicks -> Sending] BY <2>2, <2>3 DEF C!Init
    <2>6. at \in [Clicks -> CaptureStages] BY DEF C!Init, CaptureStages
    <2>7. current \in C!Objects /\ replays \in Seq(C!Entries) BY <2>1 DEF C!Init
    <2>8. clickedIn \in [Clicks -> Nat] /\ step \in Nat \ {0} /\ opening \in Nat BY DEF C!Init
    <2> QED BY <2>4, <2>5, <2>6, <2>7, <2>8, CaptureParts DEF C!Init
  <1>2. /\ replays = <<>> /\ DOMAIN replays = {} /\ current.db = C!Empty /\ opening = 0
        /\ \A c \in Clicks : at[c] = "idle" /\ clickedIn[c] = 0 /\ body[c].replays = <<>>
    BY DEF C!Init, C!NoDb
  <1>3. NotLater /\ CurrentThere BY <1>2 DEF NotLater, CurrentThere
  <1>4. PushedGone /\ DistinctHere BY <1>2 DEF PushedGone, DistinctHere
  <1>5. WaitTogether /\ NewHere BY <1>2 DEF WaitTogether, NewHere, Validating
  <1>6. PushedOver BY <1>2 DEF PushedOver
  <1>7. C!DistinctDatabases BY <1>2 DEF C!DistinctDatabases
  <1> QED BY <1>1, <1>3, <1>4, <1>5, <1>6, <1>7 DEF CaptureInv
LEMMA CaptureKept == CaptureInv /\ [C!Next]_(C!cvars) => CaptureInv'
  <1> SUFFICES ASSUME CaptureInv, [C!Next]_(C!cvars) PROVE CaptureInv'
    OBVIOUS
  <1>0. C!TypeOK BY DEF CaptureInv
  <1>1. CASE C!Next
    <2>1. C!TypeOK' BY <1>0, <1>1, CaptureTyped
    <2> QED BY <1>0, <1>1, <2>1, CaptureStep, CaptureQuietKeeps, CaptureClickKeeps, CapturePushKeeps
  <1>2. CASE UNCHANGED C!cvars
    <2>1. CaptureQuiet
      BY <1>2 DEF C!cvars, C!form, C!clicks, C!service, CaptureQuiet, PastPush, Validating
    <2>2. C!TypeOK' BY <1>0, <1>2 DEF C!TypeOK, C!cvars, C!form, C!clicks, C!service
    <2> QED BY <2>1, <2>2, CaptureQuietKeeps
  <1> QED BY <1>1, <1>2

-----------------------------------------------------------------------------
(* The page of a capture                                                    *)

Loading(r) == loading[r] > 0 \/ (opening /\ r = preset)

\* Before the metrics of the capture are there nothing is drawn or asked for, and
\* the default replay is asked for only if there is one.
NothingYet ==
  /\ ~shown => /\ ~opening /\ checked = {} /\ unheeded = {}
               /\ \A r \in Replays : loading[r] = 0
               /\ \A t \in Types, n \in ReplayNames : line[t][n] = P!Nobody
  /\ opening => preset # P!Nobody

\* The metrics of a replay are asked for with its box checked, and the box may
\* have been unchecked since.
LoadingHeeded == \A r \in Replays : Loading(r) => r \in checked \cup unheeded

\* LinesMatch, while requests are out.
LinesHeeded ==
  \A t \in Types, n \in ReplayNames : line[t][n] # P!Nobody =>
    n = CaptureName \/ \E r \in checked \cup unheeded : name[r] = n
CheckedDrawn ==
  \A r \in checked : \/ Loading(r) \/ r \in lost \/ name[r] \in cleared
                     \/ \A t \in Types : line[t][name[r]] # P!Nobody
CaptureDrawn ==
  shown /\ ~opening => \/ P!Nobody \in lost \/ CaptureName \in cleared
                       \/ \A t \in Types : line[t][CaptureName] # P!Nobody

\* There were as many requests as there are out, or more.
FewLoading == \A r \in Replays : loading[r] <= loads

PageInv ==
  P!TypeOK /\ FewLoading /\ NothingYet /\ LoadingHeeded /\ LinesHeeded /\ CheckedDrawn /\ CaptureDrawn


\* What is not there or drawn for the capture is no replay.
LEMMA PageNames ==
  /\ P!Nobody \notin Replays /\ P!Own # P!Nobody /\ CaptureName \in ReplayNames
  BY NamesAssumption DEF P!Nobody, P!Own

\* The types of the page, in parts.
Drawn == Replays \cup {P!Own, P!Nobody}
LEMMA PageParts ==
  P!TypeOK <=>
    /\ name \in [Replays -> ReplayNames] /\ first \in Types /\ preset \in Replays \cup {P!Nobody}
    /\ boxes \subseteq Replays /\ shown \in BOOLEAN /\ opening \in BOOLEAN
    /\ known \subseteq Replays /\ checked \subseteq Replays /\ unheeded \subseteq Replays
    /\ cleared \subseteq ReplayNames /\ lost \subseteq Replays \cup {P!Nobody}
    /\ loading \in [Replays -> 0..MaxLoads] /\ loads \in 0..MaxLoads
    /\ line \in [Types -> [ReplayNames -> Drawn]]
  BY DEF P!TypeOK, Drawn

\* What each way to draw does to the lines.
LEMMA Draws ==
  ASSUME P!TypeOK, NEW r \in Replays
  PROVE  /\ P!Draw(r) \/ P!DrawBoth(r) \/ P!DrawCaptureOnly \/ P!DrawUntilItThrows =>
              line' \in [Types -> [ReplayNames -> Drawn]]
         /\ P!Draw(r) => \A t \in Types, n \in ReplayNames :
              line'[t][n] = IF n = name[r] THEN r ELSE line[t][n]
         /\ P!DrawBoth(r) => \A t \in Types, n \in ReplayNames :
              line'[t][n] = IF n = name[r] THEN r ELSE IF n = CaptureName THEN P!Own ELSE line[t][n]
  <1> USE PageParts, PageNames
  <1>1. ASSUME NEW t \in Types
        PROVE  /\ P!DrawCapture(t) \in [ReplayNames -> Drawn]
               /\ \A n \in ReplayNames : P!DrawCapture(t)[n] = IF n = CaptureName THEN P!Own ELSE line[t][n]
    BY <1>1 DEF P!DrawCapture, Drawn
  <1>2. ASSUME NEW l \in [ReplayNames -> Drawn]
        PROVE  /\ P!DrawReplay(r, l) \in [ReplayNames -> Drawn]
               /\ \A n \in ReplayNames : P!DrawReplay(r, l)[n] = IF n = name[r] THEN r ELSE l[n]
    BY <1>2 DEF P!DrawReplay, Drawn
  <1>3. \A t \in Types : line[t] \in [ReplayNames -> Drawn] OBVIOUS
  <1>4. P!Draw(r) \/ P!DrawBoth(r) \/ P!DrawCaptureOnly \/ P!DrawUntilItThrows =>
          line' \in [Types -> [ReplayNames -> Drawn]]
    BY <1>1, <1>2, <1>3 DEF P!Draw, P!DrawBoth, P!DrawCaptureOnly, P!DrawUntilItThrows
  <1>5. P!Draw(r) => \A t \in Types, n \in ReplayNames :
          line'[t][n] = IF n = name[r] THEN r ELSE line[t][n]
    BY <1>2, <1>3 DEF P!Draw
  <1>6. P!DrawBoth(r) => \A t \in Types, n \in ReplayNames :
          line'[t][n] = IF n = name[r] THEN r ELSE IF n = CaptureName THEN P!Own ELSE line[t][n]
    BY <1>1, <1>2 DEF P!DrawBoth
  <1> QED BY <1>4, <1>5, <1>6

LEMMA DrawsCapture ==
  ASSUME P!TypeOK
  PROVE  /\ P!DrawCaptureOnly => \A t \in Types, n \in ReplayNames :
              line'[t][n] = IF n = CaptureName THEN P!Own ELSE line[t][n]
         /\ P!DrawUntilItThrows => \A t \in Types, n \in ReplayNames :
              line'[t][n] = line[t][n] \/ (n = CaptureName /\ line'[t][n] = P!Own)
         /\ P!DrawCaptureOnly \/ P!DrawUntilItThrows => line' \in [Types -> [ReplayNames -> Drawn]]
  <1> USE PageParts, PageNames
  <1>1. ASSUME NEW t \in Types
        PROVE  /\ P!DrawCapture(t) \in [ReplayNames -> Drawn]
               /\ \A n \in ReplayNames : P!DrawCapture(t)[n] = IF n = CaptureName THEN P!Own ELSE line[t][n]
    BY <1>1 DEF P!DrawCapture, Drawn
  <1>2. P!DrawCaptureOnly => \A t \in Types, n \in ReplayNames :
          line'[t][n] = IF n = CaptureName THEN P!Own ELSE line[t][n]
    BY <1>1 DEF P!DrawCaptureOnly
  <1>3. P!DrawUntilItThrows => \A t \in Types, n \in ReplayNames :
          line'[t][n] = line[t][n] \/ (n = CaptureName /\ line'[t][n] = P!Own)
    BY <1>1 DEF P!DrawUntilItThrows
  <1>4. \A t \in Types : line[t] \in [ReplayNames -> Drawn] OBVIOUS
  <1>5. P!DrawCaptureOnly \/ P!DrawUntilItThrows => line' \in [Types -> [ReplayNames -> Drawn]]
    BY <1>1, <1>4 DEF P!DrawCaptureOnly, P!DrawUntilItThrows
  <1> QED BY <1>2, <1>3, <1>5

\* What the answer to a request changes.
LEMMA Loads ==
  ASSUME P!TypeOK, NEW r \in Replays, P!Answer(r)
  PROVE  /\ loading[r] > 0 /\ loading' \in [Replays -> 0..MaxLoads]
         /\ \A q \in Replays : q # r => loading'[q] = loading[q]
         /\ \A q \in Replays : loading'[q] <= loading[q] /\ (loading'[q] > 0 => loading[q] > 0)
  <1>1. loading \in [Replays -> 0..MaxLoads] BY PageParts
  <1>2. loading[r] > 0 /\ loading' = [loading EXCEPT ![r] = loading[r] - 1] BY DEF P!Answer
  <1>3. loading[r] \in 0..MaxLoads BY <1>1
  <1>4. loading[r] - 1 \in 0..MaxLoads /\ loading[r] - 1 <= loading[r] BY <1>2, <1>3, Bounds
  <1>5. \A q \in Replays : loading[q] \in 0..MaxLoads /\ loading[q] <= loading[q] BY <1>1, Bounds
  <1> QED BY <1>1, <1>2, <1>4, <1>5

\* The types of the next state, in parts.
PageTypedNext ==
  /\ name' \in [Replays -> ReplayNames] /\ first' \in Types /\ preset' \in Replays \cup {P!Nobody}
  /\ boxes' \subseteq Replays /\ shown' \in BOOLEAN /\ opening' \in BOOLEAN
  /\ known' \subseteq Replays /\ checked' \subseteq Replays /\ unheeded' \subseteq Replays
  /\ cleared' \subseteq ReplayNames /\ lost' \subseteq Replays \cup {P!Nobody}
  /\ loading' \in [Replays -> 0..MaxLoads] /\ loads' \in 0..MaxLoads
  /\ line' \in [Types -> [ReplayNames -> Drawn]]
LEMMA PageTypes == PageTypedNext => P!TypeOK'
  <1> SUFFICES ASSUME PageTypedNext PROVE P!TypeOK'
    OBVIOUS
  <1>1. {shown, opening}' \subseteq BOOLEAN /\ {known, checked, unheeded}' \subseteq SUBSET Replays
    BY DEF PageTypedNext
  <1> QED BY <1>1 DEF P!TypeOK, Drawn, PageTypedNext

\* Of a replay that is drawn the page has what it was asked to have.
LEMMA PageDrawn ==
  ASSUME PageInv, NEW r \in Replays, r \in checked \cup unheeded,
         P!Draw(r) \/ P!DrawBoth(r), cleared' \in {cleared \ {name[r]}, cleared \ {name[r], CaptureName}},
         P!DrawBoth(r) \/ cleared' = cleared \ {name[r]},
         UNCHANGED <<P!page, shown, checked, unheeded>>, opening' = opening \/ P!DrawBoth(r),
         lost \ {r} \subseteq lost', \A q \in Replays : q # r /\ Loading(q) => Loading(q)'
  PROVE  LinesHeeded' /\ CheckedDrawn' /\ CaptureDrawn'
  <1> USE DEF PageInv, P!page
  <1>1. P!TypeOK OBVIOUS
  <1>2. \A t \in Types, n \in ReplayNames :
          /\ line'[t][n] = line[t][n] \/ n = name[r] \/ n = CaptureName
          /\ line'[t][name[r]] # P!Nobody
          /\ line[t][n] # P!Nobody => line'[t][n] # P!Nobody
          /\ P!DrawBoth(r) => line'[t][CaptureName] # P!Nobody
    BY <1>1, Draws, PageNames, PageParts
  <1>3. LinesHeeded' BY <1>2 DEF LinesHeeded
  <1>4. CheckedDrawn'
    <2> SUFFICES ASSUME NEW q \in checked
                 PROVE  \/ Loading(q)' \/ q \in lost' \/ name[q] \in cleared'
                        \/ \A t \in Types : line'[t][name[q]] # P!Nobody
      BY DEF CheckedDrawn
    <2>1. CASE name[q] = name[r] BY <1>2, <2>1, PageParts
    <2>2. CASE name[q] = CaptureName /\ P!DrawBoth(r) BY <1>2, <2>2, PageParts
    <2>3. CASE name[q] # name[r] /\ ~(name[q] = CaptureName /\ P!DrawBoth(r))
      <3>1. q # r /\ (name[q] \in cleared => name[q] \in cleared') BY <2>3
      <3>2. \/ Loading(q) \/ q \in lost \/ name[q] \in cleared
            \/ \A t \in Types : line[t][name[q]] # P!Nobody
        BY DEF CheckedDrawn
      <3>3. q \in Replays /\ name[q] \in ReplayNames BY PageParts
      <3> QED BY <1>2, <3>1, <3>2, <3>3
    <2> QED BY <2>1, <2>2, <2>3
  <1>5. CaptureDrawn'
    <2>1. P!DrawBoth(r) \/ name[r] = CaptureName => \A t \in Types : line'[t][CaptureName] # P!Nobody
      BY <1>2, PageNames
    <2>2. CASE P!DrawBoth(r) \/ name[r] = CaptureName BY <2>1, <2>2 DEF CaptureDrawn
    <2>3. CASE ~P!DrawBoth(r) /\ name[r] # CaptureName
      <3>1. \A t \in Types : line[t][CaptureName] # P!Nobody => line'[t][CaptureName] # P!Nobody
        BY <1>2, PageNames
      <3>2. P!Nobody \in lost => P!Nobody \in lost' BY PageNames
      <3>3. CaptureName \in cleared => CaptureName \in cleared' BY <2>3
      <3> QED BY <2>3, <3>1, <3>2, <3>3 DEF CaptureDrawn
    <2> QED BY <2>2, <2>3
  <1> QED BY <1>3, <1>4, <1>5

LEMMA MountKeeps == PageInv /\ P!Mount => PageInv'
  <1> SUFFICES ASSUME PageInv, P!Mount PROVE PageInv'
    OBVIOUS
  <1> USE PageNames DEF PageInv, P!page, P!history
  <1>1. P!TypeOK OBVIOUS
  <1>2. /\ shown' /\ ~shown
        /\ UNCHANGED <<name, first, preset, boxes, known, loading, loads, unheeded, cleared>>
        /\ \/ preset = P!Nobody /\ P!DrawCaptureOnly /\ UNCHANGED <<opening, checked, lost>>
           \/ preset # P!Nobody /\ opening' = TRUE /\ checked' = {preset} /\ UNCHANGED <<line, lost>>
           \/ preset # P!Nobody /\ lost' = {P!Nobody} /\ UNCHANGED <<opening, checked, line>>
    BY DEF P!Mount
  <1>3. ~opening /\ \A r \in Replays : loading[r] = 0 BY <1>2 DEF NothingYet
  <1>4. \A t \in Types, n \in ReplayNames :
          /\ line'[t][n] = line[t][n] \/ n = CaptureName
          /\ line[t][n] # P!Nobody => line'[t][n] # P!Nobody
          /\ preset = P!Nobody => line'[t][CaptureName] # P!Nobody
    BY <1>1, <1>2, DrawsCapture
  <1>5. P!TypeOK'
    <2>1. line' \in [Types -> [ReplayNames -> Drawn]] BY <1>1, <1>2, DrawsCapture, PageParts
    <2> QED BY <1>1, <1>2, <2>1, PageParts, PageTypes DEF PageTypedNext
  <1>6. FewLoading' /\ NothingYet' BY <1>2 DEF FewLoading, NothingYet
  <1>7. /\ LoadingHeeded' /\ LinesHeeded' /\ CheckedDrawn'
    <2>1. checked = {} /\ \A t \in Types, n \in ReplayNames : line[t][n] = P!Nobody
      BY <1>2 DEF NothingYet
    <2>2. \A r \in Replays : Loading(r)' => r = preset /\ r \in checked' BY <1>2, <1>3 DEF Loading
    <2>3. checked' = {} \/ (checked' = {preset} /\ preset \in Replays /\ Loading(preset)')
      BY <1>1, <1>2, <2>1, PageParts DEF Loading
    <2>4. LoadingHeeded' BY <2>2 DEF LoadingHeeded
    <2>5. LinesHeeded' BY <1>4, <2>1 DEF LinesHeeded
    <2>6. CheckedDrawn' BY <1>2, <2>1, <2>3 DEF CheckedDrawn
    <2> QED BY <2>4, <2>5, <2>6
  <1>8. CaptureDrawn' BY <1>2, <1>4 DEF CaptureDrawn
  <1> QED BY <1>5, <1>6, <1>7, <1>8

LEMMA CheckKeeps == ASSUME PageInv, NEW r \in Replays, P!Check(r) PROVE PageInv'
  <1> USE PageNames DEF PageInv, P!page
  <1>1. P!TypeOK OBVIOUS
  <1>2. /\ shown /\ r \notin checked /\ checked' = checked \cup {r}
        /\ UNCHANGED <<P!page, shown, opening, known, unheeded, lost>>
    BY DEF P!Check
  <1>3. CASE P!Draw(r) /\ cleared' = cleared \ {name[r]} /\ UNCHANGED <<loading, loads>>
    <2>1. line' \in [Types -> [ReplayNames -> Drawn]] BY <1>1, <1>3, Draws
    <2>2. \A t \in Types, n \in ReplayNames : line'[t][n] = IF n = name[r] THEN r ELSE line[t][n]
      BY <1>1, <1>3, Draws
    <2>3. P!TypeOK' BY <1>1, <1>2, <1>3, <2>1, PageParts, PageTypes DEF PageTypedNext
    <2>4. FewLoading' /\ NothingYet' /\ LoadingHeeded'
      BY <1>2, <1>3 DEF FewLoading, NothingYet, LoadingHeeded, Loading
    <2>5. LinesHeeded' BY <1>2, <2>2 DEF LinesHeeded
    <2>6. CheckedDrawn'
      <3> SUFFICES ASSUME NEW q \in checked'
                   PROVE  \/ Loading(q)' \/ q \in lost' \/ name[q] \in cleared'
                          \/ \A t \in Types : line'[t][name[q]] # P!Nobody
        BY <1>2 DEF CheckedDrawn
      <3>1. q \in Replays /\ name[q] \in ReplayNames /\ r # P!Nobody BY <1>1, <1>2, PageParts
      <3>2. CASE name[q] = name[r] BY <2>2, <3>1, <3>2
      <3>3. CASE name[q] # name[r]
        <4>1. q \in checked /\ (name[q] \in cleared => name[q] \in cleared') BY <1>2, <1>3, <3>3
        <4>2. \/ Loading(q) \/ q \in lost \/ name[q] \in cleared
              \/ \A t \in Types : line[t][name[q]] # P!Nobody
          BY <4>1 DEF CheckedDrawn
        <4>3. Loading(q)' <=> Loading(q) BY <1>2, <1>3 DEF Loading
        <4> QED BY <1>2, <2>2, <3>1, <3>3, <4>1, <4>2, <4>3
      <3> QED BY <3>2, <3>3
    <2>7. CaptureDrawn'
      <3>1. r # P!Nobody OBVIOUS
      <3>2. \A t \in Types : line'[t][CaptureName] = IF CaptureName = name[r] THEN r ELSE line[t][CaptureName]
        BY <2>2
      <3> QED BY <1>2, <1>3, <3>1, <3>2 DEF CaptureDrawn
    <2> QED BY <2>3, <2>4, <2>5, <2>6, <2>7
  <1>4. CASE /\ loads < MaxLoads /\ loads' = loads + 1 /\ loading' = [loading EXCEPT ![r] = @ + 1]
             /\ UNCHANGED <<line, cleared>>
    <2>1. loading[r] \in 0..MaxLoads /\ loads \in 0..MaxLoads /\ loading[r] <= loads
          /\ loading \in [Replays -> 0..MaxLoads]
      BY <1>1, PageParts DEF FewLoading
    <2>2. loading[r] + 1 \in 1..MaxLoads /\ loads' \in 0..MaxLoads /\ loading[r] + 1 <= loads'
      BY <1>4, <2>1, Bounds
    <2>3. /\ loading' \in [Replays -> 0..MaxLoads] /\ loading'[r] = loading[r] + 1
          /\ \A q \in Replays : q # r => loading'[q] = loading[q]
      BY <1>4, <2>1, <2>2
    <2>4. P!TypeOK' BY <1>1, <1>2, <1>4, <2>2, <2>3, PageParts, PageTypes DEF PageTypedNext
    <2>5. FewLoading'
      <3>1. \A q \in Replays : q # r => loading[q] <= loads' BY <1>1, <1>4, PageParts DEF FewLoading
      <3> QED BY <2>2, <2>3, <3>1 DEF FewLoading
    <2>6. \A q \in Replays : (Loading(q) => Loading(q)') /\ (q # r => (Loading(q)' <=> Loading(q)))
      BY <1>2, <2>1, <2>2, <2>3 DEF Loading
    <2>7. Loading(r)' BY <2>2, <2>3 DEF Loading
    <2>8. NothingYet' /\ LoadingHeeded' /\ LinesHeeded'
      BY <1>2, <1>4, <2>6 DEF NothingYet, LoadingHeeded, LinesHeeded
    <2>9. CheckedDrawn' BY <1>1, <1>2, <1>4, <2>6, <2>7, PageParts DEF CheckedDrawn
    <2>10. CaptureDrawn' BY <1>2, <1>4 DEF CaptureDrawn
    <2> QED BY <2>4, <2>5, <2>8, <2>9, <2>10
  <1> QED BY <1>3, <1>4 DEF P!Check

LEMMA UncheckKeeps == ASSUME PageInv, NEW r \in Replays, P!Uncheck(r) PROVE PageInv'
  <1> USE PageNames DEF PageInv, P!page
  <1>1. P!TypeOK OBVIOUS
  <1>2. /\ shown /\ r \in checked /\ checked' = checked \ {r}
        /\ line' = [t \in Types |-> [line[t] EXCEPT ![name[r]] = P!Nobody]]
        /\ unheeded' = IF Loading(r) THEN unheeded \cup {r} ELSE unheeded \ {r}
        /\ cleared' = IF P!Bears(name[r], r) THEN cleared \cup {name[r]} ELSE cleared
        /\ UNCHANGED <<P!page, shown, opening, known, loading, loads, lost>>
    BY DEF P!Uncheck, Loading
  <1>3. name[r] \in ReplayNames BY <1>1, PageParts
  <1>4. \A t \in Types : line[t] \in [ReplayNames -> Drawn] BY <1>1, PageParts
  <1>5. \A t \in Types : [line[t] EXCEPT ![name[r]] = P!Nobody] \in [ReplayNames -> Drawn]
    BY <1>4 DEF Drawn
  <1>6. /\ line' \in [Types -> [ReplayNames -> Drawn]]
        /\ \A t \in Types, n \in ReplayNames :
             line'[t][n] = IF n = name[r] THEN P!Nobody ELSE line[t][n]
    BY <1>2, <1>4, <1>5
  <1>7. cleared' \subseteq ReplayNames /\ cleared \subseteq cleared' /\ unheeded' \subseteq Replays
    BY <1>1, <1>2, <1>3, PageParts
  <1>8. P!TypeOK' BY <1>1, <1>2, <1>6, <1>7, PageParts, PageTypes DEF PageTypedNext
  <1>9. \A q \in Replays : Loading(q)' <=> Loading(q) BY <1>2 DEF Loading
  <1>10. FewLoading' /\ NothingYet' BY <1>2 DEF FewLoading, NothingYet
  <1>11. LoadingHeeded' BY <1>2, <1>9 DEF LoadingHeeded
  <1>12. LinesHeeded' BY <1>1, <1>2, <1>6, PageParts DEF LinesHeeded
  <1>13. CheckedDrawn'
    <2> SUFFICES ASSUME NEW q \in checked, q # r
                 PROVE  \/ Loading(q)' \/ q \in lost' \/ name[q] \in cleared'
                        \/ \A t \in Types : line'[t][name[q]] # P!Nobody
      BY <1>2 DEF CheckedDrawn
    <2>1. q \in Replays /\ name[q] \in ReplayNames BY <1>1, PageParts
    <2>2. CASE name[q] = name[r] BY <1>2, <2>2 DEF P!Bears
    <2>3. CASE name[q] # name[r]
      <3>1. \/ Loading(q) \/ q \in lost \/ name[q] \in cleared
            \/ \A t \in Types : line[t][name[q]] # P!Nobody
        BY DEF CheckedDrawn
      <3> QED BY <1>2, <1>6, <1>7, <1>9, <2>1, <2>3, <3>1
    <2> QED BY <2>2, <2>3
  <1>14. CaptureDrawn'
    <2>1. CASE name[r] = CaptureName BY <1>2, <2>1 DEF CaptureDrawn, P!Bears
    <2>2. CASE name[r] # CaptureName BY <1>2, <1>6, <1>7, <2>2 DEF CaptureDrawn
    <2> QED BY <2>1, <2>2
  <1> QED BY <1>8, <1>10, <1>11, <1>12, <1>13, <1>14

LEMMA LoadedKeeps == ASSUME PageInv, NEW r \in Replays, P!Loaded(r) \/ P!LoadFails(r) PROVE PageInv'
  <1> USE PageNames DEF PageInv, P!page
  <1>1. P!TypeOK OBVIOUS
  <1>2. P!Answer(r) /\ UNCHANGED <<P!page, shown, opening, checked, loads, unheeded>>
    BY DEF P!Loaded, P!LoadFails
  <1>3. \/ P!Draw(r) /\ cleared' = cleared \ {name[r]} /\ lost' \in {lost, lost \ {r}}
        \/ UNCHANGED <<line, cleared>> /\ lost' = lost \cup {r}
    BY DEF P!Loaded, P!LoadFails
  <1>4. known' \subseteq Replays BY <1>1, PageParts DEF P!Loaded, P!LoadFails
  <1>5. /\ loading[r] > 0 /\ loading' \in [Replays -> 0..MaxLoads]
        /\ \A q \in Replays : q # r => loading'[q] = loading[q]
        /\ \A q \in Replays : loading'[q] <= loading[q] /\ (loading'[q] > 0 => loading[q] > 0)
    BY <1>1, <1>2, Loads
  <1>6. line' \in [Types -> [ReplayNames -> Drawn]] BY <1>1, <1>3, Draws, PageParts
  <1>7. cleared' \subseteq ReplayNames /\ lost' \subseteq Replays \cup {P!Nobody} BY <1>1, <1>3, PageParts
  <1>8. P!TypeOK' BY <1>1, <1>2, <1>4, <1>5, <1>6, <1>7, PageParts, PageTypes DEF PageTypedNext
  <1>9. shown BY <1>5 DEF NothingYet
  <1>10. FewLoading'
    <2>1. \A q \in Replays : loading[q] \in Nat /\ loading'[q] \in Nat /\ loads \in Nat
      BY <1>1, <1>5, PageParts, Bounds
    <2> QED BY <1>2, <1>5, <2>1 DEF FewLoading
  <1>11. NothingYet' BY <1>2, <1>9 DEF NothingYet
  <1>12. \A q \in Replays : (Loading(q)' => Loading(q)) /\ (q # r /\ Loading(q) => Loading(q)')
    BY <1>2, <1>5 DEF Loading
  <1>13. LoadingHeeded' BY <1>2, <1>12 DEF LoadingHeeded
  <1>14. r \in checked \cup unheeded BY <1>5 DEF LoadingHeeded, Loading
  <1>15. LinesHeeded' /\ CheckedDrawn' /\ CaptureDrawn'
    <2>1. CASE P!Draw(r) /\ cleared' = cleared \ {name[r]} /\ lost' \in {lost, lost \ {r}}
      <3>1. lost \ {r} \subseteq lost' BY <2>1
      <3> QED BY <1>2, <1>12, <1>14, <2>1, <3>1, PageDrawn
    <2>2. CASE UNCHANGED <<line, cleared>> /\ lost' = lost \cup {r}
      <3>1. LinesHeeded' /\ CaptureDrawn' BY <1>2, <2>2 DEF LinesHeeded, CaptureDrawn
      <3>2. CheckedDrawn' BY <1>1, <1>2, <1>12, <2>2, PageParts DEF CheckedDrawn
      <3> QED BY <3>1, <3>2
    <2> QED BY <1>3, <2>1, <2>2
  <1> QED BY <1>8, <1>10, <1>11, <1>13, <1>15

LEMMA OpenedKeeps == PageInv /\ P!Opened => PageInv'
  <1> SUFFICES ASSUME PageInv, P!Opened PROVE PageInv'
    OBVIOUS
  <1> USE PageNames DEF PageInv, P!page
  <1>1. P!TypeOK OBVIOUS
  <1>2. opening /\ opening' = FALSE /\ UNCHANGED <<P!page, shown, checked, loading, loads, unheeded>>
    BY DEF P!Opened
  <1>3. \/ P!DrawBoth(preset) /\ cleared' = cleared \ {name[preset], CaptureName}
           /\ lost' \in {lost, lost \ {preset}}
        \/ P!DrawUntilItThrows /\ UNCHANGED cleared /\ lost' = lost \cup {preset, P!Nobody}
    BY DEF P!Opened
  <1>4. preset \in Replays BY <1>1, <1>2, PageParts DEF NothingYet
  <1>5. known' \subseteq Replays BY <1>1, <1>4, PageParts DEF P!Opened
  <1>6. line' \in [Types -> [ReplayNames -> Drawn]] BY <1>1, <1>3, <1>4, Draws
  <1>7. cleared' \subseteq ReplayNames /\ lost' \subseteq Replays \cup {P!Nobody}
    BY <1>1, <1>3, <1>4, PageParts
  <1>8. P!TypeOK' BY <1>1, <1>2, <1>5, <1>6, <1>7, PageParts, PageTypes DEF PageTypedNext
  <1>9. FewLoading' /\ NothingYet' BY <1>2 DEF FewLoading, NothingYet
  <1>10. \A q \in Replays : (Loading(q)' => Loading(q)) /\ (q # preset /\ Loading(q) => Loading(q)')
    BY <1>2 DEF Loading
  <1>11. LoadingHeeded' BY <1>2, <1>10 DEF LoadingHeeded
  <1>12. preset \in checked \cup unheeded BY <1>2, <1>4 DEF LoadingHeeded, Loading
  <1>13. LinesHeeded' /\ CheckedDrawn' /\ CaptureDrawn'
    <2>1. CASE P!DrawBoth(preset) /\ cleared' = cleared \ {name[preset], CaptureName}
               /\ lost' \in {lost, lost \ {preset}}
      <3>1. lost \ {preset} \subseteq lost' BY <2>1
      <3> QED BY <1>2, <1>4, <1>10, <1>12, <2>1, <3>1, PageDrawn
    <2>2. CASE P!DrawUntilItThrows /\ UNCHANGED cleared /\ lost' = lost \cup {preset, P!Nobody}
      <3>1. \A t \in Types, n \in ReplayNames :
              line'[t][n] = line[t][n] \/ (n = CaptureName /\ line'[t][n] = P!Own)
        BY <1>1, <2>2, DrawsCapture
      <3>2. LinesHeeded' BY <1>2, <3>1 DEF LinesHeeded
      <3>3. CaptureDrawn' BY <2>2 DEF CaptureDrawn
      <3>4. CheckedDrawn'
        <4> SUFFICES ASSUME NEW q \in checked
                     PROVE  \/ Loading(q)' \/ q \in lost' \/ name[q] \in cleared'
                            \/ \A t \in Types : line'[t][name[q]] # P!Nobody
          BY <1>2 DEF CheckedDrawn
        <4>1. q \in Replays /\ name[q] \in ReplayNames BY <1>1, PageParts
        <4>2. \/ Loading(q) \/ q \in lost \/ name[q] \in cleared
              \/ \A t \in Types : line[t][name[q]] # P!Nobody
          BY DEF CheckedDrawn
        <4>3. (\A t \in Types : line[t][name[q]] # P!Nobody)
              => \A t \in Types : line'[t][name[q]] # P!Nobody
          BY <3>1, <4>1
        <4> QED BY <1>10, <2>2, <4>1, <4>2, <4>3
      <3> QED BY <3>2, <3>3, <3>4
    <2> QED BY <1>3, <2>1, <2>2
  <1> QED BY <1>8, <1>9, <1>11, <1>13

LEMMA PageInit == P!Init => PageInv
  <1> SUFFICES ASSUME P!Init PROVE PageInv
    OBVIOUS
  <1> USE PageNames, Bounds DEF P!Init
  <1>1. 0 \in 0..MaxLoads OBVIOUS
  <1>2. line \in [Types -> [ReplayNames -> Drawn]] BY DEF Drawn
  <1>3. boxes \subseteq Replays OBVIOUS
  <1>4. P!TypeOK BY <1>1, <1>2, <1>3, PageParts
  <1>5. FewLoading /\ NothingYet /\ LoadingHeeded BY DEF FewLoading, NothingYet, LoadingHeeded, Loading
  <1>6. LinesHeeded /\ CheckedDrawn /\ CaptureDrawn BY DEF LinesHeeded, CheckedDrawn, CaptureDrawn
  <1> QED BY <1>4, <1>5, <1>6 DEF PageInv

LEMMA PageKept == PageInv /\ [P!Next]_(P!pvars) => PageInv'
  <1>1. PageInv /\ P!Next => PageInv'
    BY MountKeeps, CheckKeeps, UncheckKeeps, LoadedKeeps, OpenedKeeps DEF P!Next
  <1>2. PageInv /\ UNCHANGED P!pvars => PageInv'
    <2> SUFFICES ASSUME PageInv, UNCHANGED P!pvars PROVE PageInv'
      OBVIOUS
    <2>1. UNCHANGED <<name, first, preset, boxes, shown, opening, known, checked, loading, loads, line,
                      unheeded, cleared, lost>>
      BY DEF P!pvars, P!page, P!history
    <2> QED BY <2>1 DEF PageInv, P!TypeOK, FewLoading, NothingYet, LoadingHeeded, Loading,
                        LinesHeeded, CheckedDrawn, CaptureDrawn
  <1> QED BY <1>1, <1>2

LEMMA PageTells == PageInv => P!TypeOK /\ P!LinesMatch
  <1> SUFFICES ASSUME PageInv PROVE P!LinesMatch
    BY DEF PageInv
  <1> USE DEF PageInv
  <1> SUFFICES ASSUME shown, ~opening, \A r \in Replays : loading[r] = 0, NEW t \in Types
               PROVE  /\ \A n \in ReplayNames : line[t][n] # P!Nobody =>
                            n = CaptureName \/ \E r \in checked \cup unheeded : name[r] = n
                      /\ \A r \in checked : line[t][name[r]] # P!Nobody \/ r \in lost \/ name[r] \in cleared
                      /\ line[t][CaptureName] # P!Nobody \/ P!Nobody \in lost \/ CaptureName \in cleared
    BY DEF P!LinesMatch
  <1>1. \A r \in checked : ~Loading(r) BY PageParts DEF Loading
  <1> QED BY <1>1 DEF LinesHeeded, CheckedDrawn, CaptureDrawn
-----------------------------------------------------------------------------
(* The wizard of an environment                                             *)

KeysVouched == keys \in valid \cup under \cup {E!Empty}
DbVouched   == db \in valid \cup under \cup {E!Empty}

\* Past the page of the keys, and while a database is validated, the keys are
\* vouched for; past the page of the database it is.
PagesVouched ==
  /\ page \in {4, 5} \/ (\E q \in out : q[1] = "database") => KeysVouched
  /\ page = 5 => DbVouched

\* What is validated is what is in the form, if that is not vouched for.
AskedVouched ==
  \A q \in out :
    /\ q[1] = "credentials" => keys = q[2] \/ KeysVouched
    /\ q[1] = "database" => db = q[2] \/ DbVouched

\* Stored keys that are chosen are those of the form, or have been typed over.
ChosenOrTypedOver == keysId \in {keys, shadowed, E!Empty}

EnvironmentInv ==
  E!TypeOK /\ PagesVouched /\ AskedVouched /\ ChosenOrTypedOver /\ E!SavedIsValidated



LEMMA Apart == /\ Keys \cap Databases = {} /\ E!Empty = "empty"
               /\ E!Value = CaptureNames \cup Keys \cup Databases \cup {E!Empty}
  BY NamesAssumption DEF E!Empty, E!Value

\* The types of the wizard, in parts.
Saveds == [name : CaptureNames \cup {E!Empty}, keys : Keys \cup {E!Empty}, db : Databases \cup {E!Empty},
           over : SUBSET E!Value, shadowed : Keys \cup {E!Empty}]
LEMMA EnvironmentParts ==
  E!TypeOK <=>
    /\ page \in 1..7 /\ disabled \in BOOLEAN /\ newEnv \in BOOLEAN /\ newKeys \in BOOLEAN
    /\ bucket \in BOOLEAN /\ bucketList \in BOOLEAN
    /\ envName \in CaptureNames \cup {E!Empty} /\ keys \in Keys \cup {E!Empty}
    /\ keysId \in Keys \cup {E!Empty} /\ shadowed \in Keys \cup {E!Empty}
    /\ db \in Databases \cup {E!Empty} /\ out \subseteq E!Requests \X E!Value /\ saved \subseteq Saveds
    /\ edits \in 0..MaxEdits /\ valid \subseteq E!Value /\ under \subseteq E!Value
  BY DEF E!TypeOK, Saveds
EnvironmentTypedNext ==
  /\ page' \in 1..7 /\ disabled' \in BOOLEAN /\ newEnv' \in BOOLEAN /\ newKeys' \in BOOLEAN
  /\ bucket' \in BOOLEAN /\ bucketList' \in BOOLEAN
  /\ envName' \in CaptureNames \cup {E!Empty} /\ keys' \in Keys \cup {E!Empty}
  /\ keysId' \in Keys \cup {E!Empty} /\ shadowed' \in Keys \cup {E!Empty}
  /\ db' \in Databases \cup {E!Empty} /\ out' \subseteq E!Requests \X E!Value /\ saved' \subseteq Saveds
  /\ edits' \in 0..MaxEdits /\ valid' \subseteq E!Value /\ under' \subseteq E!Value
LEMMA EnvironmentTypes == EnvironmentTypedNext => E!TypeOK'
  <1> SUFFICES ASSUME EnvironmentTypedNext PROVE E!TypeOK'
    OBVIOUS
  <1>1. {disabled, newEnv, newKeys, bucket, bucketList}' \subseteq BOOLEAN
        /\ {valid, under}' \subseteq SUBSET E!Value /\ {keys, keysId, shadowed}' \subseteq Keys \cup {E!Empty}
    BY DEF EnvironmentTypedNext
  <1> QED BY <1>1 DEF E!TypeOK, Saveds, EnvironmentTypedNext

\* What can be asked for.
LEMMA Asks ==
  ASSUME NEW kind \in {"keys list", "name", "key name", "credentials", "buckets", "database", "invite", "environment"},
         NEW v \in E!Value
  PROVE  <<kind, v>> \in E!Requests \X E!Value
  BY DEF E!Requests

\* The page of each input.
LEMMA ShownOn ==
  ASSUME page \in 1..7
  PROVE  (E!Shows("envName") => page = 2) /\ (E!Shows("keys") => page = 3) /\ (E!Shows("db") => page = 4)
  BY DEF E!Shows, E!Inputs

\* A change of the form, by a value that may come over a request.
LEMMA EditTyped ==
  ASSUME E!TypeOK, NEW old, E!Edit(old) PROVE edits' \in 0..MaxEdits
  BY EnvironmentParts, Bounds DEF E!Edit

LEMMA KeysKeep ==
  ASSUME EnvironmentInv, NEW k \in Keys, E!TypeKeys(k) \/ E!ChooseKeys(k)
  PROVE  EnvironmentInv'
  <1> USE Apart, EnvironmentParts DEF EnvironmentInv
  <1>1. /\ E!Edit(keys) /\ keys' = k /\ disabled' = FALSE
        /\ under' = IF out = {} THEN under \ {k} ELSE under \cup {k}
        /\ UNCHANGED <<page, newEnv, newKeys, envName, db, bucket, bucketList, out, saved, valid>>
    BY DEF E!TypeKeys, E!ChooseKeys, E!choices, E!Under
  <1>2. \/ keysId' = keysId /\ shadowed' = keysId
        \/ keysId' = k /\ shadowed' = E!Empty
    BY DEF E!TypeKeys, E!ChooseKeys
  <1>3. page = 3 BY ShownOn DEF E!TypeKeys, E!ChooseKeys
  <1>4. edits' \in 0..MaxEdits BY <1>1, EditTyped
  <1>5. under' \subseteq E!Value BY <1>1
  <1>6. E!TypeOK' BY <1>1, <1>2, <1>4, <1>5, EnvironmentTypes DEF EnvironmentTypedNext
  <1>7. out # {} => KeysVouched' /\ (DbVouched => DbVouched') BY <1>1 DEF KeysVouched, DbVouched
  <1>8. PagesVouched' BY <1>1, <1>3, <1>7 DEF PagesVouched
  <1>9. AskedVouched' BY <1>1, <1>7 DEF AskedVouched
  <1>10. ChosenOrTypedOver' BY <1>1, <1>2 DEF ChosenOrTypedOver
  <1>11. E!SavedIsValidated' BY <1>1 DEF E!SavedIsValidated
  <1> QED BY <1>6, <1>8, <1>9, <1>10, <1>11

LEMMA EnterDatabaseKeeps ==
  ASSUME EnvironmentInv, NEW d \in Databases \cup {E!Empty}, E!EnterDatabase(d)
  PROVE  EnvironmentInv'
  <1> USE Apart, EnvironmentParts DEF EnvironmentInv
  <1>1. /\ E!Edit(db) /\ db' = d /\ disabled' = (d = E!Empty)
        /\ under' = IF out = {} THEN under \ {d} ELSE under \cup {d}
        /\ UNCHANGED <<page, newEnv, newKeys, envName, keys, keysId, bucket, bucketList, out, saved, valid, shadowed>>
    BY DEF E!EnterDatabase, E!Under, E!choices
  <1>2. page = 4 BY ShownOn DEF E!EnterDatabase
  <1>3. edits' \in 0..MaxEdits BY <1>1, EditTyped
  <1>4. under' \subseteq E!Value BY <1>1
  <1>5. E!TypeOK' BY <1>1, <1>3, <1>4, EnvironmentTypes DEF EnvironmentTypedNext
  <1>6. KeysVouched => KeysVouched'
    <2>1. keys # d \/ keys = E!Empty OBVIOUS
    <2> QED BY <1>1, <2>1 DEF KeysVouched
  <1>7. out # {} => DbVouched' BY <1>1 DEF DbVouched
  <1>8. PagesVouched' BY <1>1, <1>2, <1>6 DEF PagesVouched
  <1>9. AskedVouched' BY <1>1, <1>6, <1>7 DEF AskedVouched, KeysVouched
  <1>10. E!SavedIsValidated' BY <1>1 DEF E!SavedIsValidated
  <1>11. ChosenOrTypedOver' BY <1>1 DEF ChosenOrTypedOver
  <1> QED BY <1>5, <1>8, <1>9, <1>10, <1>11

\* The wizard is reset, or the form as it is: nothing is asked for but what is
\* in it, and what is validated stays so.
LEMMA ResetKeeps ==
  ASSUME EnvironmentInv, E!Reset, edits' \in 0..MaxEdits, out' \subseteq out, UNCHANGED <<saved, valid, under>>
  PROVE  EnvironmentInv'
  <1> USE EnvironmentParts DEF EnvironmentInv
  <1>1. page' = 1 /\ keys' = E!Empty /\ db' = E!Empty /\ keysId' = E!Empty /\ shadowed' = E!Empty BY DEF E!Reset
  <1>2. /\ disabled' = FALSE /\ newEnv' = TRUE /\ newKeys' = TRUE /\ envName' = E!Empty
        /\ bucket' = FALSE /\ bucketList' = FALSE
    BY DEF E!Reset
  <1>5. out' \subseteq E!Requests \X E!Value /\ 1 \in 1..7 OBVIOUS
  <1>6. E!TypeOK' BY <1>1, <1>2, <1>5, EnvironmentTypes DEF EnvironmentTypedNext
  <1>3. KeysVouched' /\ DbVouched' BY <1>1 DEF KeysVouched, DbVouched
  <1>4. PagesVouched' /\ AskedVouched' BY <1>3 DEF PagesVouched, AskedVouched
  <1>7. E!SavedIsValidated' /\ ChosenOrTypedOver' BY <1>1 DEF E!SavedIsValidated, ChosenOrTypedOver
  <1> QED BY <1>4, <1>6, <1>7

LEMMA FormKeeps ==
  ASSUME EnvironmentInv, UNCHANGED <<keys, keysId, shadowed, db, saved, under>>, valid \subseteq valid', valid' \subseteq E!Value,
         page' \in 1..7, disabled' \in BOOLEAN, newEnv' \in BOOLEAN, newKeys' \in BOOLEAN,
         bucket' \in BOOLEAN, bucketList' \in BOOLEAN, envName' \in CaptureNames \cup {E!Empty},
         edits' \in 0..MaxEdits, out' \subseteq E!Requests \X E!Value,
         \A q \in out' : q[1] = "database" => q \in out \/ (KeysVouched' /\ q[2] = db),
         \A q \in out' : q[1] = "credentials" => q \in out \/ q[2] = keys,
         page' \in {4, 5} => page' = page \/ KeysVouched',
         page' = 5 => page' = page \/ DbVouched'
  PROVE  EnvironmentInv'
  <1> USE EnvironmentParts DEF EnvironmentInv
  <1>1. E!TypeOK' BY EnvironmentTypes DEF EnvironmentTypedNext
  <1>2. (KeysVouched => KeysVouched') /\ (DbVouched => DbVouched') BY DEF KeysVouched, DbVouched
  <1>3. PagesVouched' BY <1>2 DEF PagesVouched
  <1>4. AskedVouched' BY <1>2 DEF AskedVouched
  <1>5. E!SavedIsValidated' /\ ChosenOrTypedOver' BY DEF E!SavedIsValidated, ChosenOrTypedOver
  <1> QED BY <1>1, <1>3, <1>4, <1>5

LEMMA ClickKeepsEnvironment == EnvironmentInv /\ E!Click => EnvironmentInv'
  <1> SUFFICES ASSUME EnvironmentInv, E!Click PROVE EnvironmentInv'
    OBVIOUS
  <1> USE Apart, EnvironmentParts DEF EnvironmentInv
  <1>1. /\ page # 7 /\ page # 5 /\ out' = out \cup {E!Request}
        /\ UNCHANGED <<page, disabled, newEnv, newKeys, envName, keys, keysId, shadowed, db, bucket, bucketList>>
        /\ UNCHANGED <<saved, edits, valid, under>>
    BY DEF E!Click, E!Button, E!wform, E!choices
  <1>2. \/ E!Request \in {<<"keys list", E!Empty>>, <<"name", envName>>, <<"key name", keys>>,
                          <<"credentials", keys>>, <<"invite", E!Empty>>}
        \/ page = 4 /\ E!Request = <<"database", db>>
    <2>1. page \in {1, 2, 3, 4, 6} BY <1>1
    <2>2. CASE page = 1 BY <2>2 DEF E!Request
    <2>3. CASE page = 2 BY <2>3 DEF E!Request
    <2>4. CASE page = 3 BY <2>4 DEF E!Request
    <2>5. CASE page = 4 BY <2>5 DEF E!Request
    <2>6. CASE page = 6 BY <2>6 DEF E!Request
    <2> QED BY <2>1, <2>2, <2>3, <2>4, <2>5, <2>6
  <1>3. out' \subseteq E!Requests \X E!Value
    <2>1. {keys, db, envName, E!Empty} \subseteq E!Value OBVIOUS
    <2>2. E!Request \in E!Requests \X E!Value BY <1>2, <2>1, Asks, ZenonT(40)
    <2> QED BY <1>1, <2>2
  <1>4. page = 4 => KeysVouched BY DEF PagesVouched
  <1>5. KeysVouched' <=> KeysVouched BY <1>1 DEF KeysVouched
  <1>6. \A q \in out' : /\ q[1] = "database" => q \in out \/ (KeysVouched' /\ q[2] = db)
                        /\ q[1] = "credentials" => q \in out \/ q[2] = keys
    <2> SUFFICES /\ E!Request[1] = "database" => KeysVouched' /\ E!Request[2] = db
                 /\ E!Request[1] = "credentials" => E!Request[2] = keys
      BY <1>1
    <2> DEFINE r == E!Request
    <2>1. page = 4 /\ r = <<"database", db>> => r[1] = "database" /\ r[2] = db OBVIOUS
    <2>2. r = <<"credentials", keys>> => r[1] = "credentials" /\ r[2] = keys OBVIOUS
    <2>3. r \in {<<"keys list", E!Empty>>, <<"name", envName>>, <<"key name", keys>>, <<"invite", E!Empty>>}
          => r[1] \in {"keys list", "name", "key name", "invite"}
      <3>1. ASSUME NEW k, NEW v, r = <<k, v>> PROVE r[1] = k BY <3>1
      <3> QED BY <3>1
    <2> HIDE DEF r
    <2>4. r[1] = "database" => page = 4 /\ r[2] = db BY <1>2, <2>1, <2>2, <2>3 DEF r
    <2>5. r[1] = "credentials" => r[2] = keys BY <1>2, <2>1, <2>2, <2>3 DEF r
    <2> QED BY <1>4, <1>5, <2>4, <2>5 DEF r
  <1> QED BY <1>1, <1>3, <1>6, FormKeeps

LEMMA SaveKeeps == EnvironmentInv /\ E!Save => EnvironmentInv'
  <1> SUFFICES ASSUME EnvironmentInv, E!Save PROVE EnvironmentInv'
    OBVIOUS
  <1> USE Apart, EnvironmentParts DEF EnvironmentInv
  <1> DEFINE over == under \cap {E!Stored, db}
             typedOver == IF newKeys THEN E!Empty ELSE shadowed
             s == [name |-> envName, keys |-> E!Stored, db |-> db, over |-> over, shadowed |-> typedOver]
  <1>1. /\ page = 5 /\ out' = out \cup {<<"environment", E!Empty>>} /\ saved' = saved \cup {s}
        /\ keysId' = E!KeptId /\ shadowed' = typedOver
        /\ UNCHANGED <<page, disabled, newEnv, newKeys, envName, keys, db, bucket, bucketList>>
        /\ UNCHANGED <<edits, valid, under>>
    BY DEF E!Save, E!choices
  <1>2. /\ E!KeptId \in Keys \cup {E!Empty} /\ E!Stored \in Keys \cup {E!Empty}
        /\ typedOver \in Keys \cup {E!Empty} /\ E!KeptId \in {keys, typedOver, E!Empty}
        /\ E!Stored \in {keys, typedOver}
    BY DEF E!KeptId, E!Stored, ChosenOrTypedOver
  <1>3. s \in Saveds BY <1>2 DEF Saveds
  <1>4. out' \subseteq E!Requests \X E!Value
    <2>1. <<"environment", E!Empty>> \in E!Requests \X E!Value BY Asks
    <2> QED BY <1>1, <2>1
  <1>5. KeysVouched /\ DbVouched BY <1>1 DEF PagesVouched
  <1>6. {s.keys, s.db} \subseteq valid \cup s.over \cup {s.shadowed, E!Empty}
    BY <1>2, <1>5 DEF KeysVouched, DbVouched
  <1> HIDE DEF s, over, typedOver
  <1>7. E!TypeOK' BY <1>1, <1>2, <1>3, <1>4, EnvironmentTypes DEF EnvironmentTypedNext
  <1>8. PagesVouched' BY <1>1, <1>5 DEF PagesVouched, KeysVouched, DbVouched
  <1>9. AskedVouched' BY <1>1, <1>5 DEF AskedVouched, KeysVouched, DbVouched
  <1>10. ChosenOrTypedOver' BY <1>1, <1>2 DEF ChosenOrTypedOver
  <1>11. E!SavedIsValidated' BY <1>1, <1>6 DEF E!SavedIsValidated
  <1> QED BY <1>7, <1>8, <1>9, <1>10, <1>11

\* The answers that turn no page or one before the keys, and those that validate.
LEMMA AnswerKeeps ==
  ASSUME EnvironmentInv, NEW q \in out,
         \/ E!Saved(q) \/ E!KeysListed(q) \/ E!NameFree(q) \/ E!KeyNameFree(q) \/ E!CredentialsValid(q)
         \/ E!BucketsListed(q) \/ E!DatabaseValid(q) \/ E!InviteAccepted(q) \/ E!Refused(q)
  PROVE  EnvironmentInv'
  <1> USE Apart, EnvironmentParts DEF EnvironmentInv, E!wform, E!choices, E!Filled
  <1>1. q \in E!Requests \X E!Value /\ q[2] \in E!Value OBVIOUS
  <1>2. CASE E!Saved(q)
    <2>1. E!Reset /\ out' \subseteq out /\ UNCHANGED <<saved, edits, valid, under>>
      BY <1>2 DEF E!Saved, E!Answer
    <2> QED BY <2>1, ResetKeeps
  <1>3. CASE E!KeysListed(q) \/ E!NameFree(q) \/ E!InviteAccepted(q)
    <2>1. /\ page' \in {2, 3, 6, 7} /\ disabled' = TRUE /\ out' \subseteq out
          /\ UNCHANGED <<newEnv, newKeys, envName, keys, keysId, shadowed, db, bucket, bucketList, saved, edits, valid, under>>
      BY <1>3 DEF E!KeysListed, E!NameFree, E!InviteAccepted, E!Answer, E!Progress
    <2> QED BY <2>1, FormKeeps
  <1>4. CASE E!BucketsListed(q) \/ E!Refused(q)
    <2>1. /\ bucketList' \in BOOLEAN /\ out' \subseteq out
          /\ UNCHANGED <<page, disabled, newEnv, newKeys, envName, keys, keysId, shadowed, db, bucket>>
          /\ UNCHANGED <<saved, edits, valid, under>>
      BY <1>4 DEF E!BucketsListed, E!Refused, E!Answer
    <2> QED BY <2>1, FormKeeps
  <1>5. CASE E!KeyNameFree(q)
    <2>1. /\ out' = (out \ {q}) \cup {<<"credentials", keys>>}
          /\ UNCHANGED <<page, disabled, newEnv, newKeys, envName, keys, keysId, shadowed, db, bucket, bucketList>>
          /\ UNCHANGED <<saved, edits, valid, under>>
      BY <1>5 DEF E!KeyNameFree, E!Answer
    <2>2. out' \subseteq E!Requests \X E!Value
      <3>1. <<"credentials", keys>> \in E!Requests \X E!Value BY Asks
      <3> QED BY <2>1, <3>1
    <2>3. \A o \in out' : /\ o[1] = "database" => o \in out
                          /\ o[1] = "credentials" => o \in out \/ o[2] = keys
      BY <2>1
    <2> QED BY <2>1, <2>2, <2>3, FormKeeps
  <1>6. CASE E!CredentialsValid(q)
    <2>1. /\ q[1] = "credentials" /\ out' = (out \ {q}) \cup {<<"buckets", q[2]>>}
          /\ page' = 4 /\ disabled' = TRUE /\ valid' = valid \cup {q[2]}
          /\ UNCHANGED <<newEnv, newKeys, envName, keys, keysId, shadowed, db, bucket, bucketList, saved, edits, under>>
      BY <1>6 DEF E!CredentialsValid, E!Answer, E!Progress
    <2>2. out' \subseteq E!Requests \X E!Value
      <3>1. <<"buckets", q[2]>> \in E!Requests \X E!Value BY <1>1, Asks
      <3> QED BY <2>1, <3>1
    <2>3. \A o \in out' : (o[1] = "database" => o \in out) /\ (o[1] = "credentials" => o \in out)
      BY <2>1
    <2>4. KeysVouched' BY <2>1 DEF AskedVouched, KeysVouched
    <2> QED BY <1>1, <2>1, <2>2, <2>3, <2>4, FormKeeps
  <1>7. CASE E!DatabaseValid(q)
    <2>1. /\ q[1] = "database" /\ out' = out \ {q}
          /\ page' = 5 /\ disabled' = TRUE /\ valid' = valid \cup {q[2]}
          /\ UNCHANGED <<newEnv, newKeys, envName, keys, keysId, shadowed, db, bucket, bucketList, saved, edits, under>>
      BY <1>7 DEF E!DatabaseValid, E!Answer, E!Progress
    <2>2. KeysVouched' BY <2>1 DEF PagesVouched, KeysVouched
    <2>3. DbVouched' BY <2>1 DEF AskedVouched, DbVouched
    <2> QED BY <1>1, <2>1, <2>2, <2>3, FormKeeps
  <1> QED BY <1>2, <1>3, <1>4, <1>5, <1>6, <1>7

LEMMA FreeInputKeeps ==
  ASSUME EnvironmentInv, E!Choose \/ E!ToggleKeys \/ \E n \in CaptureNames : E!TypeName(n)
  PROVE  EnvironmentInv'
  <1> USE EnvironmentParts DEF EnvironmentInv, E!choices
  <1>1. CASE E!Choose
    <2>1. /\ bucket' \in BOOLEAN /\ disabled' \in BOOLEAN /\ newEnv' \in BOOLEAN
          /\ UNCHANGED <<page, newKeys, envName, keys, keysId, shadowed, db, bucketList, out, saved, edits, valid, under>>
      BY <1>1 DEF E!Choose
    <2> QED BY <2>1, FormKeeps
  <1>2. ASSUME NEW n \in CaptureNames, E!TypeName(n) PROVE EnvironmentInv'
    <2>1. /\ E!Edit(envName) /\ envName' = n /\ disabled' = FALSE
          /\ UNCHANGED <<page, newEnv, newKeys, keys, keysId, shadowed, db, bucket, bucketList, out, saved, valid, under>>
      BY <1>2 DEF E!TypeName
    <2>2. edits' \in 0..MaxEdits BY <2>1, EditTyped
    <2> QED BY <2>1, <2>2, FormKeeps
  <1>3. CASE E!ToggleKeys
    <2>1. /\ newKeys' \in BOOLEAN /\ disabled' \in BOOLEAN
          /\ UNCHANGED <<page, newEnv, envName, keys, keysId, shadowed, db, bucket, bucketList>>
          /\ UNCHANGED <<out, saved, edits, valid, under>>
      BY <1>3 DEF E!ToggleKeys
    <2> QED BY <2>1, FormKeeps
  <1> QED BY <1>1, <1>2, <1>3

LEMMA CancelKeeps == EnvironmentInv /\ E!Cancel => EnvironmentInv'
  <1> SUFFICES ASSUME EnvironmentInv, E!Cancel PROVE EnvironmentInv'
    OBVIOUS
  <1>1. edits \in 0..MaxEdits BY EnvironmentParts DEF EnvironmentInv
  <1>2. edits' \in 0..MaxEdits BY <1>1, Bounds DEF E!Cancel
  <1> QED BY <1>2, ResetKeeps DEF E!Cancel

LEMMA EnvironmentInit == E!Init => EnvironmentInv
  <1> SUFFICES ASSUME E!Init PROVE EnvironmentInv
    OBVIOUS
  <1> USE Bounds DEF E!Init
  <1>1. 1 \in 1..7 /\ 0 \in 0..MaxEdits OBVIOUS
  <1>4. E!TypeOK BY <1>1, EnvironmentParts
  <1>2. PagesVouched /\ AskedVouched BY DEF PagesVouched, AskedVouched
  <1>3. E!SavedIsValidated /\ ChosenOrTypedOver BY DEF E!SavedIsValidated, ChosenOrTypedOver
  <1> QED BY <1>2, <1>3, <1>4 DEF EnvironmentInv

LEMMA EnvironmentKept == EnvironmentInv /\ [E!Next]_(E!wvars) => EnvironmentInv'
  <1>1. EnvironmentInv /\ E!Next => EnvironmentInv'
    BY FreeInputKeeps, CancelKeeps, ClickKeepsEnvironment, SaveKeeps, KeysKeep, EnterDatabaseKeeps,
       AnswerKeeps
    DEF E!Next
  <1>2. EnvironmentInv /\ UNCHANGED E!wvars => EnvironmentInv'
    <2> SUFFICES ASSUME EnvironmentInv, UNCHANGED E!wvars PROVE EnvironmentInv'
      OBVIOUS
    <2>1. /\ UNCHANGED <<page, disabled, newEnv, newKeys, envName, keys, keysId, shadowed, db, bucket, bucketList>>
          /\ UNCHANGED <<out, saved, edits, valid, under>>
      BY DEF E!wvars, E!wform, E!choices
    <2> QED BY <2>1 DEF EnvironmentInv, E!TypeOK, PagesVouched, AskedVouched, KeysVouched, DbVouched,
                        ChosenOrTypedOver, E!SavedIsValidated
  <1> QED BY <1>1, <1>2
-----------------------------------------------------------------------------
(* The bot                                                                  *)

\* What a page shows is what there is.
Tells(p) == IF configs = <<>> THEN channel[p] = N!None
            ELSE channel[p] = configs[1].channel /\ isOn[p] = configs[1].on

\* What is asked for, by kind, and how far a request can come.
WellAsked ==
  \A q \in sent :
    /\ q.kind = "get" => q.stage \in {"sent", "served"}
    /\ q.kind = "post" => q.asks \in N!Config /\ q.asks.on
    /\ q.kind = "put" => q.asks \in N!Config /\ q.stage \in {"sent", "served"}

\* A page that is not in doubt has one request out at most, and if that is
\* answered, says what the answer makes it say.
OneOut == \A q, o \in sent : q.page = o.page /\ q.page \notin doubt => q = o
Answers(q) ==
  /\ q.stage = "sent" => Tells(q.page)
  /\ q.kind = "get" /\ q.stage = "served" => q.got = N!Found /\ (configs = <<>> => channel[q.page] = N!None)
  /\ q.kind = "post" /\ q.stage = "checked" => configs = <<>>
  /\ q.kind = "post" /\ q.stage = "served" =>
       configs # <<>> /\ configs[1].channel = q.asks.channel /\ configs[1].on
  /\ q.kind = "put" => configs # <<>> /\ configs[1].channel = channel[q.page]
  /\ q.kind = "put" /\ q.stage = "served" => configs[1].on = q.asks.on
WillTell ==
  \A p \in Admins \ doubt :
    /\ \A q \in sent : q.page = p => Answers(q)
    /\ (\A q \in sent : q.page # p) => Tells(p)

\* Of two requests to connect that were past the check at a time the second has
\* raced; and one is there with a configuration only if it has.
CheckedRace ==
  ~raced => /\ Len(configs) <= 1
            /\ \A q, o \in sent : q.stage = "checked" /\ o.stage = "checked" => q = o
            /\ \A q \in sent : q.stage = "checked" => configs = <<>>

\* There are no more configurations than there were requests for one, and one.
ToInsert == {q \in sent : q.kind = "post" /\ q.stage \in {"sent", "checked"}}
FewConfigs == IsFiniteSet(sent) /\ Len(configs) + Cardinality(ToInsert) <= requests + 1

BotInv == N!TypeOK /\ WellAsked /\ OneOut /\ WillTell /\ CheckedRace /\ FewConfigs



\* What there is none of is no channel, so a configuration is not taken for none.
LEMMA Unconfigured == N!None \notin Channels
  BY NamesAssumption DEF N!None

\* The types of the bot, in parts.
LEMMA BotParts ==
  N!TypeOK <=>
    /\ configs \in Seq(N!Config) /\ Len(configs) <= MaxRequests + 1
    /\ channel \in [Admins -> Channels \cup {N!None}] /\ typed \in [Admins -> Channels]
    /\ isOn \in [Admins -> BOOLEAN] /\ box \in [Admins -> BOOLEAN]
    /\ sent \subseteq N!Request /\ requests \in 0..MaxRequests
    /\ doubt \subseteq Admins /\ raced \in BOOLEAN
  BY DEF N!TypeOK
BotTypedNext ==
  /\ configs' \in Seq(N!Config) /\ Len(configs') <= MaxRequests + 1
  /\ channel' \in [Admins -> Channels \cup {N!None}] /\ typed' \in [Admins -> Channels]
  /\ isOn' \in [Admins -> BOOLEAN] /\ box' \in [Admins -> BOOLEAN]
  /\ sent' \subseteq N!Request /\ requests' \in 0..MaxRequests
  /\ doubt' \subseteq Admins /\ raced' \in BOOLEAN
LEMMA BotTypes == BotTypedNext => N!TypeOK'
  <1> SUFFICES ASSUME BotTypedNext PROVE N!TypeOK'
    OBVIOUS
  <1>1. {isOn, box}' \subseteq [Admins -> BOOLEAN] BY DEF BotTypedNext
  <1> QED BY <1>1 DEF N!TypeOK, BotTypedNext

\* The fields of a request, and what there is of it at another stage.
LEMMA RequestParts ==
  ASSUME NEW q \in N!Request
  PROVE  /\ q.id \in 1..MaxRequests /\ q.page \in Admins /\ q.kind \in {"get", "post", "put"} /\ q.asks \in N!Config \cup {N!Null}
         /\ q.stage \in {"sent", "checked", "served", "refused"} /\ q.got \in N!Config \cup {N!Null}
  BY DEF N!Request
LEMMA Staged ==
  ASSUME NEW q \in N!Request, NEW s \in {"sent", "checked", "served", "refused"}
  PROVE  /\ [q EXCEPT !.stage = s] \in N!Request /\ [q EXCEPT !.stage = s].stage = s
         /\ [q EXCEPT !.stage = s].page = q.page /\ [q EXCEPT !.stage = s].kind = q.kind
         /\ [q EXCEPT !.stage = s].asks = q.asks
  BY DEF N!Request
LEMMA Served ==
  ASSUME NEW q \in N!Request, NEW g \in N!Config \cup {N!Null}
  PROVE  /\ [q EXCEPT !.stage = "served", !.got = g] \in N!Request
         /\ [q EXCEPT !.stage = "served", !.got = g].stage = "served"
         /\ [q EXCEPT !.stage = "served", !.got = g].got = g
         /\ [q EXCEPT !.stage = "served", !.got = g].page = q.page
         /\ [q EXCEPT !.stage = "served", !.got = g].kind = q.kind
  BY DEF N!Request

\* The first configuration.
LEMMA FoundFirst ==
  ASSUME configs \in Seq(N!Config)
  PROVE  /\ configs = <<>> => N!Found = N!Null
         /\ configs # <<>> => /\ N!Found = configs[1] /\ configs[1] \in N!Config
                              /\ N!Found # N!Null /\ configs[1].channel # N!None
         /\ N!Found \in N!Config \cup {N!Null}
  <1> USE Unconfigured
  <1>1. configs # <<>> => configs[1] \in N!Config
    <2>1. configs # <<>> => Len(configs) >= 1 /\ Len(configs) \in Nat BY EmptySeq, LenProperties
    <2> QED BY <2>1, ElementOfSeq
  <1>2. \A c \in N!Config : c.channel \in Channels /\ c # N!Null BY DEF N!Config, N!Null
  <1> QED BY <1>1, <1>2 DEF N!Found

\* How many requests to connect are left, when they are no more, one more, one
\* less or others.
LEMMA Insertable ==
  ASSUME FewConfigs, NEW T
  PROVE  /\ Cardinality(ToInsert) \in Nat
         /\ T \subseteq ToInsert => Cardinality(T) \in Nat /\ Cardinality(T) <= Cardinality(ToInsert)
         /\ \A n : T \subseteq ToInsert \cup {n} =>
              Cardinality(T) \in Nat /\ Cardinality(T) <= Cardinality(ToInsert) + 1
         /\ \A q \in ToInsert : T \subseteq ToInsert \ {q} =>
              Cardinality(T) \in Nat /\ Cardinality(T) + 1 <= Cardinality(ToInsert)
         /\ \A q \in ToInsert : \A n : T \subseteq (ToInsert \ {q}) \cup {n} =>
              Cardinality(T) \in Nat /\ Cardinality(T) <= Cardinality(ToInsert)
  <1>1. IsFiniteSet(ToInsert)
    <2>1. ToInsert \in SUBSET sent BY DEF ToInsert
    <2> QED BY <2>1, FS_Subset DEF FewConfigs
  <1>2. Cardinality(ToInsert) \in Nat BY <1>1, FS_CardinalityType
  <1>3. ASSUME NEW S, IsFiniteSet(S), T \subseteq S
        PROVE  Cardinality(T) \in Nat /\ Cardinality(T) <= Cardinality(S) /\ Cardinality(S) \in Nat
    <2>1. T \in SUBSET S BY <1>3
    <2>2. IsFiniteSet(T) /\ Cardinality(T) <= Cardinality(S) BY <1>3, <2>1, FS_Subset
    <2> QED BY <1>3, <2>2, FS_CardinalityType
  <1>4. T \subseteq ToInsert => Cardinality(T) \in Nat /\ Cardinality(T) <= Cardinality(ToInsert)
    BY <1>1, <1>3
  <1>5. ASSUME NEW n, T \subseteq ToInsert \cup {n}
        PROVE  Cardinality(T) \in Nat /\ Cardinality(T) <= Cardinality(ToInsert) + 1
    <2>1. /\ IsFiniteSet(ToInsert \cup {n})
          /\ Cardinality(ToInsert \cup {n}) = IF n \in ToInsert THEN Cardinality(ToInsert)
                                                              ELSE Cardinality(ToInsert) + 1
      BY <1>1, FS_AddElement
    <2> QED BY <1>2, <1>3, <1>5, <2>1
  <1>6. ASSUME NEW q \in ToInsert
        PROVE  /\ IsFiniteSet(ToInsert \ {q}) /\ Cardinality(ToInsert \ {q}) = Cardinality(ToInsert) - 1
               /\ Cardinality(ToInsert \ {q}) \in Nat
    BY <1>1, <1>6, FS_RemoveElement, FS_CardinalityType
  <1>7. ASSUME NEW q \in ToInsert, T \subseteq ToInsert \ {q}
        PROVE  Cardinality(T) \in Nat /\ Cardinality(T) + 1 <= Cardinality(ToInsert)
    <2>1. /\ IsFiniteSet(ToInsert \ {q}) /\ Cardinality(ToInsert \ {q}) = Cardinality(ToInsert) - 1
          /\ Cardinality(ToInsert \ {q}) \in Nat
      BY <1>6
    <2>2. Cardinality(T) \in Nat /\ Cardinality(T) <= Cardinality(ToInsert \ {q}) BY <1>3, <1>7, <2>1
    <2> QED BY <1>2, <2>1, <2>2
  <1>8. ASSUME NEW q \in ToInsert, NEW n, T \subseteq (ToInsert \ {q}) \cup {n}
        PROVE  Cardinality(T) \in Nat /\ Cardinality(T) <= Cardinality(ToInsert)
    <2>1. /\ IsFiniteSet((ToInsert \ {q}) \cup {n})
          /\ Cardinality((ToInsert \ {q}) \cup {n}) = IF n \in ToInsert \ {q} THEN Cardinality(ToInsert \ {q})
                                                      ELSE Cardinality(ToInsert \ {q}) + 1
      BY <1>6, FS_AddElement
    <2> QED BY <1>2, <1>3, <1>6, <1>8, <2>1
  <1> QED BY <1>2, <1>4, <1>5, <1>7, <1>8


\* What a page says is what a request without an answer or its last answer says.
LEMMA SendKeeps ==
  ASSUME BotInv, NEW p \in Admins, NEW kind \in {"get", "post", "put"}, NEW asks \in N!Config \cup {N!Null},
         N!Send(p, kind, asks), UNCHANGED <<channel, isOn, typed>>, box' \in [Admins -> BOOLEAN],
         kind = "post" => asks \in N!Config /\ asks.on,
         kind = "put" => asks \in N!Config /\ channel[p] # N!None
  PROVE  BotInv'
  <1> USE BotParts DEF BotInv
  <1>1. PICK n \in N!Request :
          /\ n.page = p /\ n.kind = kind /\ n.asks = asks /\ n.stage = "sent"
          /\ requests < MaxRequests /\ requests' = requests + 1 /\ sent' = sent \cup {n}
          /\ doubt' = IF \E q \in sent : q.page = p THEN doubt \cup {p} ELSE doubt
          /\ UNCHANGED <<configs, raced>>
    <2> DEFINE m == [id |-> requests + 1, page |-> p, kind |-> kind, asks |-> asks, stage |-> "sent", got |-> N!Null]
    <2>1. /\ requests < MaxRequests /\ requests' = requests + 1 /\ sent' = sent \cup {m}
          /\ doubt' = IF \E q \in sent : q.page = p THEN doubt \cup {p} ELSE doubt
          /\ UNCHANGED <<configs, raced>>
      BY DEF N!Send, N!Count
    <2>2. requests + 1 \in 1..MaxRequests BY <2>1, Bounds
    <2>3. m \in N!Request /\ m.page = p /\ m.kind = kind /\ m.asks = asks /\ m.stage = "sent"
      BY <2>2 DEF N!Request
    <2> HIDE DEF m
    <2> QED BY <2>1, <2>3
  <1>3. requests' \in 0..MaxRequests BY <1>1, Bounds
  <1>4. N!TypeOK' BY <1>1, <1>3, BotTypes DEF BotTypedNext
  <1>5. WellAsked' BY <1>1 DEF WellAsked
  <1>6. OneOut' BY <1>1 DEF OneOut
  <1>7. WillTell'
    <2> SUFFICES ASSUME NEW a \in Admins \ doubt'
                 PROVE  /\ \A q \in sent' : q.page = a => Answers(q)'
                        /\ (\A q \in sent' : q.page # a) => Tells(a)'
      BY DEF WillTell
    <2>1. a \in Admins \ doubt BY <1>1
    <2>2. Tells(a)' <=> Tells(a) BY <1>1 DEF Tells
    <2>3. ASSUME NEW q \in sent, q.page = a PROVE Answers(q)'
      <3>1. Answers(q) BY <2>1, <2>3 DEF WillTell
      <3> QED BY <1>1, <2>2, <2>3, <3>1 DEF Answers, N!Found
    <2>4. ASSUME a = p PROVE Answers(n)'
      <3>1. \A q \in sent : q.page # a BY <1>1, <2>4
      <3>2. Tells(a) BY <2>1, <3>1 DEF WillTell
      <3>3. kind = "put" => configs # <<>> /\ configs[1].channel = channel[a] BY <2>4, <3>2 DEF Tells
      <3> QED BY <1>1, <2>2, <2>4, <3>2, <3>3 DEF Answers
    <2>5. (\A q \in sent' : q.page # a) => Tells(a)' BY <1>1, <2>1, <2>2 DEF WillTell
    <2> QED BY <1>1, <2>3, <2>4, <2>5
  <1>8. CheckedRace' BY <1>1 DEF CheckedRace
  <1>9. FewConfigs'
    <2>1. IsFiniteSet(sent') BY <1>1, FS_AddElement DEF FewConfigs
    <2>2. ToInsert' \subseteq ToInsert \cup {n} BY <1>1 DEF ToInsert
    <2>3. /\ Cardinality(ToInsert) \in Nat /\ Cardinality(ToInsert') \in Nat
          /\ Cardinality(ToInsert') <= Cardinality(ToInsert) + 1
      BY <2>2, Insertable
    <2>4. Len(configs) \in Nat /\ requests \in Nat BY LenProperties, Bounds
    <2> QED BY <1>1, <2>1, <2>3, <2>4 DEF FewConfigs
  <1> QED BY <1>4, <1>5, <1>6, <1>7, <1>8, <1>9

LEMMA PageKeeps ==
  ASSUME BotInv, NEW p \in Admins,
         N!AskInfo(p) \/ N!Connect(p) \/ N!Toggle(p) \/ \E c \in Channels : N!TypeChannel(p, c)
  PROVE  BotInv'
  <1> USE BotParts DEF BotInv
  <1>1. CASE N!AskInfo(p)
    <2>1. N!Send(p, "get", N!Null) /\ UNCHANGED <<channel, isOn, typed, box>>
      BY <1>1 DEF N!AskInfo, N!tab
    <2> QED BY <2>1, SendKeeps
  <1>2. CASE N!Connect(p)
    <2> DEFINE asks == [channel |-> typed[p], on |-> TRUE]
    <2>1. N!Send(p, "post", asks) /\ UNCHANGED <<channel, isOn, typed, box>>
      BY <1>2 DEF N!Connect, N!tab
    <2>2. asks \in N!Config /\ asks.on BY DEF N!Config
    <2> HIDE DEF asks
    <2> QED BY <2>1, <2>2, SendKeeps
  <1>3. CASE N!Toggle(p)
    <2> DEFINE asks == [channel |-> channel[p], on |-> ~box'[p]]
    <2>1. /\ N!Send(p, "put", asks) /\ UNCHANGED <<channel, isOn, typed>> /\ channel[p] # N!None
          /\ box' = [box EXCEPT ![p] = ~@]
      BY <1>3 DEF N!Toggle
    <2>2. box' \in [Admins -> BOOLEAN]
      <3>1. box \in [Admins -> BOOLEAN] /\ (~box[p]) \in BOOLEAN OBVIOUS
      <3> QED BY <2>1, <3>1
    <2>3. asks \in N!Config
      <3>1. channel[p] \in Channels BY <2>1
      <3> QED BY <3>1 DEF N!Config
    <2> HIDE DEF asks
    <2> QED BY <2>1, <2>2, <2>3, SendKeeps
  <1>4. ASSUME NEW c \in Channels, N!TypeChannel(p, c) PROVE BotInv'
    <2>1. /\ typed' = [typed EXCEPT ![p] = c]
          /\ UNCHANGED <<configs, channel, isOn, box, sent, requests, doubt, raced>>
      BY <1>4 DEF N!TypeChannel
    <2>2. typed' \in [Admins -> Channels] BY <2>1
    <2>3. N!TypeOK' BY <2>1, <2>2, BotTypes DEF BotTypedNext
    <2>4. WellAsked' /\ OneOut' /\ CheckedRace' /\ FewConfigs'
      BY <2>1 DEF WellAsked, OneOut, CheckedRace, FewConfigs, ToInsert
    <2>5. WillTell' BY <2>1 DEF WillTell, Answers, Tells, N!Found
    <2> QED BY <2>3, <2>4, <2>5
  <1> QED BY <1>1, <1>2, <1>3, <1>4

\* Of the requests of other pages nothing changes if the configurations do not.
LEMMA OthersAnswer ==
  ASSUME BotInv, UNCHANGED <<configs, channel, isOn>>, NEW q \in sent, NEW a \in Admins \ doubt, a # q.page,
         NEW n, n.page = q.page, sent' = (sent \ {q}) \cup {n}
  PROVE  /\ \A o \in sent' : o.page = a => Answers(o)'
         /\ (\A o \in sent' : o.page # a) => Tells(a)'
  <1> USE DEF BotInv
  <1>1. \A b : Tells(b)' <=> Tells(b) BY DEF Tells
  <1>2. \A o \in sent : o.page = a => Answers(o)
    BY DEF WillTell
  <1>3. \A o \in sent : o.page = a => Answers(o)' BY <1>1, <1>2 DEF Answers, N!Found
  <1>4. (\A o \in sent' : o.page # a) => Tells(a)' BY <1>1 DEF WillTell
  <1> QED BY <1>3, <1>4

LEMMA AskedKeeps == ASSUME BotInv, NEW q \in sent, N!Asked(q) PROVE BotInv'
  <1> USE BotParts DEF BotInv
  <1>1. /\ q.kind = "get" /\ q.stage = "sent"
        /\ doubt' = IF N!Found # N!Null /\ \A o \in sent : o.page = q.page => o = q
                    THEN doubt \ {q.page} ELSE doubt
        /\ UNCHANGED <<configs, channel, isOn, typed, box, requests, raced>>
    BY DEF N!Asked, N!tab
  <1>2. q \in N!Request /\ N!Found \in N!Config \cup {N!Null} BY FoundFirst
  <1>3. PICK n \in N!Request : /\ sent' = (sent \ {q}) \cup {n} /\ n.stage = "served" /\ n.got = N!Found
                              /\ n.page = q.page /\ n.kind = "get"
    <2> DEFINE m == [q EXCEPT !.stage = "served", !.got = N!Found]
    <2>1. sent' = (sent \ {q}) \cup {m} BY DEF N!Asked
    <2>2. /\ m \in N!Request /\ m.stage = "served" /\ m.got = N!Found /\ m.page = q.page /\ m.kind = q.kind
      BY ONLY <1>2, Served DEF m
    <2> QED BY <1>1, <2>1, <2>2
  <1>4. N!TypeOK' BY <1>1, <1>3, BotTypes DEF BotTypedNext
  <1>5. WellAsked' BY <1>1, <1>3 DEF WellAsked
  <1>6. OneOut'
    <2> SUFFICES ASSUME NEW o \in sent', NEW u \in sent', o.page = u.page, o.page \notin doubt' PROVE o = u
      BY DEF OneOut
    <2>1. CASE o.page # q.page BY <1>1, <1>3, <2>1 DEF OneOut
    <2>2. CASE o.page = q.page
      <3>1. \A v \in sent : v.page = q.page => v = q BY <1>1, <2>2 DEF OneOut
      <3> QED BY <1>3, <2>2, <3>1
    <2> QED BY <2>1, <2>2
  <1>7. WillTell'
    <2> SUFFICES ASSUME NEW a \in Admins \ doubt'
                 PROVE  /\ \A o \in sent' : o.page = a => Answers(o)'
                        /\ (\A o \in sent' : o.page # a) => Tells(a)'
      BY DEF WillTell
    <2>1. CASE a # q.page
      <3>1. a \in Admins \ doubt BY <1>1, <2>1
      <3> QED BY <1>1, <1>3, <2>1, <3>1, OthersAnswer
    <2>2. CASE a = q.page
      <3>1. \A v \in sent : v.page = a => v = q BY <1>1, <2>2 DEF OneOut
      <3>2. a \in doubt => N!Found # N!Null BY <1>1, <2>2
      <3>3. a \notin doubt => Tells(a) BY <1>1, <2>2 DEF WillTell, Answers
      <3>4. configs = <<>> => channel[a] = N!None
        <4>1. configs = <<>> => N!Found = N!Null BY FoundFirst
        <4> QED BY <3>2, <3>3, <4>1 DEF Tells
      <3>5. N!Found' = N!Found BY <1>1 DEF N!Found
      <3>6. Answers(n)'
        <4>1. /\ n.stage # "sent" /\ n.kind # "post" /\ n.kind # "put" /\ n.got = N!Found' BY <1>3, <3>5
        <4>2. configs' = <<>> => channel'[n.page] = N!None BY <1>1, <1>3, <2>2, <3>4
        <4> QED BY <4>1, <4>2 DEF Answers
      <3> QED BY <1>1, <1>3, <2>2, <3>1, <3>6
    <2> QED BY <2>1, <2>2
  <1>8. CheckedRace' BY <1>1, <1>3 DEF CheckedRace
  <1>9. FewConfigs'
    <2>1. IsFiniteSet(sent') BY <1>3, FS_AddElement, FS_RemoveElement DEF FewConfigs
    <2>2. ToInsert' \subseteq ToInsert BY <1>1, <1>3 DEF ToInsert
    <2>3. /\ Cardinality(ToInsert) \in Nat /\ Cardinality(ToInsert') \in Nat
          /\ Cardinality(ToInsert') <= Cardinality(ToInsert)
      BY <2>2, Insertable
    <2>4. Len(configs) \in Nat /\ requests \in Nat BY LenProperties, Bounds
    <2> QED BY <1>1, <2>1, <2>3, <2>4 DEF FewConfigs
  <1> QED BY <1>4, <1>5, <1>6, <1>7, <1>8, <1>9


\* What a request becomes at another stage.
LEMMA Becoming ==
  ASSUME N!TypeOK, NEW q \in sent, NEW s \in {"sent", "checked", "served", "refused"}, N!Becomes(q, s)
  PROVE  \E n \in N!Request : /\ sent' = (sent \ {q}) \cup {n} /\ n.stage = s
                              /\ n.page = q.page /\ n.kind = q.kind /\ n.asks = q.asks
  <1> DEFINE m == [q EXCEPT !.stage = s]
  <1>1. q \in N!Request BY BotParts
  <1>2. /\ m \in N!Request /\ m.stage = s /\ m.page = q.page /\ m.kind = q.kind /\ m.asks = q.asks
    BY ONLY <1>1, Staged DEF m
  <1>3. sent' = (sent \ {q}) \cup {m} BY DEF N!Becomes
  <1> QED BY <1>2, <1>3

\* One request takes the place of another of its page.
LEMMA ReplacedOne ==
  ASSUME OneOut, NEW q \in sent, NEW n, n.page = q.page, sent' = (sent \ {q}) \cup {n}, doubt \subseteq doubt'
  PROVE  OneOut'
  <1> SUFFICES ASSUME NEW o \in sent', NEW u \in sent', o.page = u.page, o.page \notin doubt' PROVE o = u
    BY DEF OneOut
  <1>1. o.page \notin doubt OBVIOUS
  <1>2. CASE o.page # q.page BY <1>1, <1>2 DEF OneOut
  <1>3. CASE o.page = q.page
    <2>1. \A v \in sent : v.page = q.page => v = q BY <1>1, <1>3 DEF OneOut
    <2> QED BY <1>3, <2>1
  <1> QED BY <1>2, <1>3

LEMMA CheckedKeeps == ASSUME BotInv, NEW q \in sent, N!Checked(q) PROVE BotInv'
  <1> USE BotParts DEF BotInv
  <1>1. /\ q.kind = "post" /\ q.stage = "sent"
        /\ raced' = (raced \/ \E o \in sent : o.stage = "checked")
        /\ UNCHANGED <<configs, channel, isOn, typed, box, requests, doubt>>
    BY DEF N!Checked, N!tab
  <1>2. PICK n \in N!Request : /\ sent' = (sent \ {q}) \cup {n}
                              /\ n.stage = (IF N!Found = N!Null THEN "checked" ELSE "refused")
                              /\ n.page = q.page /\ n.kind = q.kind /\ n.asks = q.asks
    BY Becoming DEF N!Checked
  <1>3. n.stage = "checked" => configs = <<>> BY <1>2, FoundFirst
  <1>4. N!TypeOK' BY <1>1, <1>2, BotTypes DEF BotTypedNext
  <1>5. WellAsked' BY <1>1, <1>2 DEF WellAsked
  <1>6. OneOut' BY <1>1, <1>2, ReplacedOne
  <1>7. WillTell'
    <2> SUFFICES ASSUME NEW a \in Admins \ doubt'
                 PROVE  /\ \A o \in sent' : o.page = a => Answers(o)'
                        /\ (\A o \in sent' : o.page # a) => Tells(a)'
      BY DEF WillTell
    <2>1. CASE a # q.page BY <1>1, <1>2, <2>1, OthersAnswer
    <2>2. CASE a = q.page
      <3>1. \A v \in sent : v.page = a => v = q BY <1>1, <2>2 DEF OneOut
      <3>2. n.stage \in {"checked", "refused"} /\ n.kind = "post" BY <1>1, <1>2
      <3>3. Answers(n)' BY <1>1, <1>3, <3>2 DEF Answers
      <3> QED BY <1>2, <2>2, <3>1, <3>3
    <2> QED BY <2>1, <2>2
  <1>8. CheckedRace'
    <2> SUFFICES ASSUME ~raced' PROVE /\ Len(configs) <= 1
                                      /\ \A v, o \in sent' : v.stage = "checked" /\ o.stage = "checked" => v = o
                                      /\ \A v \in sent' : v.stage = "checked" => configs = <<>>
      BY <1>1 DEF CheckedRace
    <2>1. Len(configs) <= 1 BY <1>1 DEF CheckedRace
    <2>2. \A o \in sent : o.stage # "checked" BY <1>1
    <2> QED BY <1>2, <1>3, <2>1, <2>2
  <1>9. FewConfigs'
    <2>1. IsFiniteSet(sent') BY <1>2, FS_AddElement, FS_RemoveElement DEF FewConfigs
    <2>2. q \in ToInsert /\ ToInsert' \subseteq (ToInsert \ {q}) \cup {n} BY <1>1, <1>2 DEF ToInsert
    <2>3. /\ Cardinality(ToInsert) \in Nat /\ Cardinality(ToInsert') \in Nat
          /\ Cardinality(ToInsert') <= Cardinality(ToInsert)
      BY <2>2, Insertable
    <2>4. Len(configs) \in Nat /\ requests \in Nat BY LenProperties, Bounds
    <2> QED BY <1>1, <2>1, <2>3, <2>4 DEF FewConfigs
  <1> QED BY <1>4, <1>5, <1>6, <1>7, <1>8, <1>9

LEMMA InsertedKeeps == ASSUME BotInv, NEW q \in sent, N!Inserted(q) PROVE BotInv'
  <1> USE BotParts DEF BotInv
  <1>1. /\ q.stage = "checked" /\ configs' = Append(configs, q.asks)
        /\ doubt' = doubt \cup (Admins \ {q.page})
        /\ UNCHANGED <<channel, isOn, typed, box, requests, raced>>
    BY DEF N!Inserted, N!tab, N!OthersOf
  <1>2. PICK n \in N!Request : /\ sent' = (sent \ {q}) \cup {n} /\ n.stage = "served"
                              /\ n.page = q.page /\ n.kind = q.kind /\ n.asks = q.asks
    BY Becoming DEF N!Inserted
  <1>3. q.kind = "post" /\ q.asks \in N!Config /\ q.asks.on
    <2>1. q.kind \in {"get", "post", "put"} BY RequestParts
    <2> QED BY <1>1, <2>1 DEF WellAsked
  <1>4. /\ configs' \in Seq(N!Config) /\ Len(configs') = Len(configs) + 1 /\ configs' # <<>>
        /\ configs = <<>> => configs'[1] = q.asks
    <2>1. configs = <<>> => Len(configs) + 1 = 1 BY EmptySeq
    <2> QED BY <1>1, <1>3, <2>1, AppendProperties
  <1>5. FewConfigs' /\ Len(configs') <= MaxRequests + 1
    <2>1. IsFiniteSet(sent') BY <1>2, FS_AddElement, FS_RemoveElement DEF FewConfigs
    <2>2. q \in ToInsert /\ ToInsert' \subseteq ToInsert \ {q} BY <1>1, <1>2, <1>3 DEF ToInsert
    <2>3. /\ Cardinality(ToInsert) \in Nat /\ Cardinality(ToInsert') \in Nat
          /\ Cardinality(ToInsert') + 1 <= Cardinality(ToInsert)
      BY <2>2, Insertable
    <2>4. Len(configs) \in Nat /\ requests \in 0..MaxRequests BY LenProperties
    <2>5. Len(configs) + Cardinality(ToInsert) <= requests + 1 BY DEF FewConfigs
    <2>6. Len(configs') + Cardinality(ToInsert') <= requests' + 1 BY <1>1, <1>4, <2>3, <2>4, <2>5, Bounds
    <2>7. Len(configs') <= MaxRequests + 1 BY <1>1, <1>4, <2>3, <2>4, <2>6, Bounds
    <2> QED BY <2>1, <2>6, <2>7 DEF FewConfigs
  <1>6. N!TypeOK' BY <1>1, <1>2, <1>4, <1>5, BotTypes DEF BotTypedNext
  <1>7. WellAsked' BY <1>2, <1>3 DEF WellAsked
  <1>8. OneOut' BY <1>1, <1>2, ReplacedOne
  <1>9. WillTell'
    <2> SUFFICES ASSUME NEW a \in Admins \ doubt'
                 PROVE  /\ \A o \in sent' : o.page = a => Answers(o)'
                        /\ (\A o \in sent' : o.page # a) => Tells(a)'
      BY DEF WillTell
    <2>1. a = q.page /\ a \notin doubt BY <1>1
    <2>2. \A v \in sent : v.page = a => v = q BY <2>1 DEF OneOut
    <2>3. configs = <<>> BY <1>1, <1>3, <2>1 DEF WillTell, Answers
    <2>4. n.kind = "post" /\ configs'[1] = n.asks /\ n.asks.on BY <1>2, <1>3, <1>4, <2>3
    <2>5. Answers(n)' BY <1>2, <1>4, <2>4 DEF Answers
    <2> QED BY <1>2, <2>1, <2>2, <2>5
  <1>10. CheckedRace'
    <2> SUFFICES ASSUME ~raced PROVE /\ Len(configs') <= 1 /\ \A v \in sent' : v.stage # "checked"
      BY <1>1 DEF CheckedRace
    <2>1. configs = <<>> BY <1>1 DEF CheckedRace
    <2>2. Len(configs') <= 1 BY <1>4, <2>1, EmptySeq
    <2>3. \A v \in sent : v.stage = "checked" => v = q BY <1>1 DEF CheckedRace
    <2> QED BY <1>2, <2>2, <2>3
  <1> QED BY <1>5, <1>6, <1>7, <1>8, <1>9, <1>10

\* What editSlackConfig makes of the configurations.
LEMMA AllEdited ==
  ASSUME configs \in Seq(N!Config), NEW on \in BOOLEAN,
         NEW c, c = [i \in DOMAIN configs |-> [configs[i] EXCEPT !.on = on]]
  PROVE  /\ c \in Seq(N!Config) /\ Len(c) = Len(configs) /\ (c = <<>> <=> configs = <<>>)
         /\ configs # <<>> => c[1].channel = configs[1].channel /\ c[1].on = on
  <1>1. Len(configs) \in Nat /\ DOMAIN configs = 1..Len(configs) BY LenProperties
  <1>2. \A i \in 1..Len(configs) : configs[i] \in N!Config BY ElementOfSeq
  <1>3. \A d \in N!Config : /\ [d EXCEPT !.on = on] \in N!Config
                            /\ [d EXCEPT !.on = on].channel = d.channel /\ [d EXCEPT !.on = on].on = on
    BY DEF N!Config
  <1>4. c \in [1..Len(configs) -> N!Config] BY <1>1, <1>2, <1>3
  <1>5. c \in Seq(N!Config) BY <1>1, <1>4, SeqDef
  <1>6. Len(c) \in Nat /\ DOMAIN c = 1..Len(c) BY <1>5, LenProperties
  <1>7. Len(c) = Len(configs)
    <2>1. 1..Len(c) = 1..Len(configs) BY <1>4, <1>6
    <2>2. Len(c) > Len(configs) => Len(c) \in 1..Len(c) /\ Len(c) \notin 1..Len(configs) BY <1>1, <1>6
    <2>3. Len(c) < Len(configs) => Len(configs) \in 1..Len(configs) /\ Len(configs) \notin 1..Len(c)
      BY <1>1, <1>6
    <2> QED BY <1>1, <1>6, <2>1, <2>2, <2>3
  <1>8. c = <<>> <=> configs = <<>> BY <1>5, <1>7, EmptySeq
  <1>9. configs # <<>> => 1 \in 1..Len(configs) BY EmptySeq
  <1>10. configs # <<>> => c[1].channel = configs[1].channel /\ c[1].on = on
    BY <1>1, <1>2, <1>3, <1>9
  <1> QED BY <1>5, <1>7, <1>8, <1>10

LEMMA EditedKeeps == ASSUME BotInv, NEW q \in sent, N!Edited(q) PROVE BotInv'
  <1> USE BotParts DEF BotInv
  <1>1. /\ q.kind = "put" /\ q.stage = "sent"
        /\ configs' = [i \in DOMAIN configs |-> [configs[i] EXCEPT !.on = q.asks.on]]
        /\ doubt' = doubt \cup (Admins \ {q.page})
        /\ UNCHANGED <<channel, isOn, typed, box, requests, raced>>
    BY DEF N!Edited, N!tab, N!OthersOf
  <1>2. PICK n \in N!Request : /\ sent' = (sent \ {q}) \cup {n} /\ n.stage = "served"
                              /\ n.page = q.page /\ n.kind = q.kind /\ n.asks = q.asks
    BY Becoming DEF N!Edited
  <1>3. q.asks \in N!Config BY <1>1 DEF WellAsked
  <1>4. q.asks.on \in BOOLEAN BY <1>3 DEF N!Config
  <1>5. /\ configs' \in Seq(N!Config) /\ Len(configs') = Len(configs) /\ (configs' = <<>> <=> configs = <<>>)
        /\ configs # <<>> => configs'[1].channel = configs[1].channel /\ configs'[1].on = q.asks.on
    <2>1. PICK on \in BOOLEAN : on = q.asks.on BY <1>4
    <2>2. configs' = [i \in DOMAIN configs |-> [configs[i] EXCEPT !.on = on]] BY <1>1, <2>1
    <2>3. configs \in Seq(N!Config) OBVIOUS
    <2> QED BY ONLY <2>1, <2>2, <2>3, AllEdited
  <1>6. N!TypeOK' BY <1>1, <1>2, <1>5, BotTypes DEF BotTypedNext
  <1>7. WellAsked' BY <1>1, <1>2, <1>3 DEF WellAsked
  <1>8. OneOut' BY <1>1, <1>2, ReplacedOne
  <1>9. WillTell'
    <2> SUFFICES ASSUME NEW a \in Admins \ doubt'
                 PROVE  /\ \A o \in sent' : o.page = a => Answers(o)'
                        /\ (\A o \in sent' : o.page # a) => Tells(a)'
      BY DEF WillTell
    <2>1. a = q.page /\ a \notin doubt BY <1>1
    <2>2. \A v \in sent : v.page = a => v = q BY <2>1 DEF OneOut
    <2>3. configs # <<>> /\ configs[1].channel = channel[a] BY <1>1, <2>1 DEF WillTell, Answers
    <2>4. /\ n.kind = "put" /\ n.stage = "served" /\ n.asks = q.asks /\ n.page = a BY <1>1, <1>2, <2>1
    <2>5. Answers(n)' BY <1>1, <1>5, <2>3, <2>4 DEF Answers
    <2> QED BY <1>2, <2>1, <2>2, <2>5
  <1>10. CheckedRace' BY <1>1, <1>2, <1>5 DEF CheckedRace
  <1>11. FewConfigs'
    <2>1. IsFiniteSet(sent') BY <1>2, FS_AddElement, FS_RemoveElement DEF FewConfigs
    <2>2. ToInsert' \subseteq ToInsert BY <1>1, <1>2 DEF ToInsert
    <2>3. /\ Cardinality(ToInsert) \in Nat /\ Cardinality(ToInsert') \in Nat
          /\ Cardinality(ToInsert') <= Cardinality(ToInsert)
      BY <2>2, Insertable
    <2>4. Len(configs) \in Nat /\ requests \in Nat BY LenProperties, Bounds
    <2> QED BY <1>1, <1>5, <2>1, <2>3, <2>4 DEF FewConfigs
  <1> QED BY <1>6, <1>7, <1>8, <1>9, <1>10, <1>11

LEMMA DeletedKeeps == BotInv /\ N!Deleted => BotInv'
  <1> SUFFICES ASSUME BotInv, N!Deleted PROVE BotInv'
    OBVIOUS
  <1> USE BotParts DEF BotInv
  <1>1. /\ N!Found # N!Null /\ requests < MaxRequests /\ requests' = requests + 1 /\ configs' = Tail(configs)
        /\ doubt' = Admins /\ UNCHANGED <<channel, isOn, typed, box, sent, raced>>
    BY DEF N!Deleted, N!Count, N!tab
  <1>2. configs # <<>> BY <1>1, FoundFirst
  <1>3. configs' \in Seq(N!Config) /\ Len(configs') = Len(configs) - 1 BY <1>1, <1>2, HeadTailProperties
  <1>4. Len(configs) \in Nat \ {0} /\ Len(configs') \in Nat BY <1>2, <1>3, EmptySeq
  <1>5. requests' \in 0..MaxRequests BY <1>1, Bounds
  <1>6. Len(configs') <= MaxRequests + 1 BY <1>3, <1>4, Bounds
  <1>7. N!TypeOK' BY <1>1, <1>3, <1>5, <1>6, BotTypes DEF BotTypedNext
  <1>8. WellAsked' BY <1>1 DEF WellAsked
  <1>9. \A q \in sent : q.page \in Admins BY RequestParts
  <1>10. OneOut' /\ WillTell' BY <1>1, <1>9 DEF OneOut, WillTell
  <1>11. CheckedRace'
    <2> SUFFICES ASSUME ~raced PROVE Len(configs') <= 1 /\ \A v \in sent : v.stage # "checked"
      BY <1>1 DEF CheckedRace
    <2> QED BY <1>2, <1>3, <1>4 DEF CheckedRace
  <1>12. FewConfigs'
    <2>1. ToInsert' = ToInsert BY <1>1 DEF ToInsert
    <2>2. Cardinality(ToInsert) \in Nat BY Insertable
    <2> QED BY <1>1, <1>3, <1>4, <2>1, <2>2, Bounds DEF FewConfigs
  <1> QED BY <1>7, <1>8, <1>10, <1>11, <1>12

\* What the tab shows.
LEMMA Shows ==
  ASSUME N!TypeOK, NEW p \in Admins, NEW c \in Channels \cup {N!None}, NEW on \in BOOLEAN, N!Show(p, c, on)
  PROVE  /\ channel' \in [Admins -> Channels \cup {N!None}] /\ isOn' \in [Admins -> BOOLEAN]
         /\ box' \in [Admins -> BOOLEAN] /\ channel'[p] = c /\ isOn'[p] = on
         /\ \A a \in Admins : a # p => channel'[a] = channel[a] /\ isOn'[a] = isOn[a]
  <1> USE BotParts DEF N!Show
  <1>1. channel' = [channel EXCEPT ![p] = c] /\ isOn' = [isOn EXCEPT ![p] = on] OBVIOUS
  <1>2. box' \in [Admins -> BOOLEAN]
    <2>1. PICK b \in BOOLEAN : box' = [box EXCEPT ![p] = b]
      <3>1. CASE channel[p] = N!None /\ c # N!None
        <4>1. box' = [box EXCEPT ![p] = ~on] /\ (~on) \in BOOLEAN BY <3>1
        <4> QED BY <4>1
      <3>2. CASE ~(channel[p] = N!None /\ c # N!None)
        <4>1. box' = [box EXCEPT ![p] = box[p]] /\ box[p] \in BOOLEAN BY <3>2
        <4> QED BY <4>1
      <3> QED BY <3>1, <3>2
    <2> QED BY <2>1
  <1> QED BY <1>1, <1>2

LEMMA AnsweredKeeps == ASSUME BotInv, NEW q \in sent, NEW null \in BOOLEAN, N!Answered(q, null) PROVE BotInv'
  <1> USE BotParts DEF BotInv
  <1>1. /\ null \/ q.stage = "served"
        /\ sent' = sent \ {q}
        /\ doubt' = IF null \/ (q.kind = "post" /\ typed[q.page] # q.asks.channel) THEN doubt \cup {q.page} ELSE doubt
        /\ UNCHANGED <<configs, typed, requests, raced>>
    BY DEF N!Answered
  <1>2. q \in N!Request OBVIOUS
  <1>3. /\ q.page \in Admins /\ q.kind \in {"get", "post", "put"}
        /\ q.got \in N!Config \cup {N!Null} /\ typed[q.page] \in Channels
        /\ channel[q.page] \in Channels \cup {N!None}
    BY <1>2, RequestParts
  <1> DEFINE kept == UNCHANGED <<channel, isOn, box>>
  <1>4. \/ q.kind = "get" /\ (null \/ q.got = N!Null) /\ kept
        \/ q.kind = "get" /\ q.got # N!Null /\ N!Show(q.page, q.got.channel, q.got.on)
        \/ q.kind = "post" /\ null /\ N!Show(q.page, N!None, FALSE)
        \/ q.kind = "post" /\ ~null /\ N!Show(q.page, typed[q.page], TRUE)
        \/ q.kind = "put" /\ N!Show(q.page, channel[q.page], q.asks.on)
    BY <1>3 DEF N!Answered
  <1>5. q.kind = "get" /\ q.got # N!Null => q.got.channel \in Channels /\ q.got.on \in BOOLEAN
    BY <1>3 DEF N!Config
  <1>6. q.kind = "put" => q.asks.on \in BOOLEAN BY DEF WellAsked, N!Config
  <1>7. kept \/ \E c \in Channels \cup {N!None}, on \in BOOLEAN : N!Show(q.page, c, on)
    BY <1>3, <1>4, <1>5, <1>6
  <1>8. /\ channel' \in [Admins -> Channels \cup {N!None}] /\ isOn' \in [Admins -> BOOLEAN]
        /\ box' \in [Admins -> BOOLEAN]
        /\ \A a \in Admins : a # q.page => channel'[a] = channel[a] /\ isOn'[a] = isOn[a]
    <2>1. CASE kept BY <2>1
    <2>2. ASSUME NEW c \in Channels \cup {N!None}, NEW on \in BOOLEAN, N!Show(q.page, c, on)
          PROVE  /\ channel' \in [Admins -> Channels \cup {N!None}] /\ isOn' \in [Admins -> BOOLEAN]
                 /\ box' \in [Admins -> BOOLEAN]
                 /\ \A a \in Admins : a # q.page => channel'[a] = channel[a] /\ isOn'[a] = isOn[a]
      <3>1. N!TypeOK OBVIOUS
      <3> QED BY ONLY <1>3, <2>2, <3>1, Shows
    <2> QED BY <1>7, <2>1, <2>2
  <1>9. N!TypeOK' BY <1>1, <1>3, <1>8, BotTypes DEF BotTypedNext
  <1>10. WellAsked' /\ OneOut' /\ CheckedRace' BY <1>1 DEF WellAsked, OneOut, CheckedRace
  <1>11. q.page \notin doubt' => Tells(q.page)'
    <2> SUFFICES ASSUME q.page \notin doubt' PROVE Tells(q.page)'
      OBVIOUS
    <2>1. ~null /\ q.stage = "served" /\ q.page \notin doubt /\ (q.kind = "post" => typed[q.page] = q.asks.channel)
      BY <1>1
    <2>2. Answers(q) BY <1>3, <2>1 DEF WillTell
    <2>3. CASE q.kind = "get" /\ q.got = N!Null
      <3>1. configs = <<>> /\ channel[q.page] = N!None BY <2>1, <2>2, <2>3, FoundFirst DEF Answers
      <3> QED BY <1>1, <1>4, <2>3, <3>1 DEF Tells
    <2>4. CASE q.kind = "get" /\ q.got # N!Null
      <3>1. configs # <<>> /\ q.got = configs[1] BY <2>1, <2>2, <2>4, FoundFirst DEF Answers
      <3>2. N!Show(q.page, q.got.channel, q.got.on) BY <1>4, <2>1, <2>4
      <3>3. channel'[q.page] = q.got.channel /\ isOn'[q.page] = q.got.on
        BY <1>3, <1>5, <2>4, <3>2, Shows
      <3> QED BY <1>1, <3>1, <3>3 DEF Tells
    <2>5. CASE q.kind = "post"
      <3>1. N!Show(q.page, typed[q.page], TRUE) BY <1>4, <2>1, <2>5
      <3>2. channel'[q.page] = typed[q.page] /\ isOn'[q.page] = TRUE
        <4>1. PICK c \in Channels \cup {N!None}, on \in BOOLEAN : c = typed[q.page] /\ on = TRUE
          BY <1>3
        <4>2. N!TypeOK /\ N!Show(q.page, c, on) BY <3>1, <4>1
        <4>3. channel'[q.page] = c /\ isOn'[q.page] = on BY ONLY <1>3, <4>2, Shows
        <4> QED BY <4>1, <4>3
      <3>3. configs # <<>> /\ configs[1].channel = q.asks.channel /\ configs[1].on
        BY <2>1, <2>2, <2>5 DEF Answers
      <3>4. configs[1].on \in BOOLEAN BY <3>3, FoundFirst DEF N!Config
      <3> QED BY <1>1, <2>1, <2>5, <3>2, <3>3, <3>4 DEF Tells
    <2>6. CASE q.kind = "put"
      <3>1. N!Show(q.page, channel[q.page], q.asks.on) BY <1>4, <2>6
      <3>2. channel'[q.page] = channel[q.page] /\ isOn'[q.page] = q.asks.on
        <4>1. PICK c \in Channels \cup {N!None}, on \in BOOLEAN : c = channel[q.page] /\ on = q.asks.on
          BY <1>3, <1>6, <2>6
        <4>2. N!TypeOK /\ N!Show(q.page, c, on) BY <3>1, <4>1
        <4>3. channel'[q.page] = c /\ isOn'[q.page] = on BY ONLY <1>3, <4>2, Shows
        <4> QED BY <4>1, <4>3
      <3>3. configs # <<>> /\ configs[1].channel = channel[q.page] /\ configs[1].on = q.asks.on
        BY <2>1, <2>2, <2>6 DEF Answers
      <3> QED BY <1>1, <3>2, <3>3 DEF Tells
    <2> QED BY <1>3, <2>3, <2>4, <2>5, <2>6
  <1>12. WillTell'
    <2> SUFFICES ASSUME NEW a \in Admins \ doubt'
                 PROVE  /\ \A o \in sent' : o.page = a => Answers(o)'
                        /\ (\A o \in sent' : o.page # a) => Tells(a)'
      BY DEF WillTell
    <2>1. a \notin doubt BY <1>1
    <2>2. CASE a = q.page
      <3>1. \A v \in sent : v.page = a => v = q BY <2>1, <2>2 DEF OneOut
      <3> QED BY <1>1, <1>11, <2>2, <3>1
    <2>3. CASE a # q.page
      <3>1. Tells(a)' <=> Tells(a) BY <1>1, <1>8, <2>3 DEF Tells
      <3>2. \A o \in sent : o.page = a => Answers(o) BY <2>1 DEF WillTell
      <3>3. ASSUME NEW o \in sent, o.page = a PROVE Answers(o)'
        BY <1>1, <1>8, <2>3, <3>1, <3>2, <3>3 DEF Answers, N!Found
      <3> QED BY <1>1, <2>1, <2>3, <3>1, <3>3 DEF WillTell
    <2> QED BY <2>2, <2>3
  <1>13. FewConfigs'
    <2>1. IsFiniteSet(sent') BY <1>1, FS_RemoveElement DEF FewConfigs
    <2>2. ToInsert' \subseteq ToInsert BY <1>1 DEF ToInsert
    <2>3. /\ Cardinality(ToInsert) \in Nat /\ Cardinality(ToInsert') \in Nat
          /\ Cardinality(ToInsert') <= Cardinality(ToInsert)
      BY <2>2, Insertable
    <2>4. Len(configs) \in Nat /\ requests \in Nat BY LenProperties, Bounds
    <2> QED BY <1>1, <2>1, <2>3, <2>4 DEF FewConfigs
  <1> QED BY <1>9, <1>10, <1>12, <1>13

LEMMA BotInit == N!Init => BotInv
  <1> SUFFICES ASSUME N!Init PROVE BotInv
    OBVIOUS
  <1> USE Bounds DEF N!Init
  <1>1. configs \in Seq(N!Config) /\ Len(configs) <= 1 /\ Len(configs) \in Nat
    <2>1. CASE configs = <<>> BY <2>1, EmptySeq
    <2>2. ASSUME NEW c \in N!Config, configs = <<c>>
          PROVE  configs \in Seq(N!Config) /\ Len(configs) <= 1 /\ Len(configs) \in Nat
      BY ONLY <2>2
    <2> QED BY <2>1, <2>2
  <1>2. N!TypeOK
    <2>1. Len(configs) <= MaxRequests + 1 /\ 0 \in 0..MaxRequests BY <1>1
    <2>2. doubt \subseteq Admins /\ {} \subseteq N!Request OBVIOUS
    <2> QED BY <1>1, <2>1, <2>2, BotParts
  <1>3. WellAsked /\ OneOut /\ CheckedRace BY <1>1 DEF WellAsked, OneOut, CheckedRace
  <1>4. WillTell BY DEF WillTell, Tells
  <1>5. FewConfigs
    <2>1. ToInsert = {} BY DEF ToInsert
    <2> QED BY <1>1, <2>1, FS_EmptySet DEF FewConfigs
  <1> QED BY <1>2, <1>3, <1>4, <1>5 DEF BotInv

LEMMA BotKept == BotInv /\ [N!Next]_(N!nvars) => BotInv'
  <1>1. BotInv /\ N!Next => BotInv'
    BY PageKeeps, AskedKeeps, CheckedKeeps, InsertedKeeps, EditedKeeps, DeletedKeeps, AnsweredKeeps DEF N!Next
  <1>2. BotInv /\ UNCHANGED N!nvars => BotInv'
    <2> SUFFICES ASSUME BotInv, UNCHANGED N!nvars PROVE BotInv'
      OBVIOUS
    <2>1. UNCHANGED <<configs, channel, isOn, typed, box, sent, requests, doubt, raced>>
      BY DEF N!nvars, N!tab
    <2> QED BY <2>1 DEF BotInv, N!TypeOK, WellAsked, OneOut, WillTell, Answers, Tells, N!Found, CheckedRace,
                        FewConfigs, ToInsert
  <1> QED BY <1>1, <1>2

LEMMA BotTells == BotInv => N!NotificationsTell
  <1> SUFFICES ASSUME BotInv PROVE N!NotificationsTell
    OBVIOUS
  <1> USE BotParts DEF BotInv
  <1>1. ASSUME NEW p \in Admins \ doubt, \A q \in sent : q.page # p
        PROVE  IF N!Found = N!Null THEN channel[p] = N!None
               ELSE channel[p] = N!Found.channel /\ isOn[p] = N!Found.on
    <2>1. Tells(p) BY <1>1 DEF WillTell
    <2> QED BY <2>1, FoundFirst DEF Tells
  <1>2. Len(configs) > 1 => raced
    <2>1. Len(configs) \in Nat BY LenProperties
    <2> QED BY <2>1 DEF CheckedRace
  <1> QED BY <1>1, <1>2 DEF N!NotificationsTell
-----------------------------------------------------------------------------
(* The dashboard                                                            *)

Listed(i)  == listed[i] # D!Gone
Out(f)     == await[f] \notin {"nothing", "over"}
Looping(f) == await[f] \in {"replays", "replays read"}

\* The service has the capture of each replay it has, and of what there was when
\* the last refresh began nothing comes back.
RowsFit  == \A r \in ReplayIds : D!There(r) => D!There(Of[r])
SinceFit == /\ \A r \in ReplayIds \cap since : D!There(r) => Of[r] \in since
            /\ \A i \in since : row[i] # D!Unmade

\* A refresh that met no other is the only one.
OnlyOne == ~overlapped => \A f, g \in Refreshes : Out(f) /\ Out(g) => f = g

\* A replay is listed with its capture, but in the midst of a refresh.
Named        == \A r \in ReplayIds : Listed(r) => Listed(Of[r])
NamedBetween == ~overlapped /\ ~broken /\ (\A f \in Refreshes : ~Looping(f)) => Named

\* What an answer with the captures has.
CapturesRead ==
  ~overlapped => \A f \in Refreshes : await[f] = "captures read" =>
    \A c \in Ids \cap since : D!There(c) => got[f][c] # D!Gone

\* What a refresh has that goes through the captures.
Left(f)  == IF await[f] = "replays read" THEN todo[f] \ {D!Min(todo[f])} ELSE todo[f]
SomeLeft == \A f \in Refreshes : Looping(f) => todo[f] # {}
RefreshTells ==
  ~overlapped => \A f \in Refreshes : Looping(f) =>
    /\ \A c \in todo[f] : Listed(c)
    /\ \A r \in ReplayIds : got[f][r] # D!Gone => Listed(Of[r])
    /\ ~broken => /\ \A c \in Ids \cap since : D!There(c) => Listed(c)
                  /\ \A r \in ReplayIds \cap since : D!There(r) => Of[r] \in Left(f) \/ got[f][r] # D!Gone

RefreshInv ==
  RowsFit /\ SinceFit /\ OnlyOne /\ NamedBetween /\ CapturesRead /\ SomeLeft /\ RefreshTells /\ D!ListsTell
DashboardInv == D!TypeOK /\ RefreshInv /\ D!PanelsTell /\ D!PagesTell /\ D!LossExplained


\* The captures, the replay and the words for what is not there.
LEMMA TheItems ==
  /\ D!Items = Ids \cup ReplayIds /\ Ids = {1, 2} /\ ReplayIds = {3}
  /\ \A r \in ReplayIds : r \notin Ids /\ Of[r] \in Ids
  /\ D!Gone = "gone" /\ D!Unmade = "unmade"
  /\ D!Gone \notin Statuses /\ D!Unmade \notin Statuses
  BY NamesAssumption DEF D!Items, Ids, ReplayIds, Of, D!Gone, D!Unmade

LEMMA SameCardinality == ASSUME NEW S PROVE D!Cardinality(S) = Cardinality(S)
  BY DEF D!Cardinality, Cardinality
LEMMA MinIsIn == ASSUME NEW S \in SUBSET Ids, S # {} PROVE D!Min(S) \in S
  <1>1. CASE 1 \in S
    <2>1. \A y \in S : 1 <= y BY TheItems
    <2> QED BY <1>1, <2>1 DEF D!Min
  <1>2. CASE 1 \notin S
    <2>1. S = {2} BY <1>2, TheItems
    <2> QED BY <2>1 DEF D!Min
  <1> QED BY <1>1, <1>2

\* The types of the dashboard, in parts.
Rows     == [D!Items -> Statuses \cup {D!Gone, D!Unmade}]
Shown    == [D!Items -> Statuses \cup {D!Gone, "STOPPING"}]
Received == [D!Items -> Statuses \cup {D!Gone}]
Stages   == {"nothing", "captures", "captures read", "replays", "replays read", "over"}
ScreenTyped ==
  /\ env \in BOOLEAN /\ me \in BOOLEAN /\ users \in BOOLEAN /\ crashed \in BOOLEAN /\ listed \in Shown /\ panel \in Shown
  /\ own \subseteq D!Items /\ shrunk \subseteq D!Lists
  /\ search \in [D!Lists -> SUBSET D!Items] /\ turned \in [D!Lists -> 0..D!Cardinality(D!Items)]
RestTyped ==
  /\ row \in Rows /\ overlapped \in BOOLEAN /\ broken \in BOOLEAN /\ since \subseteq D!Items
  /\ await \in [Refreshes -> Stages] /\ got \in [Refreshes -> Received]
  /\ todo \in [Refreshes -> SUBSET Ids] /\ changes \in 0..MaxChanges /\ turns \in 0..MaxTurns
LEMMA DashboardParts == D!TypeOK <=> ScreenTyped /\ RestTyped
  <1>1. {listed, panel} \subseteq [D!Items -> Statuses \cup {D!Gone, "STOPPING"}] <=> listed \in Shown /\ panel \in Shown
    BY DEF Shown
  <1>2. {own, since} \subseteq SUBSET D!Items <=> own \subseteq D!Items /\ since \subseteq D!Items
    OBVIOUS
  <1>3. {env, me, users, crashed, overlapped, broken} \subseteq BOOLEAN
        <=> /\ env \in BOOLEAN /\ me \in BOOLEAN /\ users \in BOOLEAN /\ crashed \in BOOLEAN
            /\ overlapped \in BOOLEAN /\ broken \in BOOLEAN
    OBVIOUS
  <1>4. /\ Rows = [D!Items -> Statuses \cup {D!Gone, D!Unmade}] /\ Received = [D!Items -> Statuses \cup {D!Gone}]
        /\ Stages = {"nothing", "captures", "captures read", "replays", "replays read", "over"}
    BY DEF Rows, Received, Stages
  <1>5. D!TypeOK =>
          /\ row \in Rows
          /\ {listed, panel} \subseteq [D!Items -> Statuses \cup {D!Gone, "STOPPING"}]
          /\ {env, me, users, crashed, overlapped, broken} \subseteq BOOLEAN
          /\ {own, since} \subseteq SUBSET D!Items /\ shrunk \subseteq D!Lists
          /\ search \in [D!Lists -> SUBSET D!Items] /\ turned \in [D!Lists -> 0..D!Cardinality(D!Items)]
          /\ await \in [Refreshes -> Stages] /\ got \in [Refreshes -> Received]
          /\ todo \in [Refreshes -> SUBSET Ids] /\ changes \in 0..MaxChanges /\ turns \in 0..MaxTurns
    BY ONLY <1>4, Zenon DEF D!TypeOK
  <1>6. ScreenTyped /\ RestTyped => D!TypeOK
    BY ONLY <1>1, <1>2, <1>3, <1>4, Zenon DEF D!TypeOK, ScreenTyped, RestTyped
  <1> QED BY ONLY <1>1, <1>2, <1>3, <1>5, <1>6, Zenon DEF ScreenTyped, RestTyped
LEMMA DashboardTypes == ScreenTyped' /\ RestTyped' => D!TypeOK'
  <1>1. (D!TypeOK <=> ScreenTyped /\ RestTyped)' BY DashboardParts, PTL
  <1> QED BY <1>1

\* How many items a list can have, and how many pages.
LEMMA Lengths ==
  ASSUME NEW l, NEW m \in [D!Lists -> SUBSET D!Items], NEW L \in D!Lists
  PROVE  /\ D!Cardinality(D!Items) \in Nat /\ D!Cardinality(D!Matching(L, l, m)) \in Nat
         /\ D!Cardinality(D!Matching(L, l, m)) <= D!Cardinality(D!Items)
  <1>1. D!Matching(L, l, m) \in SUBSET D!Items
    <2>1. m[L] \subseteq D!Items OBVIOUS
    <2> QED BY <2>1 DEF D!Matching
  <1>2. IsFiniteSet(D!Items)
    <2>1. D!Items = 1..3 BY TheItems
    <2>2. 1 \in Int /\ 3 \in Int OBVIOUS
    <2> QED BY <2>1, <2>2, FS_Interval
  <1>3. \A S : D!Cardinality(S) = Cardinality(S) BY SameCardinality
  <1> QED BY <1>1, <1>2, <1>3, FS_Subset, FS_CardinalityType
LEMMA PagesAre ==
  ASSUME ScreenTyped, NEW L \in D!Lists
  PROVE  D!Pages(L) = D!Cardinality(D!Matching(L, listed, search)) /\ D!Pages(L) \in Nat
  <1>1. D!Cardinality(D!Matching(L, listed, search)) \in Nat BY Lengths DEF ScreenTyped
  <1>2. \A n \in Nat : (n + 1 - 1) \div 1 = n OBVIOUS
  <1>3. D!Pages(L) = (D!Cardinality(D!Matching(L, listed, search)) + 1 - 1) \div 1 BY DEF D!Pages
  <1> QED BY <1>1, <1>2, <1>3

\* What a render makes of the panels and the pages.
LEMMA Renders ==
  ASSUME ScreenTyped, D!PanelsTell, D!PagesTell, NEW e \in BOOLEAN, NEW u \in BOOLEAN, NEW us \in BOOLEAN, NEW l \in Shown,
         NEW objects, NEW m \in [D!Lists -> SUBSET D!Items],
         NEW p \in [D!Lists -> 0..D!Cardinality(D!Items)], D!Render(e, u, us, l, objects, m, p),
         \A i \in D!Items : i \notin objects => l[i] = listed[i],
         \A L \in D!Lists : p[L] = 0 \/ L \in shrunk \/ p[L] < D!Pages(L)
  PROVE  /\ ScreenTyped' /\ listed' = l /\ D!PanelsTell' /\ D!PagesTell'
         /\ crashed' => ~env' \/ ~users' \/ \E r \in ReplayIds : l[r] # D!Gone /\ l[Of[r]] = D!Gone
  <1> DEFINE turn == [L \in D!Lists |-> IF p[L] = 0 \/ D!Members(L, l) = {} THEN 0 ELSE p[L]]
             seen == IF u THEN D!Items \ D!Unseen(l, m, p) ELSE {}
             fresh == seen \ {i \in D!Items : panel[i] # D!Gone /\ D!Group(panel[i]) = D!Group(l[i])}
             throws == (u /\ ~(e /\ us)) \/ \E i \in fresh : D!Nameless(i, l)
             less(L) == D!Cardinality(D!Matching(L, l, m)) < D!Cardinality(D!Matching(L, listed, search))
  <1>1. /\ env' = e /\ me' = u /\ users' = us /\ listed' = l /\ search' = m /\ turned' = turn /\ crashed' = throws
        /\ panel' = [i \in D!Items |-> IF throws \/ i \notin seen THEN D!Gone
                                       ELSE IF i \in fresh THEN l[i] ELSE panel[i]]
        /\ own' = (IF throws THEN {} ELSE fresh \cup ((own \cap seen) \ objects))
        /\ shrunk' = {L \in D!Lists : turn[L] > 0 /\ (L \in shrunk \/ less(L))}
    BY DEF D!Render
  <1>2. seen \subseteq D!Items /\ \A i \in seen : l[i] # D!Gone BY DEF D!Unseen
  <1>3. \A i \in seen \ fresh : panel[i] # D!Gone /\ D!Group(panel[i]) = D!Group(l[i]) BY <1>2
  <1>4. fresh \subseteq seen OBVIOUS
  <1>5. turn \in [D!Lists -> 0..D!Cardinality(D!Items)] /\ \A L \in D!Lists : turn[L] = 0 \/ turn[L] = p[L]
    <2>1. 0 \in 0..D!Cardinality(D!Items)
      <3>1. \A L \in D!Lists : p[L] \in 0..D!Cardinality(D!Items) OBVIOUS
      <3>2. <<"captures", "Past">> \in D!Lists BY DEF D!Lists
      <3>3. D!Cardinality(D!Items) \in Nat BY <3>2, Lengths
      <3> QED BY <3>3
    <2> QED BY <2>1
  <1>6. \A i \in fresh : D!Nameless(i, l) => i \in ReplayIds /\ l[i] # D!Gone /\ l[Of[i]] = D!Gone
    BY <1>2, <1>4 DEF D!Nameless
  <1> HIDE DEF turn, seen, fresh
  <1>7. crashed' => ~env' \/ ~users' \/ \E r \in ReplayIds : l[r] # D!Gone /\ l[Of[r]] = D!Gone
    BY <1>1, <1>6
  <1>8. throws \in BOOLEAN OBVIOUS
  <1> HIDE DEF throws
  <1>9. panel' \in Shown BY <1>1, <1>2 DEF ScreenTyped, Shown
  <1>10. own' \subseteq D!Items /\ shrunk' \subseteq D!Lists BY <1>1, <1>2, <1>4
  <1>11. ScreenTyped' BY <1>1, <1>5, <1>8, <1>9, <1>10 DEF ScreenTyped
  <1>12. D!PanelsTell'
    <2> SUFFICES ASSUME NEW i \in D!Items, panel'[i] # D!Gone
                 PROVE  /\ l[i] # D!Gone /\ D!Group(panel'[i]) = D!Group(l[i])
                        /\ i \in own' => panel'[i] = l[i]
      BY <1>1 DEF D!PanelsTell
    <2>1. ~throws /\ i \in seen /\ panel'[i] = IF i \in fresh THEN l[i] ELSE panel[i] BY <1>1
    <2>2. CASE i \in fresh BY <1>2, <2>1, <2>2
    <2>3. CASE i \notin fresh
      <3>1. i \in own' => i \in own /\ i \notin objects BY <1>1, <2>1, <2>3
      <3>2. i \in own => panel[i] = listed[i] BY <1>3, <2>1, <2>3 DEF D!PanelsTell
      <3> QED BY <1>2, <1>3, <2>1, <2>3, <3>1, <3>2
    <2> QED BY <2>2, <2>3
  <1>13. D!PagesTell'
    <2> SUFFICES ASSUME NEW L \in D!Lists, turn[L] # 0, L \notin shrunk'
                 PROVE  turn[L] < D!Pages(L)'
      BY <1>1 DEF D!PagesTell
    <2>1. D!Pages(L)' = D!Cardinality(D!Matching(L, l, m))
      <3>1. \A n \in Nat : (n + 1 - 1) \div 1 = n OBVIOUS
      <3>2. D!Cardinality(D!Matching(L, l, m)) \in Nat BY Lengths
      <3>3. D!Matching(L, listed, search)' = D!Matching(L, l, m) BY <1>1 DEF D!Matching
      <3>4. D!Pages(L)' = (D!Cardinality(D!Matching(L, listed, search)') + 1 - 1) \div 1 BY DEF D!Pages
      <3> QED BY <3>1, <3>2, <3>3, <3>4
    <2>2. turn[L] = p[L] /\ p[L] \in Nat /\ p[L] # 0
      <3>1. p[L] \in 0..D!Cardinality(D!Items) /\ D!Cardinality(D!Items) \in Nat BY Lengths
      <3> QED BY <1>5, <3>1
    <2>3. L \notin shrunk /\ ~less(L) BY <1>1, <2>2
    <2>4. p[L] < D!Pages(L) BY <2>2, <2>3
    <2>5. D!Pages(L) = D!Cardinality(D!Matching(L, listed, search)) /\ D!Pages(L) \in Nat BY PagesAre
    <2>6. D!Cardinality(D!Matching(L, l, m)) \in Nat BY Lengths
    <2> QED BY <2>1, <2>2, <2>3, <2>4, <2>5, <2>6
  <1> QED BY <1>1, <1>7, <1>11, <1>12, <1>13


\* An empty page is explained by the list that is named between refreshes.
LEMMA Explained ==
  ASSUME NamedBetween', crashed' => ~env' \/ ~users' \/ \E r \in ReplayIds : listed'[r] # D!Gone /\ listed'[Of[r]] = D!Gone
  PROVE  D!LossExplained'
  BY DEF D!LossExplained, NamedBetween, Named, Listed, Looping

\* A render of what is listed: the user, a search or a page.
LEMMA SameListKeeps ==
  ASSUME DashboardInv, NEW u \in BOOLEAN, NEW us \in BOOLEAN, NEW m \in [D!Lists -> SUBSET D!Items],
         NEW p \in [D!Lists -> 0..D!Cardinality(D!Items)], D!Render(env, u, us, listed, {}, m, p),
         \A L \in D!Lists : p[L] = 0 \/ L \in shrunk \/ p[L] < D!Pages(L),
         UNCHANGED <<row, await, got, todo, since, overlapped, broken>>,
         changes' \in 0..MaxChanges, turns' \in 0..MaxTurns
  PROVE  DashboardInv'
  <1> USE DEF DashboardInv, RefreshInv
  <1>0. ScreenTyped /\ RestTyped BY DashboardParts
  <1>1. /\ ScreenTyped' /\ listed' = listed /\ D!PanelsTell' /\ D!PagesTell'
        /\ crashed' => ~env' \/ ~users' \/ \E r \in ReplayIds : listed[r] # D!Gone /\ listed[Of[r]] = D!Gone
    <2>1. env \in BOOLEAN /\ listed \in Shown BY <1>0 DEF ScreenTyped
    <2>2. \A i \in D!Items : i \notin {} => listed[i] = listed[i] OBVIOUS
    <2>3. D!PanelsTell /\ D!PagesTell OBVIOUS
    <2> QED BY <1>0, <2>1, <2>2, <2>3, Renders
  <1>2. RestTyped' BY <1>0 DEF RestTyped
  <1>3. D!TypeOK' BY <1>1, <1>2, DashboardTypes
  <1>4. RowsFit' /\ SinceFit' /\ OnlyOne' /\ CapturesRead' /\ SomeLeft'
    BY DEF RowsFit, SinceFit, OnlyOne, CapturesRead, SomeLeft, Out, Looping, D!There
  <1>5. NamedBetween' /\ RefreshTells' BY <1>1 DEF NamedBetween, RefreshTells, Named, Listed, Looping, Left, D!There
  <1>6. D!ListsTell' BY <1>1 DEF D!ListsTell, D!Over, D!There
  <1>7. D!LossExplained' BY <1>1, <1>5, Explained
  <1> QED BY <1>1, <1>3, <1>4, <1>5, <1>6, <1>7

LEMMA UserAnsweredKeeps == DashboardInv /\ (D!UserAnswered \/ D!UsersAnswered) => DashboardInv'
  <1> SUFFICES ASSUME DashboardInv, D!UserAnswered \/ D!UsersAnswered PROVE DashboardInv'
    OBVIOUS
  <1>1. ScreenTyped /\ RestTyped /\ D!PagesTell BY DashboardParts DEF DashboardInv
  <1>2. /\ \/ D!Render(env, TRUE, users, listed, {}, search, turned)
           \/ D!Render(env, me, ~users, listed, {}, search, turned)
        /\ UNCHANGED <<row, await, got, todo, since, overlapped, broken, changes, turns>>
    BY DEF D!UserAnswered, D!UsersAnswered, D!refreshes, D!counts, D!history
  <1>3. \A L \in D!Lists : turned[L] = 0 \/ L \in shrunk \/ turned[L] < D!Pages(L)
    BY <1>1 DEF D!PagesTell
  <1>4. (~users) \in BOOLEAN OBVIOUS
  <1>5. CASE D!Render(env, TRUE, users, listed, {}, search, turned)
    BY <1>1, <1>2, <1>3, <1>5, SameListKeeps DEF ScreenTyped, RestTyped
  <1>6. CASE D!Render(env, me, ~users, listed, {}, search, turned)
    BY <1>1, <1>2, <1>3, <1>4, <1>6, SameListKeeps DEF ScreenTyped, RestTyped
  <1> QED BY <1>2, <1>5, <1>6

LEMMA TurnTyped == ASSUME RestTyped, D!Turn PROVE turns' \in 0..MaxTurns /\ UNCHANGED changes
  BY Bounds DEF RestTyped, D!Turn

LEMMA TypeKeeps ==
  ASSUME DashboardInv, NEW L \in D!Lists, NEW matches \in SUBSET D!Items, D!Type(L, matches)
  PROVE  DashboardInv'
  <1>1. ScreenTyped /\ RestTyped /\ D!PagesTell BY DashboardParts DEF DashboardInv
  <1>2. /\ D!Render(env, me, users, listed, {}, [search EXCEPT ![L] = matches], turned)
        /\ UNCHANGED <<row, await, got, todo, since, overlapped, broken>> /\ D!Turn
    BY DEF D!Type, D!refreshes, D!history
  <1>3. \A K \in D!Lists : turned[K] = 0 \/ K \in shrunk \/ turned[K] < D!Pages(K)
    BY <1>1 DEF D!PagesTell
  <1>4. [search EXCEPT ![L] = matches] \in [D!Lists -> SUBSET D!Items] BY <1>1 DEF ScreenTyped
  <1>5. changes' \in 0..MaxChanges /\ turns' \in 0..MaxTurns BY <1>1, <1>2, TurnTyped DEF RestTyped
  <1> QED BY <1>1, <1>2, <1>3, <1>4, <1>5, SameListKeeps DEF ScreenTyped

LEMMA PageTurns ==
  ASSUME DashboardInv, NEW L \in D!Lists, D!NextPage(L) \/ D!PrevPage(L)
  PROVE  DashboardInv'
  <1>1. ScreenTyped /\ RestTyped /\ D!PagesTell BY DashboardParts DEF DashboardInv
  <1>2. /\ turned \in [D!Lists -> 0..D!Cardinality(D!Items)] /\ turned[L] \in Nat
        /\ D!Cardinality(D!Items) \in Nat /\ turned[L] <= D!Cardinality(D!Items)
    <2>1. D!Cardinality(D!Items) \in Nat BY <1>1, Lengths DEF ScreenTyped
    <2> QED BY <1>1, <2>1 DEF ScreenTyped
  <1>3. D!Pages(L) \in Nat /\ D!Pages(L) <= D!Cardinality(D!Items)
    BY <1>1, Lengths, PagesAre DEF ScreenTyped
  <1>4. PICK n \in 0..D!Cardinality(D!Items) :
          /\ D!Render(env, me, users, listed, {}, search, [turned EXCEPT ![L] = n])
          /\ n = 0 \/ L \in shrunk \/ n < D!Pages(L)
    <2>1. CASE D!NextPage(L)
      <3>1. /\ D!Render(env, me, users, listed, {}, search, [turned EXCEPT ![L] = turned[L] + 1])
            /\ turned[L] + 1 < D!Pages(L)
        BY <2>1 DEF D!NextPage, D!HasNext
      <3>2. turned[L] + 1 \in 0..D!Cardinality(D!Items) BY <1>2, <1>3, <3>1
      <3> QED BY <3>1, <3>2
    <2>2. CASE D!PrevPage(L)
      <3>1. /\ D!Render(env, me, users, listed, {}, search, [turned EXCEPT ![L] = turned[L] - 1]) /\ turned[L] > 0
        BY <2>2 DEF D!PrevPage, D!HasPrev
      <3>2. L \in shrunk \/ turned[L] < D!Pages(L) BY <1>1, <3>1 DEF D!PagesTell
      <3>3. turned[L] - 1 \in 0..D!Cardinality(D!Items) /\ (L \in shrunk \/ turned[L] - 1 < D!Pages(L))
        BY <1>2, <1>3, <3>1, <3>2
      <3> QED BY <3>1, <3>3
    <2> QED BY <2>1, <2>2
  <1> DEFINE p == [turned EXCEPT ![L] = n]
  <1>5. p \in [D!Lists -> 0..D!Cardinality(D!Items)] BY <1>2
  <1>6. \A K \in D!Lists : p[K] = 0 \/ K \in shrunk \/ p[K] < D!Pages(K)
    BY <1>1, <1>2, <1>4 DEF D!PagesTell
  <1>7. /\ UNCHANGED <<row, await, got, todo, since, overlapped, broken>>
        /\ D!Turn \/ UNCHANGED <<changes, turns>>
    BY DEF D!NextPage, D!PrevPage, D!refreshes, D!counts, D!history
  <1>8. changes' \in 0..MaxChanges /\ turns' \in 0..MaxTurns BY <1>1, <1>7, TurnTyped DEF RestTyped
  <1>9. search \in [D!Lists -> SUBSET D!Items] /\ me \in BOOLEAN /\ users \in BOOLEAN BY <1>1 DEF ScreenTyped
  <1> HIDE DEF p
  <1> QED BY <1>4, <1>5, <1>6, <1>7, <1>8, <1>9, SameListKeeps DEF p

LEMMA RefreshKeeps == ASSUME DashboardInv, NEW f \in Refreshes, D!Refresh(f) PROVE DashboardInv'
  <1> USE DEF DashboardInv, RefreshInv
  <1>0. ScreenTyped /\ RestTyped BY DashboardParts
  <1>1. /\ await[f] = "nothing" /\ await' = [await EXCEPT ![f] = "captures"]
        /\ since' = {i \in D!Items : D!There(i)} /\ overlapped' = ~D!Over /\ broken' = (broken \/ overlapped)
        /\ UNCHANGED <<row, got, todo, changes, turns>>
    BY DEF D!Refresh, D!counts
  <1>2. PICK e \in BOOLEAN : D!Render(e, me, users, listed, {}, search, turned) BY DEF D!Refresh
  <1>3. /\ ScreenTyped' /\ listed' = listed /\ D!PanelsTell' /\ D!PagesTell'
        /\ crashed' => ~env' \/ ~users' \/ \E r \in ReplayIds : listed[r] # D!Gone /\ listed[Of[r]] = D!Gone
    <2>1. me \in BOOLEAN /\ users \in BOOLEAN /\ listed \in Shown /\ search \in [D!Lists -> SUBSET D!Items]
          /\ turned \in [D!Lists -> 0..D!Cardinality(D!Items)]
      BY <1>0 DEF ScreenTyped
    <2>2. \A i \in D!Items : i \notin {} => listed[i] = listed[i] OBVIOUS
    <2>3. \A L \in D!Lists : turned[L] = 0 \/ L \in shrunk \/ turned[L] < D!Pages(L) BY DEF D!PagesTell
    <2>4. D!PanelsTell /\ D!PagesTell OBVIOUS
    <2> QED BY <1>0, <1>2, <2>1, <2>2, <2>3, <2>4, Renders
  <1>4. /\ await' \in [Refreshes -> Stages] /\ await'[f] = "captures"
        /\ \A g \in Refreshes : g # f => await'[g] = await[g]
    BY <1>0, <1>1 DEF RestTyped, Stages
  <1>5. (~D!Over) \in BOOLEAN /\ (broken \/ overlapped) \in BOOLEAN OBVIOUS
  <1>6. RestTyped' BY <1>0, <1>1, <1>4, <1>5 DEF RestTyped
  <1>7. D!TypeOK' BY <1>3, <1>6, DashboardTypes
  <1>8. \A i \in D!Items : D!There(i)' <=> D!There(i) BY <1>1 DEF D!There
  <1>9. RowsFit' BY <1>1 DEF RowsFit, D!There
  <1>10. SinceFit' BY <1>1, <1>8, <1>9, TheItems DEF SinceFit, RowsFit, D!There
  <1>11. ~overlapped' => \A g \in Refreshes : Out(g)' => g = f
    BY <1>1, <1>4 DEF Out, D!Over
  <1>12. OnlyOne' BY <1>11 DEF OnlyOne
  <1>13. \A g \in Refreshes : Looping(g)' <=> Looping(g) BY <1>1, <1>4 DEF Looping
  <1>14. CapturesRead' /\ RefreshTells'
    BY <1>4, <1>11 DEF CapturesRead, RefreshTells, Out, Looping
  <1>15. SomeLeft' BY <1>1, <1>13 DEF SomeLeft
  <1>16. NamedBetween' BY <1>1, <1>3, <1>13 DEF NamedBetween, Named, Listed
  <1>17. D!ListsTell' BY <1>4 DEF D!ListsTell, D!Over
  <1>18. D!LossExplained' BY <1>3, <1>16, Explained
  <1> QED BY <1>3, <1>7, <1>9, <1>10, <1>12, <1>14, <1>15, <1>16, <1>17, <1>18

\* A step that leaves the screen as it is.
LEMMA ScreenStays ==
  ASSUME DashboardInv, UNCHANGED D!screen, RestTyped', NamedBetween'
  PROVE  /\ D!TypeOK' /\ D!PanelsTell' /\ D!PagesTell' /\ listed' = listed
         /\ (crashed => ~env \/ ~users \/ overlapped' \/ broken' \/ \E f \in Refreshes : Looping(f)') => D!LossExplained'
  <1> USE DEF DashboardInv, D!screen
  <1>1. ScreenTyped' BY DashboardParts DEF ScreenTyped
  <1>2. D!TypeOK' BY <1>1, DashboardTypes
  <1>3. D!PanelsTell' BY DEF D!PanelsTell
  <1>4. D!PagesTell' BY DEF D!PagesTell, D!Pages, D!Matching
  <1> QED BY <1>2, <1>3, <1>4 DEF D!LossExplained, Looping

LEMMA ReadRowsKeeps == ASSUME DashboardInv, NEW f \in Refreshes, D!ReadRows(f) PROVE DashboardInv'
  <1> USE DEF DashboardInv, RefreshInv
  <1>0. ScreenTyped /\ RestTyped BY DashboardParts
  <1>1. UNCHANGED <<row, todo, since, overlapped, broken, changes, turns>> /\ UNCHANGED D!screen
    BY DEF D!ReadRows, D!counts, D!history
  <1>2. \A i \in D!Items : D!There(i) => row[i] \in Statuses /\ row[i] # D!Gone
    BY <1>0 DEF RestTyped, Rows, D!There
  <1>3. got \in [Refreshes -> Received] /\ await \in [Refreshes -> Stages] /\ got[f] \in Received
    BY <1>0 DEF RestTyped
  <1>4. CASE await[f] = "captures"
    <2> DEFINE answer == [i \in D!Items |-> IF i \in Ids /\ D!There(i) THEN row[i] ELSE D!Gone]
    <2>1. await' = [await EXCEPT ![f] = "captures read"] /\ got' = [got EXCEPT ![f] = answer]
      BY <1>4 DEF D!ReadRows
    <2>2. answer \in Received BY <1>2 DEF Received
    <2>3. \A c \in Ids : D!There(c) => answer[c] # D!Gone BY <1>2, TheItems
    <2> HIDE DEF answer
    <2>4. /\ await' \in [Refreshes -> Stages] /\ got' \in [Refreshes -> Received]
          /\ await'[f] = "captures read" /\ got'[f] = answer
          /\ \A g \in Refreshes : g # f => await'[g] = await[g] /\ got'[g] = got[g]
      BY <1>3, <2>1, <2>2 DEF Stages
    <2>5. RestTyped' BY <1>0, <1>1, <2>4 DEF RestTyped
    <2>6. \A g \in Refreshes : (Looping(g)' <=> Looping(g)) /\ (Out(g)' => Out(g)) /\ (Looping(g) => g # f)
      BY <1>4, <2>4 DEF Looping, Out
    <2>7. listed' = listed BY <1>1 DEF D!screen
    <2>8. NamedBetween' BY <1>1, <2>6, <2>7 DEF NamedBetween, Named, Listed
    <2>9. D!TypeOK' /\ D!PanelsTell' /\ D!PagesTell' /\ D!LossExplained'
      BY <1>1, <2>5, <2>6, <2>8, ScreenStays DEF D!LossExplained, Looping
    <2>10. RowsFit' /\ SinceFit' BY <1>1 DEF RowsFit, SinceFit, D!There
    <2>11. OnlyOne' BY <1>1, <2>6 DEF OnlyOne
    <2>12. CapturesRead'
      <3> SUFFICES ASSUME ~overlapped, NEW g \in Refreshes, await'[g] = "captures read",
                          NEW c \in Ids \cap since, D!There(c)
                   PROVE  got'[g][c] # D!Gone
        BY <1>1 DEF CapturesRead, D!There
      <3>1. CASE g = f BY <2>3, <2>4, <3>1
      <3>2. CASE g # f BY <2>4, <3>2 DEF CapturesRead
      <3> QED BY <3>1, <3>2
    <2>13. SomeLeft' BY <1>1, <2>6 DEF SomeLeft
    <2>14. RefreshTells'
      <3> SUFFICES ASSUME ~overlapped, NEW g \in Refreshes, Looping(g)
                   PROVE  /\ \A c \in todo[g] : Listed(c)
                          /\ \A r \in ReplayIds : got'[g][r] # D!Gone => Listed(Of[r])
                          /\ ~broken => /\ \A c \in Ids \cap since : D!There(c) => Listed(c)
                                        /\ \A r \in ReplayIds \cap since :
                                             D!There(r) => Of[r] \in Left(g)' \/ got'[g][r] # D!Gone
        BY <1>1, <2>6, <2>7 DEF RefreshTells, Listed, D!There
      <3>1. g # f /\ got'[g] = got[g] /\ Left(g)' = Left(g) BY <1>1, <2>4, <2>6 DEF Left
      <3> QED BY <3>1 DEF RefreshTells
    <2>15. D!ListsTell'
      <3>1. ~D!Over' BY <2>4 DEF D!Over
      <3> QED BY <3>1 DEF D!ListsTell
    <2> QED BY <2>8, <2>9, <2>10, <2>11, <2>12, <2>13, <2>14, <2>15
  <1>5. CASE await[f] = "replays"
    <2> DEFINE answer == [i \in D!Items |->
                 IF i \in ReplayIds /\ Of[i] = D!Min(todo[f]) /\ D!There(i) THEN row[i] ELSE got[f][i]]
    <2>1. await' = [await EXCEPT ![f] = "replays read"] /\ got' = [got EXCEPT ![f] = answer]
      BY <1>5 DEF D!ReadRows
    <2>2. answer \in Received BY <1>2, <1>3 DEF Received
    <2>3. \A r \in ReplayIds : answer[r] = IF Of[r] = D!Min(todo[f]) /\ D!There(r) THEN row[r] ELSE got[f][r]
      BY TheItems
    <2> HIDE DEF answer
    <2>4. /\ await' \in [Refreshes -> Stages] /\ got' \in [Refreshes -> Received]
          /\ await'[f] = "replays read" /\ got'[f] = answer
          /\ \A g \in Refreshes : g # f => await'[g] = await[g] /\ got'[g] = got[g]
      BY <1>3, <2>1, <2>2 DEF Stages
    <2>5. RestTyped' BY <1>0, <1>1, <2>4 DEF RestTyped
    <2>6. \A g \in Refreshes : (Looping(g)' <=> Looping(g)) /\ (Out(g)' => Out(g))
      BY <1>5, <2>4 DEF Looping, Out
    <2>7. listed' = listed BY <1>1 DEF D!screen
    <2>8. NamedBetween' BY <1>1, <2>6, <2>7 DEF NamedBetween, Named, Listed
    <2>9. D!TypeOK' /\ D!PanelsTell' /\ D!PagesTell' /\ D!LossExplained'
      BY <1>1, <2>5, <2>6, <2>8, ScreenStays DEF D!LossExplained, Looping
    <2>10. RowsFit' /\ SinceFit' BY <1>1 DEF RowsFit, SinceFit, D!There
    <2>11. OnlyOne' BY <1>1, <2>6 DEF OnlyOne
    <2>12. CapturesRead'
      <3>1. \A g \in Refreshes : await'[g] = "captures read" => g # f BY <2>4
      <3> QED BY <1>1, <2>4, <3>1 DEF CapturesRead, D!There
    <2>13. SomeLeft' BY <1>1, <2>6 DEF SomeLeft
    <2>14. RefreshTells'
      <3> SUFFICES ASSUME ~overlapped, NEW g \in Refreshes, Looping(g)
                   PROVE  /\ \A c \in todo[g] : Listed(c)
                          /\ \A r \in ReplayIds : got'[g][r] # D!Gone => Listed(Of[r])
                          /\ ~broken => /\ \A c \in Ids \cap since : D!There(c) => Listed(c)
                                        /\ \A r \in ReplayIds \cap since :
                                             D!There(r) => Of[r] \in Left(g)' \/ got'[g][r] # D!Gone
        BY <1>1, <2>6, <2>7 DEF RefreshTells, Listed, D!There
      <3>1. /\ \A c \in todo[g] : Listed(c)
            /\ \A r \in ReplayIds : got[g][r] # D!Gone => Listed(Of[r])
            /\ ~broken => /\ \A c \in Ids \cap since : D!There(c) => Listed(c)
                          /\ \A r \in ReplayIds \cap since : D!There(r) => Of[r] \in Left(g) \/ got[g][r] # D!Gone
        BY DEF RefreshTells
      <3>2. CASE g # f
        <4>1. got'[g] = got[g] /\ Left(g)' = Left(g) BY <1>1, <2>4, <3>2 DEF Left
        <4> QED BY <3>1, <4>1
      <3>3. CASE g = f
        <4>1. todo[f] \in SUBSET Ids /\ todo[f] # {} BY <1>0, <3>3 DEF RestTyped, SomeLeft
        <4>2. D!Min(todo[f]) \in todo[f] BY <4>1, MinIsIn
        <4>3. Left(f) = todo[f] /\ Left(f)' = todo[f] \ {D!Min(todo[f])} BY <1>1, <1>5, <2>4 DEF Left
        <4>4. \A r \in ReplayIds : got'[f][r] # D!Gone => Listed(Of[r])
          BY <2>3, <2>4, <3>1, <3>3, <4>2
        <4>5. \A r \in ReplayIds : D!There(r) => row[r] # D!Gone BY <1>2, TheItems
        <4>6. \A r \in ReplayIds : D!There(r) /\ (Of[r] \in Left(f) \/ got[f][r] # D!Gone)
                                   => Of[r] \in Left(f)' \/ got'[f][r] # D!Gone
          BY <2>3, <2>4, <4>3, <4>5
        <4> QED BY <3>1, <3>3, <4>4, <4>6
      <3> QED BY <3>2, <3>3
    <2>15. D!ListsTell'
      <3>1. ~D!Over' BY <2>4 DEF D!Over
      <3> QED BY <3>1 DEF D!ListsTell
    <2> QED BY <2>8, <2>9, <2>10, <2>11, <2>12, <2>13, <2>14, <2>15
  <1> QED BY <1>4, <1>5 DEF D!ReadRows

\* A round of the loop over the captures, or its end.
LEMMA ContinueKeeps ==
  ASSUME DashboardInv, NEW f \in Refreshes, Out(f), NEW left \in SUBSET Ids, NEW has \in Received,
         NEW l \in Shown, NEW objects, NEW lacking \in BOOLEAN, D!Continue(f, left, has, l, objects, lacking),
         \A i \in D!Items : i \notin objects => l[i] = listed[i],
         ~overlapped => /\ \A c \in left : l[c] # D!Gone
                        /\ \A r \in ReplayIds : has[r] # D!Gone => l[Of[r]] # D!Gone,
         ~overlapped /\ ~lacking =>
           /\ \A c \in Ids \cap since : D!There(c) => l[c] # D!Gone
           /\ \A r \in ReplayIds \cap since : D!There(r) => Of[r] \in left \/ has[r] # D!Gone
  PROVE  DashboardInv'
  <1> USE DEF DashboardInv, RefreshInv
  <1>0. ScreenTyped /\ RestTyped BY DashboardParts
  <1> DEFINE l1 == IF left = {} THEN [i \in D!Items |-> IF i \in ReplayIds THEN has[i] ELSE l[i]] ELSE l
             objects1 == IF left = {} THEN objects \cup ReplayIds ELSE objects
             ends == left = {} \/ l[D!Min(left)] = D!Gone
  <1>1. /\ broken' = (lacking \/ (left # {} /\ l[D!Min(left)] = D!Gone))
        /\ got' = [got EXCEPT ![f] = IF left = {} THEN D!Nothing ELSE has]
        /\ D!Render(env, me, users, l1, objects1, search, turned)
        /\ IF ends THEN await' = [await EXCEPT ![f] = "over"] /\ todo' = [todo EXCEPT ![f] = {}]
                   ELSE await' = [await EXCEPT ![f] = "replays"] /\ todo' = [todo EXCEPT ![f] = left]
        /\ UNCHANGED <<row, changes, turns, since, overlapped>>
    BY DEF D!Continue, D!counts
  <1>2. l1 \in Shown /\ \A i \in D!Items : i \notin objects1 => l1[i] = listed[i]
    BY DEF Shown, Received
  <1>3. /\ \A c \in Ids : l1[c] = l[c]
        /\ left = {} => \A r \in ReplayIds : l1[r] = has[r]
        /\ left # {} => l1 = l
    BY TheItems
  <1>4. left # {} => D!Min(left) \in left BY MinIsIn
  <1> HIDE DEF l1, objects1
  <1>5. /\ ScreenTyped' /\ listed' = l1 /\ D!PanelsTell' /\ D!PagesTell'
        /\ crashed' => ~env' \/ ~users' \/ \E r \in ReplayIds : l1[r] # D!Gone /\ l1[Of[r]] = D!Gone
    <2>1. env \in BOOLEAN /\ me \in BOOLEAN /\ users \in BOOLEAN /\ search \in [D!Lists -> SUBSET D!Items]
          /\ turned \in [D!Lists -> 0..D!Cardinality(D!Items)]
      BY <1>0 DEF ScreenTyped
    <2>2. \A L \in D!Lists : turned[L] = 0 \/ L \in shrunk \/ turned[L] < D!Pages(L) BY DEF D!PagesTell
    <2>3. D!PanelsTell /\ D!PagesTell OBVIOUS
    <2> QED BY <1>0, <1>1, <1>2, <2>1, <2>2, <2>3, Renders
  <1>6. /\ await' \in [Refreshes -> Stages] /\ todo' \in [Refreshes -> SUBSET Ids]
        /\ await'[f] = (IF ends THEN "over" ELSE "replays") /\ todo'[f] = (IF ends THEN {} ELSE left)
        /\ \A g \in Refreshes : g # f => await'[g] = await[g] /\ todo'[g] = todo[g]
    BY <1>0, <1>1 DEF RestTyped, Stages
  <1>7. /\ got' \in [Refreshes -> Received] /\ got'[f] = (IF left = {} THEN D!Nothing ELSE has)
        /\ \A g \in Refreshes : g # f => got'[g] = got[g]
    <2>1. D!Nothing \in Received BY DEF D!Nothing, Received
    <2>2. got \in [Refreshes -> Received] BY <1>0 DEF RestTyped
    <2> QED BY <1>1, <2>1, <2>2
  <1>8. ends \in BOOLEAN /\ broken' \in BOOLEAN BY <1>1
  <1>9. RestTyped' BY <1>0, <1>1, <1>6, <1>7, <1>8 DEF RestTyped
  <1>10. D!TypeOK' BY <1>5, <1>9, DashboardTypes
  <1>11. RowsFit' /\ SinceFit' BY <1>1 DEF RowsFit, SinceFit, D!There
  <1>12. \A g \in Refreshes : Out(g)' => Out(g) BY <1>6 DEF Out
  <1>13. OnlyOne' BY <1>1, <1>12 DEF OnlyOne
  <1>14. \A g \in Refreshes : g # f => (Looping(g)' <=> Looping(g)) BY <1>6 DEF Looping
  <1>15. SomeLeft' BY <1>6, <1>14 DEF SomeLeft, Looping
  <1>16. CapturesRead'
    <2>1. \A g \in Refreshes : await'[g] = "captures read" => g # f BY <1>6
    <2> SUFFICES ASSUME ~overlapped, NEW g \in Refreshes, await'[g] = "captures read",
                        NEW c \in Ids \cap since, D!There(c)
                 PROVE  got'[g][c] # D!Gone
      BY <1>1 DEF CapturesRead, D!There
    <2>2. g # f /\ await[g] = "captures read" /\ got'[g] = got[g] BY <1>6, <1>7, <2>1
    <2> QED BY <2>2 DEF CapturesRead
  <1>17. CASE overlapped
    <2>1. NamedBetween' /\ RefreshTells' /\ D!ListsTell' BY <1>1, <1>17 DEF NamedBetween, RefreshTells, D!ListsTell
    <2>2. D!LossExplained' BY <1>1, <1>17 DEF D!LossExplained
    <2> QED BY <1>5, <1>10, <1>11, <1>13, <1>15, <1>16, <2>1, <2>2
  <1>18. CASE ~overlapped
    <2>1. \A g \in Refreshes : g # f => ~Out(g) /\ ~Looping(g) BY <1>18 DEF OnlyOne, Out, Looping
    <2>2. ends <=> left = {} BY <1>4, <1>18
    <2>3. broken' <=> lacking BY <1>1, <1>4, <1>18
    <2>4. CASE left = {}
      <3>1. await'[f] = "over" BY <1>6, <2>2, <2>4
      <3>2. \A g \in Refreshes : ~Looping(g)' BY <1>14, <2>1, <3>1 DEF Looping
      <3>3. \A r \in ReplayIds : l1[r] # D!Gone => l1[Of[r]] # D!Gone
        BY <1>3, <1>18, <2>4, TheItems
      <3>4. NamedBetween' BY <1>5, <3>3 DEF NamedBetween, Named, Listed
      <3>5. RefreshTells' BY <3>2 DEF RefreshTells
      <3>6. D!ListsTell'
        <4> SUFFICES ASSUME ~lacking, NEW i \in since, D!There(i) PROVE l1[i] # D!Gone
          BY <1>1, <1>5, <2>3, <3>3 DEF D!ListsTell, D!There
        <4>1. i \in Ids \/ i \in ReplayIds BY <1>0, TheItems DEF RestTyped
        <4>2. CASE i \in Ids BY <1>3, <1>18, <4>2
        <4>3. CASE i \in ReplayIds BY <1>3, <1>18, <2>4, <4>3
        <4> QED BY <4>1, <4>2, <4>3
      <3>7. D!LossExplained' BY <1>5, <3>4, Explained
      <3> QED BY <1>5, <1>10, <1>11, <1>13, <1>15, <1>16, <3>4, <3>5, <3>6, <3>7
    <2>5. CASE left # {}
      <3>1. /\ await'[f] = "replays" /\ todo'[f] = left /\ got'[f] = has /\ l1 = l
        BY <1>3, <1>6, <1>7, <2>2, <2>5
      <3>2. Looping(f)' /\ Left(f)' = left BY <3>1 DEF Looping, Left
      <3>3. NamedBetween' /\ D!LossExplained'
        BY <3>1, <3>2 DEF NamedBetween, D!LossExplained, Looping
      <3>4. D!ListsTell'
        <4>1. ~D!Over' BY <3>1 DEF D!Over
        <4> QED BY <4>1 DEF D!ListsTell
      <3>5. RefreshTells'
        <4> SUFFICES ASSUME NEW g \in Refreshes, Looping(g)'
                     PROVE  /\ \A c \in todo'[g] : l[c] # D!Gone
                            /\ \A r \in ReplayIds : got'[g][r] # D!Gone => l[Of[r]] # D!Gone
                            /\ ~lacking => /\ \A c \in Ids \cap since : D!There(c) => l[c] # D!Gone
                                           /\ \A r \in ReplayIds \cap since :
                                                D!There(r) => Of[r] \in Left(g)' \/ got'[g][r] # D!Gone
          BY <1>1, <1>5, <2>3, <3>1 DEF RefreshTells, Listed, D!There
        <4>1. g = f BY <1>14, <2>1
        <4> QED BY <1>18, <3>1, <3>2, <4>1
      <3> QED BY <1>5, <1>10, <1>11, <1>13, <1>15, <1>16, <3>3, <3>4, <3>5
    <2> QED BY <2>4, <2>5
  <1> QED BY <1>17, <1>18

LEMMA CapturesAnsweredKeeps == ASSUME DashboardInv, NEW f \in Refreshes, D!CapturesAnswered(f) PROVE DashboardInv'
  <1> USE DEF DashboardInv, RefreshInv
  <1>0. ScreenTyped /\ RestTyped BY DashboardParts
  <1> DEFINE left == {c \in Ids : got[f][c] # D!Gone}
             l == D!NewCaptures(got[f])
  <1>1. /\ await[f] = "captures read"
        /\ D!Continue(f, left, D!Nothing, l, Ids, broken /\ overlapped)
    BY DEF D!CapturesAnswered
  <1>2. got[f] \in Received /\ listed \in Shown BY <1>0 DEF RestTyped, ScreenTyped
  <1>3. l \in Shown /\ D!Nothing \in Received
    BY <1>2 DEF D!NewCaptures, D!Nothing, Shown, Received
  <1>4. /\ \A c \in Ids : l[c] = got[f][c]
        /\ \A i \in D!Items : i \notin Ids => l[i] = listed[i]
    BY TheItems DEF D!NewCaptures
  <1>5. \A r \in ReplayIds : D!Nothing[r] = D!Gone BY TheItems DEF D!Nothing
  <1>6. left \in SUBSET Ids /\ \A c \in Ids : c \in left <=> got[f][c] # D!Gone OBVIOUS
  <1> HIDE DEF left, l
  <1>7. Out(f) BY <1>1 DEF Out
  <1>8. ~overlapped => \A c \in Ids \cap since : D!There(c) => l[c] # D!Gone
    BY <1>1, <1>4 DEF CapturesRead
  <1>9. ~overlapped => \A r \in ReplayIds \cap since : D!There(r) => Of[r] \in left
    BY <1>4, <1>6, <1>8, TheItems DEF RowsFit, SinceFit
  <1>10. (broken /\ overlapped) \in BOOLEAN OBVIOUS
  <1>11. \A c \in left : l[c] # D!Gone BY <1>4, <1>6
  <1> QED BY <1>1, <1>3, <1>4, <1>5, <1>6, <1>7, <1>8, <1>9, <1>10, <1>11, ContinueKeeps

\* The replays of a capture, or null for them.
LEMMA ReplaysAnsweredKeeps ==
  ASSUME DashboardInv, NEW f \in Refreshes, await[f] \in {"replays", "replays read"},
         NEW lacking \in BOOLEAN, lacking = TRUE \/ (lacking = broken /\ await[f] = "replays read"),
         D!Continue(f, todo[f] \ {D!Min(todo[f])}, got[f], listed, {}, lacking)
  PROVE  DashboardInv'
  <1> USE DEF DashboardInv, RefreshInv
  <1>0. ScreenTyped /\ RestTyped BY DashboardParts
  <1>1. PICK left \in SUBSET Ids : left = todo[f] \ {D!Min(todo[f])} BY <1>0 DEF RestTyped
  <1>2. got[f] \in Received /\ listed \in Shown BY <1>0 DEF RestTyped, ScreenTyped
  <1>3. Out(f) /\ Looping(f) BY DEF Out, Looping
  <1>4. ~overlapped => /\ \A c \in left : listed[c] # D!Gone
                       /\ \A r \in ReplayIds : got[f][r] # D!Gone => listed[Of[r]] # D!Gone
    BY <1>1, <1>3 DEF RefreshTells, Listed
  <1>5. ~overlapped /\ ~lacking =>
          /\ \A c \in Ids \cap since : D!There(c) => listed[c] # D!Gone
          /\ \A r \in ReplayIds \cap since : D!There(r) => Of[r] \in left \/ got[f][r] # D!Gone
    <2> SUFFICES ASSUME ~overlapped, ~lacking
                 PROVE  /\ \A c \in Ids \cap since : D!There(c) => listed[c] # D!Gone
                        /\ \A r \in ReplayIds \cap since : D!There(r) => Of[r] \in left \/ got[f][r] # D!Gone
      OBVIOUS
    <2>1. lacking = broken /\ await[f] = "replays read" OBVIOUS
    <2>2. ~broken BY <2>1
    <2>3. Left(f) = left BY <1>1, <2>1 DEF Left
    <2> QED BY <1>3, <2>2, <2>3 DEF RefreshTells, Listed
  <1>6. D!Continue(f, left, got[f], listed, {}, lacking) BY <1>1
  <1>7. \A i \in D!Items : i \notin {} => listed[i] = listed[i] OBVIOUS
  <1> QED BY <1>2, <1>3, <1>4, <1>5, <1>6, <1>7, ContinueKeeps, ZenonT(40)

LEMMA AnswerMissingKeeps == ASSUME DashboardInv, NEW f \in Refreshes, D!AnswerMissing(f) PROVE DashboardInv'
  <1> USE DEF DashboardInv, RefreshInv
  <1>0. ScreenTyped /\ RestTyped BY DashboardParts
  <1>1. CASE /\ await[f] = "captures" /\ await' = [await EXCEPT ![f] = "over"] /\ broken' = TRUE
             /\ UNCHANGED <<row, D!screen, got, todo, changes, turns, since, overlapped>>
    <2>1. /\ await' \in [Refreshes -> Stages] /\ await'[f] = "over"
          /\ \A g \in Refreshes : g # f => await'[g] = await[g]
      BY <1>0, <1>1 DEF RestTyped, Stages
    <2>2. RestTyped' BY <1>0, <1>1, <2>1 DEF RestTyped
    <2>3. NamedBetween' /\ D!ListsTell' BY <1>1 DEF NamedBetween, D!ListsTell
    <2>4. D!TypeOK' /\ D!PanelsTell' /\ D!PagesTell' /\ D!LossExplained' /\ listed' = listed
      BY <1>1, <2>2, <2>3, ScreenStays
    <2>5. \A g \in Refreshes : (Looping(g)' <=> Looping(g)) /\ (Out(g)' => Out(g)) /\ (Looping(g) => g # f)
      BY <1>1, <2>1 DEF Looping, Out
    <2>6. RowsFit' /\ SinceFit' BY <1>1 DEF RowsFit, SinceFit, D!There
    <2>7. OnlyOne' /\ SomeLeft' BY <1>1, <2>5 DEF OnlyOne, SomeLeft
    <2>8. CapturesRead'
      <3>1. \A g \in Refreshes : await'[g] = "captures read" => await[g] = "captures read" BY <2>1
      <3> QED BY <1>1, <3>1 DEF CapturesRead, D!There
    <2>9. RefreshTells' BY <1>1, <2>4, <2>5 DEF RefreshTells, Listed
    <2> QED BY <2>3, <2>4, <2>6, <2>7, <2>8, <2>9
  <1>2. CASE /\ await[f] = "replays"
             /\ D!Continue(f, todo[f] \ {D!Min(todo[f])}, got[f], listed, {}, TRUE)
    BY <1>2, ReplaysAnsweredKeeps
  <1> QED BY <1>1, <1>2 DEF D!AnswerMissing, D!counts

LEMMA ShowStoppingKeeps == ASSUME DashboardInv, NEW i \in D!Items, D!ShowStopping(i) PROVE DashboardInv'
  <1> USE DEF DashboardInv, RefreshInv
  <1>0. ScreenTyped /\ RestTyped BY DashboardParts
  <1>1. /\ ~crashed /\ panel[i] = "RUNNING" /\ panel' = [panel EXCEPT ![i] = "STOPPING"]
        /\ listed' = (IF i \in own THEN [listed EXCEPT ![i] = "STOPPING"] ELSE listed)
        /\ UNCHANGED <<row, env, me, users, own, search, turned, crashed, shrunk>>
        /\ UNCHANGED <<await, got, todo, changes, turns, since, overlapped, broken>>
    BY DEF D!ShowStopping, D!Live, D!refreshes, D!counts, D!history
  <1>2. listed \in Shown /\ panel \in Shown BY <1>0 DEF ScreenTyped
  <1>3. /\ panel' \in Shown /\ panel'[i] = "STOPPING" /\ \A j \in D!Items : j # i => panel'[j] = panel[j]
        /\ listed' \in Shown /\ \A j \in D!Items : j # i => listed'[j] = listed[j]
        /\ listed'[i] = (IF i \in own THEN "STOPPING" ELSE listed[i])
    BY <1>1, <1>2 DEF Shown
  <1>4. D!Gone # "STOPPING" /\ D!Gone # "RUNNING" BY TheItems
  <1>5. D!Group("STOPPING") = "Active" /\ D!Group("RUNNING") = "Active" BY DEF D!Group
  <1>6. listed[i] # D!Gone /\ D!Group(listed[i]) = "Active" /\ (i \in own => listed[i] = "RUNNING")
    BY <1>1, <1>4, <1>5 DEF D!PanelsTell
  <1>7. \A j \in D!Items : /\ listed'[j] = D!Gone <=> listed[j] = D!Gone
                           /\ D!Group(listed'[j]) = D!Group(listed[j])
    BY <1>3, <1>4, <1>5, <1>6
  <1>8. ScreenTyped' BY <1>0, <1>1, <1>3 DEF ScreenTyped
  <1>9. RestTyped' BY <1>0, <1>1 DEF RestTyped
  <1>10. D!TypeOK' BY <1>8, <1>9, DashboardTypes
  <1>11. D!PanelsTell' BY <1>1, <1>3, <1>4, <1>5, <1>6 DEF D!PanelsTell
  <1>12. D!PagesTell'
    <2>1. ASSUME NEW L \in D!Lists
          PROVE  D!Matching(L, listed, search)' = D!Matching(L, listed, search)
      <3>1. search[L] \subseteq D!Items BY <1>0, <2>1 DEF ScreenTyped
      <3>2. \A j \in D!Items : D!List(j, listed'[j]) = D!List(j, listed[j]) BY <1>7 DEF D!List
      <3> QED BY <1>1, <1>7, <3>1, <3>2 DEF D!Matching
    <2>2. \A L \in D!Lists : D!Pages(L)' = D!Pages(L) BY <2>1 DEF D!Pages
    <2> QED BY <1>1, <2>2 DEF D!PagesTell
  <1>13. \A j \in D!Items : Listed(j)' <=> Listed(j) BY <1>7 DEF Listed
  <1>14. \A r \in ReplayIds : r \in D!Items /\ Of[r] \in D!Items BY TheItems
  <1>15. RowsFit' /\ SinceFit' /\ OnlyOne' /\ CapturesRead' /\ SomeLeft'
    BY <1>1 DEF RowsFit, SinceFit, OnlyOne, CapturesRead, SomeLeft, Out, Looping, D!There
  <1>16. Named' <=> Named BY <1>13, <1>14 DEF Named
  <1>17. NamedBetween' BY <1>1, <1>16 DEF NamedBetween, Looping
  <1>18. RefreshTells'
    <2>1. \A f \in Refreshes : todo[f] \subseteq D!Items BY <1>0, TheItems DEF RestTyped
    <2>2. Ids \subseteq D!Items BY TheItems
    <2> QED BY <1>1, <1>13, <1>14, <2>1, <2>2 DEF RefreshTells, Looping, Left, D!There
  <1>19. D!ListsTell'
    <2>1. since \subseteq D!Items BY <1>0 DEF RestTyped
    <2> QED BY <1>1, <1>7, <1>14, <2>1 DEF D!ListsTell, D!Over, D!There
  <1>20. D!LossExplained' BY <1>1 DEF D!LossExplained
  <1> QED BY <1>10, <1>11, <1>12, <1>15, <1>17, <1>18, <1>19, <1>20

LEMMA RowChangesKeeps ==
  ASSUME DashboardInv, NEW i \in D!Items, NEW s \in Statuses \cup {D!Gone}, D!RowChanges(i, s)
  PROVE  DashboardInv'
  <1> USE DEF DashboardInv, RefreshInv
  <1>0. ScreenTyped /\ RestTyped BY DashboardParts
  <1>1. /\ changes < MaxChanges /\ changes' = changes + 1 /\ UNCHANGED D!screen
        /\ UNCHANGED <<turns, await, got, todo, since, overlapped, broken>>
    BY DEF D!RowChanges, D!refreshes, D!history
  <1>2. \/ /\ row[i] = D!Unmade /\ s # D!Gone /\ (i \in ReplayIds => row[Of[i]] = "DONE")
           /\ row' = [row EXCEPT ![i] = s]
        \/ D!There(i) /\ s # D!Gone /\ row' = [row EXCEPT ![i] = s]
        \/ D!There(i) /\ s = D!Gone
           /\ row' = [j \in D!Items |-> IF j = i \/ (j \in ReplayIds /\ Of[j] = i) THEN D!Gone ELSE row[j]]
    BY TheItems DEF D!RowChanges
  <1>3. row \in Rows /\ since \subseteq D!Items BY <1>0 DEF RestTyped
  <1>4. s # D!Gone => s \in Statuses /\ s # D!Unmade BY TheItems
  <1>5. row' \in Rows BY <1>2, <1>3, <1>4 DEF Rows
  <1>6. changes' \in 0..MaxChanges BY <1>0, <1>1, Bounds DEF RestTyped
  <1>7. RestTyped' BY <1>0, <1>1, <1>5, <1>6 DEF RestTyped
  <1>8. listed' = listed BY <1>1 DEF D!screen
  <1>9. NamedBetween' BY <1>1, <1>8 DEF NamedBetween, Named, Listed, Looping
  <1>10. D!TypeOK' /\ D!PanelsTell' /\ D!PagesTell' /\ D!LossExplained'
    BY <1>1, <1>7, <1>9, ScreenStays DEF D!LossExplained, Looping
  <1>11. \A j \in D!Items : row[j] # D!Unmade => row'[j] # D!Unmade /\ (D!There(j)' => D!There(j))
    BY <1>2, <1>3, <1>4, TheItems DEF D!There, Rows
  <1>12. RowsFit'
    <2> SUFFICES ASSUME NEW r \in ReplayIds, D!There(r)' PROVE D!There(Of[r])'
      BY DEF RowsFit
    <2>1. r \in D!Items /\ Of[r] \in D!Items /\ Of[r] \notin ReplayIds /\ Of[r] # r BY TheItems
    <2>2. CASE row' = [row EXCEPT ![i] = s] /\ s # D!Gone
      <3>1. row'[i] = s /\ \A j \in D!Items : j # i => row'[j] = row[j] BY <1>3, <2>2 DEF Rows
      <3>2. CASE Of[r] = i BY <1>4, <2>2, <3>1, <3>2 DEF D!There
      <3>3. CASE Of[r] # i
        <4>1. D!There(Of[r]) => D!There(Of[r])' BY <2>1, <3>1, <3>3 DEF D!There
        <4>2. CASE r # i BY <2>1, <3>1, <4>1, <4>2 DEF RowsFit, D!There
        <4>3. CASE r = i
          <5>1. D!There(r) \/ row[Of[r]] = "DONE" BY <1>2, <2>2, <4>3
          <5>2. D!Gone # "DONE" /\ D!Unmade # "DONE" BY TheItems
          <5> QED BY <4>1, <5>1, <5>2 DEF RowsFit, D!There
        <4> QED BY <4>2, <4>3
      <3> QED BY <3>2, <3>3
    <2>3. CASE row' = [j \in D!Items |-> IF j = i \/ (j \in ReplayIds /\ Of[j] = i) THEN D!Gone ELSE row[j]]
      <3>1. r # i /\ Of[r] # i BY <2>1, <2>3 DEF D!There
      <3>2. row'[r] = row[r] /\ row'[Of[r]] = row[Of[r]] BY <2>1, <2>3, <3>1
      <3> QED BY <3>2 DEF RowsFit, D!There
    <2> QED BY <1>2, <2>2, <2>3
  <1>13. \A j \in since : row'[j] # D!Unmade /\ (D!There(j)' => D!There(j)) BY <1>3, <1>11 DEF SinceFit
  <1>14. SinceFit' BY <1>1, <1>13 DEF SinceFit
  <1>15. OnlyOne' /\ SomeLeft' BY <1>1 DEF OnlyOne, SomeLeft, Out, Looping
  <1>16. CapturesRead' BY <1>1, <1>13 DEF CapturesRead
  <1>17. RefreshTells' BY <1>1, <1>8, <1>13 DEF RefreshTells, Listed, Looping, Left
  <1>18. D!ListsTell' BY <1>1, <1>8, <1>13 DEF D!ListsTell, D!Over
  <1> QED BY <1>9, <1>10, <1>12, <1>14, <1>15, <1>16, <1>17, <1>18

LEMMA DashboardInit == D!Init => DashboardInv
  <1> SUFFICES ASSUME D!Init PROVE DashboardInv
    OBVIOUS
  <1> USE Bounds DEF D!Init
  <1>1. D!Nothing \in Shown /\ D!Nothing \in Received /\ \A i \in D!Items : D!Nothing[i] = D!Gone
    BY DEF D!Nothing, Shown, Received
  <1>2. [L \in D!Lists |-> D!Items] \in [D!Lists -> SUBSET D!Items] OBVIOUS
  <1>3. D!Cardinality(D!Items) \in Nat
    <2>1. <<"captures", "Past">> \in D!Lists BY DEF D!Lists
    <2> QED BY <1>2, <2>1, Lengths
  <1>4. ScreenTyped
    <2>1. [L \in D!Lists |-> 0] \in [D!Lists -> 0..D!Cardinality(D!Items)] BY <1>3
    <2>2. own = {} /\ shrunk = {} OBVIOUS
    <2>3. env \in BOOLEAN /\ me \in BOOLEAN /\ users \in BOOLEAN /\ crashed \in BOOLEAN OBVIOUS
    <2> QED BY <1>1, <1>2, <2>1, <2>2, <2>3 DEF ScreenTyped
  <1>5. row \in Rows BY DEF Rows
  <1>6. RestTyped
    <2>1. [f \in Refreshes |-> "nothing"] \in [Refreshes -> Stages] BY DEF Stages
    <2>2. [f \in Refreshes |-> D!Nothing] \in [Refreshes -> Received] BY <1>1
    <2>3. [f \in Refreshes |-> {}] \in [Refreshes -> SUBSET Ids] OBVIOUS
    <2>4. changes \in 0..MaxChanges /\ turns \in 0..MaxTurns OBVIOUS
    <2>5. overlapped \in BOOLEAN /\ broken \in BOOLEAN /\ since = {} OBVIOUS
    <2> QED BY <1>5, <2>1, <2>2, <2>3, <2>4, <2>5 DEF RestTyped
  <1>7. D!TypeOK BY <1>4, <1>6, DashboardParts
  <1>8. RowsFit
    <2> SUFFICES ASSUME NEW r \in ReplayIds, D!There(r) PROVE D!There(Of[r])
      BY DEF RowsFit
    <2>1. r \in D!Items /\ row[r] # D!Unmade BY TheItems DEF D!There
    <2>2. row[Of[r]] = "DONE" BY <2>1
    <2>3. D!Gone # "DONE" /\ D!Unmade # "DONE" BY TheItems
    <2> QED BY <2>2, <2>3 DEF D!There
  <1>9. SinceFit /\ OnlyOne /\ CapturesRead /\ SomeLeft /\ RefreshTells
    BY DEF SinceFit, OnlyOne, CapturesRead, SomeLeft, RefreshTells, Out, Looping
  <1>10. NamedBetween /\ D!ListsTell
    <2>1. \A r \in ReplayIds : listed[r] = D!Gone BY <1>1, TheItems
    <2> QED BY <2>1 DEF NamedBetween, Named, Listed, D!ListsTell
  <1>11. D!PanelsTell /\ D!PagesTell /\ D!LossExplained
    BY <1>1 DEF D!PanelsTell, D!PagesTell, D!LossExplained
  <1> QED BY <1>7, <1>8, <1>9, <1>10, <1>11 DEF DashboardInv, RefreshInv

LEMMA DashboardKept == DashboardInv /\ [D!Next]_(D!dvars) => DashboardInv'
  <1> SUFFICES ASSUME DashboardInv, [D!Next]_(D!dvars) PROVE DashboardInv'
    OBVIOUS
  <1>0. ScreenTyped /\ RestTyped BY DashboardParts DEF DashboardInv
  <1>1. ASSUME NEW f \in Refreshes,
               \/ D!Refresh(f) \/ D!ReadRows(f) \/ D!CapturesAnswered(f) \/ D!ReplaysAnswered(f)
               \/ D!AnswerMissing(f)
        PROVE  DashboardInv'
    <2>1. CASE D!ReplaysAnswered(f)
      <3>1. /\ await[f] = "replays read" /\ broken \in BOOLEAN
            /\ D!Continue(f, todo[f] \ {D!Min(todo[f])}, got[f], listed, {}, broken)
        BY <1>0, <2>1 DEF D!ReplaysAnswered, RestTyped
      <3> QED BY <3>1, ReplaysAnsweredKeeps
    <2> QED BY <1>1, <2>1, RefreshKeeps, ReadRowsKeeps, CapturesAnsweredKeeps, AnswerMissingKeeps
  <1>2. ASSUME NEW L \in D!Lists,
               \/ D!NextPage(L) \/ D!PrevPage(L)
               \/ \E matches \in SUBSET {i \in D!Items : D!Kind(i) = L[1]} : D!Type(L, matches)
        PROVE  DashboardInv'
    BY <1>2, PageTurns, TypeKeeps
  <1>3. ASSUME NEW i \in D!Items, D!StopCapture(i) \/ D!EndTimer(i) \/ D!ReplayTimer(i)
        PROVE  DashboardInv'
    BY <1>3, ShowStoppingKeeps DEF D!StopCapture, D!EndTimer, D!ReplayTimer
  <1>4. CASE UNCHANGED D!dvars
    <2>1. UNCHANGED D!screen /\ UNCHANGED <<row, await, got, todo, changes, turns, since, overlapped, broken>>
      BY <1>4 DEF D!dvars, D!refreshes, D!counts, D!history
    <2>2. RestTyped' BY <1>0, <2>1 DEF RestTyped
    <2>3. listed' = listed BY <2>1 DEF D!screen
    <2>4. RefreshInv'
      BY <2>1, <2>3 DEF DashboardInv, RefreshInv, RowsFit, SinceFit, OnlyOne, NamedBetween, Named, CapturesRead, SomeLeft,
                        RefreshTells, Listed, Looping, Out, Left, D!ListsTell, D!Over, D!There
    <2>5. D!TypeOK' /\ D!PanelsTell' /\ D!PagesTell' /\ D!LossExplained'
      BY <2>1, <2>2, <2>4, ScreenStays DEF RefreshInv, DashboardInv, D!LossExplained, Looping
    <2> QED BY <2>4, <2>5 DEF DashboardInv
  <1> QED BY <1>1, <1>2, <1>3, <1>4, UserAnsweredKeeps, RowChangesKeeps DEF D!Next
-----------------------------------------------------------------------------
(* The client                                                               *)

\* What is always so of the program that there is.
IInv ==
  /\ part = "replay" => ReplayInv
  /\ part = "capture" => CaptureInv
  /\ part = "page" => PageInv
  /\ part = "environment" => EnvironmentInv
  /\ part = "bot" => BotInv
  /\ part = "dashboard" => DashboardInv

\* Every program starts in its invariant, as its own lemma says.
LEMMA InitInv == MCInit => IInv
  <1> SUFFICES ASSUME MCInit PROVE IInv
    OBVIOUS
  <1>1. /\ part = "replay" => R!Init
        /\ part = "capture" => C!Init
        /\ part = "page" => P!Init
        /\ part = "environment" => E!Init
        /\ part = "bot" => N!Init
        /\ part = "dashboard" => D!Init
    BY DEF MCInit
  <1> QED BY <1>1, ReplayInit, CaptureInit, PageInit, EnvironmentInit, BotInit, DashboardInit DEF IInv

\* A step is one of the program there is, or of none.
LEMMA StepOfPart ==
  ASSUME [MCNext]_all
  PROVE  /\ part' = part
         /\ part = "replay" => [R!Next]_(R!rvars)
         /\ part = "capture" => [C!Next]_(C!cvars)
         /\ part = "page" => [P!Next]_(P!pvars)
         /\ part = "environment" => [E!Next]_(E!wvars)
         /\ part = "bot" => [N!Next]_(N!nvars)
         /\ part = "dashboard" => [D!Next]_(D!dvars)
  <1>1. CASE MCNext BY <1>1 DEF MCNext
  <1>2. CASE UNCHANGED all
    <2> USE <1>2 DEF all, ofReplay, ofCapture, ofPage, ofEnvironment, ofDashboard, ofBot
    <2>1. UNCHANGED R!rvars BY DEF R!rvars, R!form, R!clicks, R!history
    <2>2. UNCHANGED C!cvars BY DEF C!cvars, C!form, C!clicks, C!service
    <2>3. UNCHANGED P!pvars BY DEF P!pvars, P!page, P!history
    <2>4. UNCHANGED E!wvars BY DEF E!wvars, E!wform, E!choices
    <2>5. UNCHANGED N!nvars BY DEF N!nvars, N!tab
    <2>6. UNCHANGED D!dvars BY DEF D!dvars, D!screen, D!refreshes, D!counts, D!history
    <2> QED BY <2>1, <2>2, <2>3, <2>4, <2>5, <2>6
  <1> QED BY <1>1, <1>2

\* Each part keeps its own invariant, whatever it does.
LEMMA StepInv == IInv /\ [MCNext]_all => IInv'
  <1> SUFFICES ASSUME IInv, [MCNext]_all PROVE IInv'
    OBVIOUS
  <1> QED BY StepOfPart, ReplayKept, CaptureKept, PageKept, EnvironmentKept, BotKept, DashboardKept DEF IInv

\* The invariants of the six programs hold together from start to end.
THEOREM Inductive == MCSpec => []IInv
  BY InitInv, StepInv, PTL DEF MCSpec

\* Each of the six programs has the values its variables are said to have.
THEOREM Typed == MCSpec => []TypeOK
  <1>1. IInv => TypeOK
    BY PageTells DEF IInv, TypeOK, ReplayInv, CaptureInv, EnvironmentInv, BotInv, DashboardInv
  <1> QED BY Inductive, <1>1, PTL

\* The replays of a capture that a wizard has made have names of their own, where
\* the name was not taken between the check and the row.
THEOREM Distinct == MCSpec => []NamesDistinct
  <1>1. IInv => NamesDistinct BY DEF IInv, NamesDistinct, ReplayInv
  <1> QED BY Inductive, <1>1, PTL

\* A mimic is sent with a database twice only if one of the two was entered in an
\* earlier opening of the wizard, or while the other was still being validated.
THEOREM OneReplayADatabase == MCSpec => []DistinctDatabases
  <1>1. IInv => DistinctDatabases BY DEF IInv, DistinctDatabases, CaptureInv
  <1> QED BY Inductive, <1>1, PTL

\* The graphs of a capture have the lines of the boxes that are checked.
THEOREM Lines == MCSpec => []LinesMatch
  <1>1. IInv => LinesMatch BY PageTells DEF IInv, LinesMatch
  <1> QED BY Inductive, <1>1, PTL

\* An environment is saved with keys and a database that were found valid.
THEOREM Validated == MCSpec => []SavedIsValidated
  <1>1. IInv => SavedIsValidated BY DEF IInv, SavedIsValidated, EnvironmentInv
  <1> QED BY Inductive, <1>1, PTL

\* The tab of the bot says where it posts and whether it does.
THEOREM BotSays == MCSpec => []NotificationsTell
  <1>1. IInv => NotificationsTell BY BotTells DEF IInv, NotificationsTell
  <1> QED BY Inductive, <1>1, PTL

\* The dashboard lists what there is, and its panels and pages are of what it lists.
THEOREM DashboardSays == MCSpec => []DashboardTells
  <1>1. ASSUME IInv, part = "dashboard" PROVE D!DashboardTells
    <2>1. DashboardInv BY <1>1 DEF IInv
    <2> QED BY <2>1 DEF DashboardInv, RefreshInv, D!DashboardTells
  <1>2. IInv => DashboardTells BY <1>1 DEF DashboardTells
  <1> QED BY Inductive, <1>2, PTL
===============================================================================
