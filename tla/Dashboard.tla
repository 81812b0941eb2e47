------------------------------- MODULE Dashboard -------------------------------
(***************************************************************************)
(* The dashboard of an environment: its captures and replays in six lists,  *)
(* each with a search and pages, and a panel for every item of a page. The  *)
(* dashboard refreshes itself when it is opened and after each capture or   *)
(* replay the user has made: it asks for the environment, then for the      *)
(* captures, then for the replays of one capture after the other, and an    *)
(* answer that comes late still counts. A panel keeps the object it was     *)
(* mounted with, and writes to it. The user table and the bot's tab share   *)
(* nothing with the lists.                                                  *)
(***************************************************************************)
EXTENDS Naturals, FiniteSets, FiniteSetsExt

CONSTANTS Captures, Replays,   \* their ids, disjoint sets of numbers
          Of,                  \* the capture of each replay
          Old,                 \* those there are when the page is opened, if not more
          Statuses,            \* that the service gives them
          Refreshes,           \* there are at most these
          PageSize,            \* limit
          MaxChanges, MaxTurns \* bounds: changes of rows; searches and next pages

Gone   == "gone"
Unmade == "unmade"
Items  == Captures \cup Replays
Kind(i) == IF i \in Captures THEN "captures" ELSE "replays"

VARIABLES
  row,        \* what the service has
  env, me, users, \* is the environment there, the user, and a list of the users
  listed,     \* captures and replays: the status the dashboard has of each
  panel,      \* the status each panel shows, Gone without one
  own,        \* the panels with the object the dashboard has
  search,     \* what the text of each list matches
  turned,     \* the page of each list
  crashed,    \* a render has thrown: the page is empty
  await, got, todo,  \* of each refresh: the answer it awaits, what it has, the captures it goes through
  changes, turns,
  since, overlapped, \* history: the rows when the last refresh began, was another out
  broken,            \* history: was an answer missing, or two refreshes out, since a refresh that
                     \* met no other has set the captures
  shrunk             \* history: the lists that have become shorter than the page turned to

screen    == <<env, me, users, listed, panel, own, search, turned, crashed, shrunk>>
refreshes == <<await, got, todo>>
counts    == <<changes, turns>>
history   == <<since, overlapped, broken>>
dvars     == <<row, screen, refreshes, counts, history>>

\* render: the list an item with the status s is put in.
Group(s)   == CASE s \in {"DONE", "FAILED"} -> "Past" [] s = "SCHEDULED" -> "Scheduled" [] OTHER -> "Active"
List(i, s) == <<Kind(i), Group(s)>>
Lists      == {"captures", "replays"} \X {"Past", "Scheduled", "Active"}
Members(L, l) == {i \in Items : l[i] # Gone /\ List(i, l[i]) = L}

\* ListView: what its search leaves.
Matching(L, l, m) == {i \in m[L] : l[i] # Gone /\ List(i, l[i]) = L}

\* The newest first: an object's numeric keys come in order, and the lists are
\* filled from the end; the replays of one capture come together.
Before(j, i) == IF i \in Captures THEN j > i ELSE Of[j] > Of[i] \/ (Of[j] = Of[i] /\ j > i)

\* Pagination: the items that are not on the pages p, how many pages a list has
\* and its buttons.
Unseen(l, m, p) ==
  {i \in Items : LET L == List(i, l[i])
                 IN  \/ l[i] = Gone \/ i \notin m[L]
                     \/ Cardinality({j \in Matching(L, l, m) : Before(j, i)}) \div PageSize # p[L]}
Pages(L)   == (Cardinality(Matching(L, listed, search)) + PageSize - 1) \div PageSize
HasPrev(L) == turned[L] > 0 /\ Pages(L) > 1
HasNext(L) == turned[L] + 1 < Pages(L)

TypeOK ==
  /\ row \in [Items -> Statuses \cup {Gone, Unmade}]
  /\ {listed, panel} \subseteq [Items -> Statuses \cup {Gone, "STOPPING"}]
  /\ {env, me, users, crashed, overlapped, broken} \subseteq BOOLEAN
  /\ {own, since} \subseteq SUBSET Items /\ shrunk \subseteq Lists
  /\ search \in [Lists -> SUBSET Items] /\ turned \in [Lists -> 0..Cardinality(Items)]
  /\ await \in [Refreshes -> {"nothing", "captures", "captures read",
                              "replays", "replays read", "over"}]
  /\ got \in [Refreshes -> [Items -> Statuses \cup {Gone}]]
  /\ todo \in [Refreshes -> SUBSET Captures] /\ changes \in 0..MaxChanges /\ turns \in 0..MaxTurns

There(i) == row[i] \notin {Gone, Unmade}
Over     == \A f \in Refreshes : await[f] \in {"nothing", "over"}
Nothing  == [i \in Items |-> Gone]

Init ==
  /\ row \in [Items -> Statuses \cup {Unmade}]
  /\ \A i \in Items : IF row[i] = Unmade THEN i \notin Old ELSE i \in Replays => row[Of[i]] = "DONE"
  /\ env = FALSE /\ me = FALSE /\ users = TRUE /\ listed = Nothing /\ panel = Nothing /\ own = {}
  /\ search = [L \in Lists |-> Items] /\ turned = [L \in Lists |-> 0] /\ crashed = FALSE
  /\ await = [f \in Refreshes |-> "nothing"] /\ got = [f \in Refreshes |-> Nothing]
  /\ todo = [f \in Refreshes |-> {}] /\ changes = 0 /\ turns = 0
  /\ since = {} /\ overlapped = FALSE /\ broken = FALSE /\ shrunk = {}

Turn == ~crashed /\ me /\ turns < MaxTurns /\ turns' = turns + 1 /\ UNCHANGED changes

\* A row is made, goes on or is deleted, by whomever: that of a replay needs its
\* capture to be done, and goes with it.
Rank(s) == CASE s = "SCHEDULED" -> 0 [] s = "STARTED" -> 1 [] s = "RUNNING" -> 2
             [] s = "STOPPING" -> 3 [] OTHER -> 4
RowChanges(i, s) ==
  /\ changes < MaxChanges /\ changes' = changes + 1 /\ UNCHANGED turns
  /\ \/ row[i] = Unmade /\ s \in {"SCHEDULED", "STARTED", "RUNNING"}
        /\ (i \in Replays => row[Of[i]] = "DONE") /\ row' = [row EXCEPT ![i] = s]
     \/ There(i) /\ s # Gone /\ Rank(s) > Rank(row[i]) /\ row' = [row EXCEPT ![i] = s]
     \/ There(i) /\ s = Gone /\ row' = [j \in Items |-> IF j = i \/ (j \in Replays /\ Of[j] = i)
                                                             THEN Gone ELSE row[j]]
  /\ UNCHANGED <<screen, refreshes, history>>

\* What a render of ReplayPanel, but not of CapturePanel, throws without: the
\* capture, whose name it shows.
Nameless(i, l) == i \in Replays /\ l[Of[i]] = Gone

\* A render of the dashboard with e, u and us for the environment, the user and the
\* users, l for what is listed, for some of which there are new objects, and the
\* searches and pages m and p. Nothing is rendered without a user; without the
\* environment or a list of users, whose length it shows, it throws, and so does
\* the new panel of a replay whose capture is not listed.
\* A panel stays as long as its item is on the page of the same list.
Render(e, u, us, l, objects, m, p) ==
  LET turn   == [L \in Lists |-> IF p[L] = 0 \/ Members(L, l) = {} THEN 0 ELSE p[L]]
      seen   == IF u THEN Items \ Unseen(l, m, p) ELSE {}
      fresh  == seen \ {i \in Items : panel[i] # Gone /\ Group(panel[i]) = Group(l[i])}
      throws == (u /\ ~(e /\ us)) \/ \E i \in fresh : Nameless(i, l)
      less(L) == Cardinality(Matching(L, l, m)) < Cardinality(Matching(L, listed, search))
  IN  /\ env' = e /\ me' = u /\ users' = us /\ listed' = l /\ search' = m /\ turned' = turn /\ crashed' = throws
      /\ panel' = [i \in Items |-> IF throws \/ i \notin seen THEN Gone
                                   ELSE IF i \in fresh THEN l[i] ELSE panel[i]]
      /\ own' = IF throws THEN {} ELSE fresh \cup ((own \cap seen) \ objects)
      /\ shrunk' = {L \in Lists : turn[L] > 0 /\ (L \in shrunk \/ less(L))}

\* componentWillMount, for the page or for a capture or replay just made. The
\* captures are asked for when the environment, or null for it, is there: a wait
\* that is part of theirs.
Refresh(f) ==
  /\ ~crashed /\ await[f] = "nothing"
  /\ await' = [await EXCEPT ![f] = "captures"]
  /\ since' = {i \in Items : There(i)}
  /\ overlapped' = ~Over
  /\ broken' = (broken \/ overlapped)
  /\ \E e \in BOOLEAN : Render(e, me, users, listed, {}, search, turned)
  /\ UNCHANGED <<row, got, todo, counts>>

\* userSetup, of whichever refresh: an answer without the user changes nothing.
Begun == {f \in Refreshes : await[f] # "nothing"}
UserAnswered ==
  /\ ~crashed /\ ~me /\ Begun # {}
  /\ Render(env, TRUE, users, listed, {}, search, turned)
  /\ UNCHANGED <<row, refreshes, counts, history>>

\* Then it sets the users to its second answer, null or not. A list where there
\* was one changes nothing here; one that makes up for a null is another's.
UsersAnswered ==
  /\ ~crashed /\ \E f, g \in Begun : ~users => f # g
  /\ Render(env, me, ~users, listed, {}, search, turned)
  /\ UNCHANGED <<row, refreshes, counts, history>>

\* The service reads the captures of the environment, or the replays of one.
ReadRows(f) ==
  /\ \/ /\ await[f] = "captures" /\ await' = [await EXCEPT ![f] = "captures read"]
        /\ got' = [got EXCEPT ![f] = [i \in Items |-> IF i \in Captures /\ There(i) THEN row[i] ELSE Gone]]
     \/ /\ await[f] = "replays" /\ await' = [await EXCEPT ![f] = "replays read"]
        /\ got' = [got EXCEPT ![f] = [i \in Items |->
             IF i \in Replays /\ Of[i] = Min(todo[f]) /\ There(i) THEN row[i] ELSE got[f][i]]]
  /\ UNCHANGED <<row, screen, todo, counts, history>>

\* setReplays, from the top of its loop: left are the captures it has yet to ask
\* for, replays what it has, l what the dashboard lists. It throws if the next
\* capture is listed no more, and at the end it sets the replays.
Continue(f, left, replays, l, objects, lacking) ==
  /\ broken' = (lacking \/ (left # {} /\ l[Min(left)] = Gone))
  /\ got' = [got EXCEPT ![f] = IF left = {} THEN Nothing ELSE replays]
  /\ Render(env, me, users, IF left = {} THEN [i \in Items |-> IF i \in Replays THEN replays[i] ELSE l[i]] ELSE l,
            IF left = {} THEN objects \cup Replays ELSE objects, search, turned)
  /\ IF left = {} \/ l[Min(left)] = Gone
     THEN await' = [await EXCEPT ![f] = "over"] /\ todo' = [todo EXCEPT ![f] = {}]
     ELSE await' = [await EXCEPT ![f] = "replays"] /\ todo' = [todo EXCEPT ![f] = left]
  /\ UNCHANGED <<row, counts, since, overlapped>>

\* The captures of an answer, and the replays there were.
NewCaptures(l) == [i \in Items |-> IF i \in Captures THEN l[i] ELSE listed[i]]

\* Mutant: the loop over the captures begins before they are set.
LoopedOverOld(f) ==
  /\ ~crashed /\ await[f] = "captures read"
  /\ Continue(f, {c \in Captures : listed[c] # Gone}, Nothing, NewCaptures(got[f]), Captures, broken /\ overlapped)

\* setCaptures with its answer: the captures are new objects.
CapturesAnswered(f) ==
  /\ ~crashed /\ await[f] = "captures read"
  /\ Continue(f, {c \in Captures : got[f][c] # Gone}, Nothing, NewCaptures(got[f]), Captures, broken /\ overlapped)

\* setReplays with the answer for one capture. Null is skipped: it is the answer
\* for a capture that is gone, too.
ReplaysAnswered(f) ==
  /\ ~crashed /\ await[f] = "replays read"
  /\ Continue(f, todo[f] \ {Min(todo[f])}, got[f], listed, {}, broken)

\* Null for the captures: the refresh is over. Null for the replays of one.
AnswerMissing(f) ==
  /\ ~crashed
  /\ \/ /\ await[f] = "captures" /\ await' = [await EXCEPT ![f] = "over"]
        /\ broken' = TRUE /\ UNCHANGED <<row, screen, got, todo, counts, since, overlapped>>
     \/ /\ await[f] = "replays"
        /\ Continue(f, todo[f] \ {Min(todo[f])}, got[f], listed, {}, TRUE)

\* Search: the text typed into a list, which is shown with what it has.
Type(L, matches) ==
  /\ Turn /\ Members(L, listed) # {} /\ matches # search[L]
  /\ Render(env, me, users, listed, {}, [search EXCEPT ![L] = matches], turned)
  /\ UNCHANGED <<row, refreshes, history>>

\* Pagination.nextPage and prevPage, by the buttons it shows.
NextPage(L) ==
  /\ Turn /\ HasNext(L)
  /\ Render(env, me, users, listed, {}, search, [turned EXCEPT ![L] = @ + 1])
  /\ UNCHANGED <<row, refreshes, history>>
PrevPage(L) ==
  /\ ~crashed /\ me /\ HasPrev(L)
  /\ Render(env, me, users, listed, {}, search, [turned EXCEPT ![L] = @ - 1])
  /\ UNCHANGED <<row, refreshes, counts, history>>

\* Has a panel its button to stop or its progress: while its item was running
\* when it was mounted and it has not shown it stopping.
Live(i) == panel[i] = "RUNNING"

\* A panel mounted while its item was running shows it stopping: it writes to
\* its object, which may be the dashboard's.
ShowStopping(i) ==
  /\ ~crashed /\ Live(i)
  /\ panel' = [panel EXCEPT ![i] = "STOPPING"]
  /\ listed' = IF i \in own THEN [listed EXCEPT ![i] = "STOPPING"] ELSE listed
  /\ UNCHANGED <<row, env, me, users, own, search, turned, crashed, shrunk, refreshes, counts, history>>

\* CapturePanel.stopCapture, the button of a capture without a scheduled end.
\* What the service does on it is a change of its row, as any.
StopCapture(c) == c \in Captures /\ ShowStopping(c)
\* CapturePanel.endTimer: the scheduled end is there.
EndTimer(c) == c \in Captures /\ ShowStopping(c)
\* ReplayPanel.timer: a replay that is not of a mimic has no totalDuration, and
\* the first second is beyond it.
ReplayTimer(r) == r \in Replays /\ ShowStopping(r)

Next ==
  \/ UserAnswered \/ UsersAnswered
  \/ \E f \in Refreshes :
       \/ Refresh(f) \/ ReadRows(f) \/ CapturesAnswered(f) \/ ReplaysAnswered(f) \/ AnswerMissing(f)
  \/ \E L \in Lists : NextPage(L) \/ PrevPage(L)
                      \/ \E matches \in SUBSET {i \in Items : Kind(i) = L[1]} : Type(L, matches)
  \/ \E i \in Items : StopCapture(i) \/ EndTimer(i) \/ ReplayTimer(i)
  \/ \E i \in Items, s \in Statuses \cup {Gone} : RowChanges(i, s)

Spec == Init /\ [][Next]_dvars

\* After a refresh that met no other and no missing answer the dashboard lists
\* what there was when it began and still is, and a replay only with its capture.
ListsTell ==
  Over /\ ~overlapped /\ ~broken =>
    /\ \A i \in since : There(i) => listed[i] # Gone
    /\ \A r \in Replays : listed[r] # Gone => listed[Of[r]] # Gone

\* A panel is in the list its item is in, and shows what the dashboard has of it
\* unless that is newer than the panel.
PanelsTell ==
  \A i \in Items : panel[i] # Gone =>
    /\ listed[i] # Gone /\ Group(panel[i]) = Group(listed[i])
    /\ i \in own => panel[i] = listed[i]

\* The page of a list that was turned to is there, unless the list got shorter:
\* then it may have no page and no button to leave it.
PagesTell == \A L \in Lists : turned[L] = 0 \/ L \in shrunk \/ turned[L] < Pages(L)

\* The page is lost only without the environment or a list of users, in the midst
\* of a refresh, or after one for which ListsTell does not vouch.
LossExplained ==
  crashed => ~env \/ ~users \/ overlapped \/ broken \/ \E f \in Refreshes : await[f] \in {"replays", "replays read"}

\* The lists, their panels and their pages show what the dashboard was told, and
\* an empty page has its reason.
DashboardTells == LossExplained /\ (~crashed => ListsTell /\ PanelsTell /\ PagesTell)

================================================================================
