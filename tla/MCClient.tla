------------------------------- MODULE MCClient -------------------------------
(***************************************************************************)
(* Small instances of what the user of the web client has to do with: the   *)
(* three wizards, the page of a capture, the dashboard and its bot. Each is *)
(* a program of its own, so one is chosen at the beginning; the variables   *)
(* of the others are None. One that two of them have in common is here one. *)
(***************************************************************************)
EXTENDS Naturals, Sequences, FiniteSets, TLC

CONSTANTS CaptureNames, ReplayNames, Captures, Databases, Clicks, Replays, CaptureName, Types, Keys,
          MaxFailures, MaxReplays, MaxPicks, MaxLoads, MaxEdits,
          MaxOut, MaxSaved, Refreshes, Statuses, MaxChanges, MaxTurns, Admins, Channels, MaxRequests

ASSUME BoundsAssumption ==
  {MaxFailures, MaxReplays, MaxPicks, MaxLoads, MaxEdits, MaxOut, MaxSaved, MaxChanges, MaxTurns, MaxRequests}
    \subseteq Nat
\* The page of a capture has a name for it, and what is chosen or shown is not
\* taken for what says that there is none.
ASSUME NamesAssumption ==
  /\ CaptureName \in ReplayNames /\ "nobody" \notin Replays
  /\ Keys \cap Databases = {} /\ "none" \notin Channels
  /\ Statuses \cap {"gone", "unmade"} = {}

VARIABLES
  part,
  at, asked, body, failures, page, disabled, name, db, opening,
  captureId, later, rows, cut, unaware, unchecked,
  step, captureName, concurrent, mimicName, failed, current, dbRefs, replays, picks, started,
  clickedIn, together,
  first, preset, boxes, shown, known, checked, loading, loads, line, unheeded, cleared, lost,
  newEnv, newKeys, envName, keys, keysId, bucket, bucketList, out, saved, edits, valid, under, shadowed,
  row, env, me, users, listed, panel, own, search, turned, crashed, await, got, todo, changes, turns,
  since, overlapped, broken, shrunk,
  configs, channel, isOn, typed, box, sent, requests, doubt, raced

ofReplay == <<captureId, later, rows, cut, unaware, unchecked>>
ofCapture == <<step, captureName, concurrent, mimicName, failed, current, dbRefs, replays,
               picks, started, clickedIn, together>>
ofPage == <<first, preset, boxes, shown, known, checked, loading, loads, line, unheeded, cleared, lost>>
ofEnvironment == <<newEnv, newKeys, envName, keys, keysId, bucket, bucketList, out, saved, edits,
                   valid, under, shadowed>>
ofDashboard == <<row, env, me, users, listed, panel, own, search, turned, crashed, await, got, todo,
                 changes, turns, since, overlapped, broken, shrunk>>
ofBot == <<configs, channel, isOn, typed, box, sent, requests, doubt, raced>>
ofWizards == <<at, asked, body, failures, page, disabled, name, db, opening>>
all == <<part, at, asked, body, failures, page, disabled, name, db, opening,
         ofReplay, ofCapture, ofPage, ofEnvironment, ofDashboard, ofBot>>

R == INSTANCE ReplayWizard WITH Names <- ReplayNames
C == INSTANCE CaptureWizard
P == INSTANCE CapturePage WITH Names <- ReplayNames
E == INSTANCE EnvironmentWizard WITH Names <- CaptureNames

\* Two captures, the first with a replay: there are both when the page is opened.
Ids       == {1, 2}
ReplayIds == {3}
Of        == [r \in ReplayIds |-> 1]
D == INSTANCE Dashboard WITH Captures <- Ids, Replays <- ReplayIds, Old <- {1, 3}, PageSize <- 1
N == INSTANCE Notifications

None == {}

NoReplay ==
  /\ captureId = None /\ later = None /\ rows = None /\ cut = None /\ unaware = None /\
     unchecked = None
NoCapture ==
  /\ step = None /\ captureName = None /\ concurrent = None /\ mimicName = None /\
     failed = None /\ current = None /\ dbRefs = None /\ replays = None /\ picks = None /\
     started = None /\ clickedIn = None /\ together = None
NoPage ==
  /\ first = None /\ preset = None /\ boxes = None /\ shown = None /\ known = None /\ checked = None /\
     loading = None /\ loads = None /\ line = None /\ unheeded = None /\ cleared = None /\
     lost = None
NoEnvironment ==
  /\ newEnv = None /\ newKeys = None /\ envName = None /\ keys = None /\ bucket = None /\
     bucketList = None /\ out = None /\ saved = None /\ edits = None /\ valid = None /\
     under = None /\ keysId = None /\ shadowed = None

NoDashboard ==
  /\ row = None /\ env = None /\ me = None /\ listed = None /\ panel = None /\ own = None /\
     search = None /\ turned = None /\ crashed = None /\ await = None /\ got = None /\
     todo = None /\ changes = None /\ turns = None /\ since = None /\ overlapped = None /\
     broken = None /\ shrunk = None /\ users = None
NoBot ==
  /\ configs = None /\ channel = None /\ isOn = None /\ typed = None /\ box = None /\
     sent = None /\ requests = None /\ doubt = None /\ raced = None
NoWizard ==
  /\ at = None /\ asked = None /\ body = None /\ failures = None /\ page = None /\
     disabled = None /\ name = None /\ db = None /\ opening = None

MCInit ==
  \/ part = "replay" /\ R!Init /\ NoCapture /\ NoPage /\ NoEnvironment /\ NoDashboard /\ NoBot
     /\ opening = None
  \/ part = "capture" /\ C!Init /\ NoReplay /\ NoPage /\ NoEnvironment /\ NoDashboard /\ NoBot
     /\ page = None /\ name = None /\ db = None
  \/ part = "page" /\ P!Init /\ NoReplay /\ NoCapture /\ NoEnvironment /\ NoDashboard /\ NoBot
     /\ at = None /\ asked = None /\ body = None /\ failures = None /\ page = None
     /\ disabled = None /\ db = None
  \/ part = "environment" /\ E!Init /\ NoReplay /\ NoCapture /\ NoPage /\ NoDashboard /\ NoBot
     /\ at = None /\ asked = None /\ body = None /\ failures = None /\ name = None /\ opening = None
  \/ part = "dashboard" /\ D!Init /\ NoWizard /\ NoReplay /\ NoCapture /\ NoPage /\ NoEnvironment /\ NoBot
  \/ part = "bot" /\ N!Init /\ NoWizard /\ NoReplay /\ NoCapture /\ NoPage /\ NoEnvironment /\ NoDashboard

MCNext ==
  /\ UNCHANGED part
  /\ \/ part = "replay" /\ R!Next
        /\ UNCHANGED <<opening, ofCapture, ofPage, ofEnvironment, ofDashboard, ofBot>>
     \/ part = "capture" /\ C!Next
        /\ UNCHANGED <<page, name, db, ofReplay, ofPage, ofEnvironment, ofDashboard, ofBot>>
     \/ part = "page" /\ P!Next
        /\ UNCHANGED <<at, asked, body, failures, page, disabled, db>>
        /\ UNCHANGED <<ofReplay, ofCapture, ofEnvironment, ofDashboard, ofBot>>
     \/ part = "environment" /\ E!Next
        /\ UNCHANGED <<at, asked, body, failures, name, opening>>
        /\ UNCHANGED <<ofReplay, ofCapture, ofPage, ofDashboard, ofBot>>
     \/ part = "dashboard" /\ D!Next
        /\ UNCHANGED <<ofWizards, ofReplay, ofCapture, ofPage, ofEnvironment, ofBot>>
     \/ part = "bot" /\ N!Next
        /\ UNCHANGED <<ofWizards, ofReplay, ofCapture, ofPage, ofEnvironment, ofDashboard>>

MCSpec == MCInit /\ [][MCNext]_all

\* The properties of the six.
TypeOK ==
  /\ part = "replay" => R!TypeOK
  /\ part = "capture" => C!TypeOK
  /\ part = "page" => P!TypeOK
  /\ part = "environment" => E!TypeOK
  /\ part = "dashboard" => D!TypeOK
  /\ part = "bot" => N!TypeOK

NamesDistinct     == part = "replay" => R!NamesDistinct
DistinctDatabases == part = "capture" => C!DistinctDatabases
LinesMatch        == part = "page" => P!LinesMatch
SavedIsValidated  == part = "environment" => E!SavedIsValidated
DashboardTells    == part = "dashboard" => D!DashboardTells
NotificationsTell == part = "bot" => N!NotificationsTell

\* In the configuration sets that no part has in common share their values, so
\* that there are fewer permutations: Refreshes and Admins those of Databases,
\* Channels those of Keys, whose permutations cost more than they save.
Symmetry == Permutations(Clicks) \cup Permutations(Databases)
===============================================================================
