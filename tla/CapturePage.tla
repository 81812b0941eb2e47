------------------------------ MODULE CapturePage ------------------------------
(***************************************************************************)
(* The page of a capture: a graph for each type of metric, with a line for  *)
(* the capture and one for each replay whose box is checked. A line is a    *)
(* key of the data points, the name of what it is drawn for. The metrics of *)
(* a replay are fetched the first time its box is checked, and a box can be *)
(* checked and unchecked while they are.                                    *)
(***************************************************************************)
EXTENDS Naturals, FiniteSets

CONSTANTS Replays,
          Names,       \* of the replays and of the capture
          CaptureName,
          Types,       \* the types of metrics
          MaxLoads     \* requests for the metrics of replays

Nobody == "nobody"
Own    == "capture"

VARIABLES
  name,      \* of each replay: the database does not ask for distinct ones
  first,     \* the type setWorkloadData begins with
  boxes,     \* the replays that have one: all that have not failed, if there is a list of them
  preset,    \* defaultReplay, from the address of the page, or Nobody
  shown,     \* are the metrics of the capture there
  opening,   \* is the request for those of the default replay out
  known,     \* the replays whose metrics are there
  checked,   \* the boxes
  loading,   \* how many other requests for the metrics of a replay are out
  loads,     \* how many there were
  line,      \* allGraphs: of each type and name whose value it has, or Nobody
  unheeded,  \* history: unchecked while loading
  cleared,   \* history: the names removed while something else bears them
  lost       \* history: the replays whose last request failed; Nobody if the default's
             \* did, or if the default one is not among the replays

page    == <<name, first, preset, boxes>>
history == <<unheeded, cleared, lost>>
pvars   == <<page, shown, opening, known, checked, loading, loads, line, history>>

TypeOK ==
  /\ name \in [Replays -> Names] /\ first \in Types /\ preset \in Replays \cup {Nobody}
  /\ boxes \subseteq Replays /\ {shown, opening} \subseteq BOOLEAN
  /\ {known, checked, unheeded} \subseteq SUBSET Replays /\ cleared \subseteq Names
  /\ lost \subseteq Replays \cup {Nobody}
  /\ loading \in [Replays -> 0..MaxLoads] /\ loads \in 0..MaxLoads
  /\ line \in [Types -> [Names -> Replays \cup {Own, Nobody}]]

Init ==
  /\ name \in [Replays -> Names] /\ first \in Types /\ preset \in Replays \cup {Nobody}
  /\ boxes \in {Replays, Replays \ {preset}, {}} /\ shown = FALSE /\ opening = FALSE /\ known = {} /\ checked = {}
  /\ loading = [r \in Replays |-> 0] /\ loads = 0
  /\ line = [t \in Types |-> [n \in Names |-> Nobody]]
  /\ unheeded = {} /\ cleared = {} /\ lost = {}

\* setWorkloadData: the values of the capture, and those of a replay on top. A
\* replay without metrics makes it throw at the first point of the first graph.
DrawCapture(t)   == [line[t] EXCEPT ![CaptureName] = Own]
DrawReplay(r, l) == [l EXCEPT ![name[r]] = r]

Draw(r)            == line' = [t \in Types |-> DrawReplay(r, line[t])]
DrawBoth(r)        == line' = [t \in Types |-> DrawReplay(r, DrawCapture(t))]
DrawCaptureOnly    == line' = [t \in Types |-> DrawCapture(t)]
DrawUntilItThrows  == line' = [t \in Types |-> IF t = first THEN DrawCapture(t) ELSE line[t]]

\* componentWillMount, up to the metrics of the capture: before them nothing is
\* rendered. The default replay is checked from the start, with or without a box;
\* but if it is not in the list of the replays, or they could not be listed,
\* updateReplays throws before anything is drawn.
Mount ==
  /\ ~shown /\ shown' = TRUE
  /\ \/ preset = Nobody /\ DrawCaptureOnly /\ UNCHANGED <<opening, checked, lost>>
     \/ preset # Nobody /\ opening' = TRUE /\ checked' = {preset} /\ UNCHANGED <<line, lost>>
     \/ preset \notin boxes \cup {Nobody} /\ lost' = {Nobody} /\ UNCHANGED <<opening, checked, line>>
  /\ UNCHANGED <<page, known, loading, loads, unheeded, cleared>>

\* updateReplays(true, r, false).
Check(r) ==
  /\ shown /\ r \in boxes \ checked /\ checked' = checked \cup {r}
  /\ \/ r \in known /\ Draw(r) /\ cleared' = cleared \ {name[r]} /\ UNCHANGED <<loading, loads>>
     \/ /\ r \notin known /\ loads < MaxLoads
        /\ loads' = loads + 1 /\ loading' = [loading EXCEPT ![r] = @ + 1]
        /\ UNCHANGED <<line, cleared>>
  /\ UNCHANGED <<page, shown, opening, known, unheeded, lost>>

\* Is a line wanted by something else than r?
Bears(n, r) == n = CaptureName \/ \E q \in checked \ {r} : name[q] = n

\* updateReplays(false, r, false), whatever is out.
Uncheck(r) ==
  /\ shown /\ r \in boxes \cap checked /\ checked' = checked \ {r}
  /\ line' = [t \in Types |-> [line[t] EXCEPT ![name[r]] = Nobody]]
  /\ unheeded' = IF loading[r] > 0 \/ (opening /\ r = preset) THEN unheeded \cup {r} ELSE unheeded \ {r}
  /\ cleared' = IF Bears(name[r], r) THEN cleared \cup {name[r]} ELSE cleared
  /\ UNCHANGED <<page, shown, opening, known, loading, loads, lost>>

Answer(r) == loading[r] > 0 /\ loading' = [loading EXCEPT ![r] = @ - 1]

\* Mutant: the graphs are updated before the metrics are there.
LoadedNotAwaited(r) ==
  /\ Answer(r) /\ known' = known \cup {r}
  /\ IF r \in known THEN Draw(r) ELSE UNCHANGED line
  /\ lost' = lost \ {r} /\ cleared' = cleared \ {name[r]}
  /\ UNCHANGED <<page, shown, opening, checked, loads, unheeded>>

\* setReplayMetrics and setWorkloadData: whether the box is still checked is not
\* asked.
Loaded(r) ==
  /\ Answer(r) /\ known' = known \cup {r} /\ Draw(r)
  /\ lost' = lost \ {r} /\ cleared' = cleared \ {name[r]}
  /\ UNCHANGED <<page, shown, opening, checked, loads, unheeded>>

\* The request yields null: drawn is what an earlier one has brought.
LoadFails(r) ==
  /\ Answer(r)
  /\ IF r \in known THEN Draw(r) /\ cleared' = cleared \ {name[r]} /\ UNCHANGED lost
     ELSE lost' = lost \cup {r} /\ UNCHANGED <<line, cleared>>
  /\ UNCHANGED <<page, shown, opening, known, checked, loads, unheeded>>

\* The same for the default replay, with the capture.
Opened ==
  /\ opening /\ opening' = FALSE
  /\ \/ known' = known \cup {preset} /\ DrawBoth(preset)
        /\ lost' = lost \ {preset} /\ cleared' = cleared \ {name[preset], CaptureName}
     \/ preset \in known /\ DrawBoth(preset) /\ cleared' = cleared \ {name[preset], CaptureName}
        /\ UNCHANGED <<known, lost>>
     \/ preset \notin known /\ DrawUntilItThrows
        /\ lost' = lost \cup {preset, Nobody} /\ UNCHANGED <<known, cleared>>
  /\ UNCHANGED <<page, shown, checked, loading, loads, unheeded>>

Next ==
  \/ Mount \/ Opened
  \/ \E r \in Replays : Check(r) \/ Uncheck(r) \/ Loaded(r) \/ LoadFails(r)

Spec == Init /\ [][Next]_pvars

\* When no request is out the graphs have the line of the capture and those of
\* the checked replays and no other, with these exceptions: a replay unchecked
\* while it was loading is drawn; one that could not be loaded is not, and if it
\* was the default one, or that was not listed, the capture's lines are missing
\* too; and of what bears one name, unchecking one removes the line of all.
LinesMatch ==
  shown /\ ~opening /\ (\A r \in Replays : loading[r] = 0) =>
    \A t \in Types :
      /\ \A n \in Names : line[t][n] # Nobody => n = CaptureName \/ \E r \in checked \cup unheeded : name[r] = n
      /\ \A r \in checked : line[t][name[r]] # Nobody \/ r \in lost \/ name[r] \in cleared
      /\ line[t][CaptureName] # Nobody \/ Nobody \in lost \/ CaptureName \in cleared

================================================================================
