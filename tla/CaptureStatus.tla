---------------------------- MODULE CaptureStatus ----------------------------
(***************************************************************************)
(* What the status of a capture promises to those who read it (data.ts,    *)
(* ChildProgramStatus): it moves through the statuses in one order, and    *)
(* the results of a capture that is DONE are complete and will not change. *)
(* Capture implements this when nothing fails and nobody deletes.          *)
(***************************************************************************)
CONSTANT Captures

VARIABLES row,     \* the status a reader of the capture sees
          results  \* "open" while samples come in, "sealed" once final

statusVars == <<row, results>>

Init ==
  /\ row = [c \in Captures |-> "absent"]
  /\ results = [c \in Captures |-> "open"]

Move(c, from, to) ==
  /\ row[c] \in from
  /\ row' = [row EXCEPT ![c] = to]
  /\ UNCHANGED results

Announce(c) == \E s \in {"STARTED", "SCHEDULED"} : Move(c, {"absent"}, s)
Start(c)    == Move(c, {"STARTED", "SCHEDULED"}, "STARTING")
Run(c)      == Move(c, {"STARTING"}, "RUNNING")
Halt(c)     == Move(c, {"RUNNING"}, "STOPPING")
Finish(c)   == results[c] = "sealed" /\ Move(c, {"STOPPING"}, "DONE")

Seal(c) ==
  /\ row[c] = "STOPPING" /\ results[c] = "open"
  /\ results' = [results EXCEPT ![c] = "sealed"]
  /\ UNCHANGED row

Next ==
  \E c \in Captures :
    Announce(c) \/ Start(c) \/ Run(c) \/ Halt(c) \/ Seal(c) \/ Finish(c)

Spec == Init /\ [][Next]_statusVars

\* Nobody has to start or stop a capture, but a stopped one is finished.
FairSpec ==
  Spec /\ \A c \in Captures : WF_statusVars(Seal(c)) /\ WF_statusVars(Finish(c))

===============================================================================
