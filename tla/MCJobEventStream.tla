--------------------------- MODULE MCJobEventStream ---------------------------
(***************************************************************************)
(* Instance of JobEventStream for TLC: a job without faults, and shorter   *)
(* ones that are delivered twice, to one worker after the other or to two  *)
(* side by side, that raise, or whose stream is opened twice while an      *)
(* event write fails.                                                      *)
(***************************************************************************)
EXTENDS JobEventStream

Only(n) == [k \in FaultKinds \cup {"events"} |-> IF k = "events" THEN n ELSE 0]

MCBudgets ==
    {Only(8),
     [Only(4) EXCEPT !["death"] = 1],
     [Only(4) EXCEPT !["disconnect"] = 1],
     [Only(4) EXCEPT !["raise"] = 1],
     [Only(5) EXCEPT !["loss"] = 1, !["drop"] = 1]}
=============================================================================
