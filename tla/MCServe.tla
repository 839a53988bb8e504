------------------------------ MODULE MCServe ------------------------------
(* Small instances of Serve for TLC.                                       *)
EXTENDS Serve, TLC

(* Calls are interchangeable until they are made: they are made in order.  *)
InOrder == \A r \in Requests : Made(r) => \A q \in 1..(r - 1) : Made(q)

CONSTANTS MaxInFlight,  \* calls with the daemon at a time
          MaxRuns,      \* calls of dcp__run
          Faults        \* FALSE: the daemon never stops and no caller gives up

Crowded == Cardinality({r \in Requests : req[r].pc \in {"queued", "distilling", "replied"}})
             > MaxInFlight

Faulty == \/ ~up
          \/ \E r \in Requests : Answered(r) /\ req[r].answer.form \in {"raw", "unavailable"}

Bounds ==
  /\ InOrder
  /\ ~Crowded
  /\ Cardinality({r \in Requests : req[r].op = "run"}) <= MaxRuns
  /\ Faulty => Faults

(* No property tells two sessions, contents or artifact ids apart.         *)
Interchangeable ==
  Permutations(Sessions) \cup Permutations(Versions) \cup Permutations(ArtifactIds)
=============================================================================
