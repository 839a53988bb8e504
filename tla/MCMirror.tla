------------------------------ MODULE MCMirror ------------------------------
(* Instances of module Mirror for TLC. *)
EXTENDS Mirror, TLC

CONSTANT MaxEdits   \* contents a file has at most

(* Every file alone, and the batches of two. *)
AllBatches == {<<f>> : f \in Files} \cup {<<f, g>> : f \in Files, g \in Files}

SingleFiles == {<<f>> : f \in Files}

SomeBatches == {b \in AllBatches : Len(b) = 1 \/ b[1] # b[2]}

Bounds == \A f \in Files : edits[f] <= MaxEdits

(* Jobs overlap as they like, but never in a build of one file.            *)
AloneSpec == Init /\ [][Next /\ BuildsAlone']_vars

Interchangeable == Permutations(Files) \cup Permutations(Jobs)
=============================================================================
