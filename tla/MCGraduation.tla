---------------------------- MODULE MCGraduation ----------------------------
(* Instances of module Graduation for TLC. *)
EXTENDS Graduation

CONSTANTS
  c1, c2,
  MaxPasses,   \* graduations
  MaxDays      \* half-lives

HotspotAndRecurrence == c1 :> "hotspot" @@ c2 :> "recurrence"
FixAndVague == c1 :> "fix" @@ c2 :> "vague"

Bounds == now <= MaxPasses /\ day <= MaxDays

Interchangeable == Permutations(Sessions) \cup Permutations(Miners)
=============================================================================
