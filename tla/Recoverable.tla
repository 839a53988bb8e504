---------------------------- MODULE Recoverable ----------------------------
(***************************************************************************)
(* What the artifact store promises to every holder of a handle, with no   *)
(* daemon, request or failure in sight: content is kept under an id once   *)
(* and for ever, and a handle only ever reaches a context when the store   *)
(* already keeps the very content the handle was handed out for.           *)
(* The store of src/packages/sidecar/src/store.ts as driven by distill.ts  *)
(* is shown to implement this (Serve!HandlesRefine).                       *)
(***************************************************************************)
CONSTANTS Ids,        \* artifact ids
          Contents,   \* what an artifact can hold
          None        \* "no such row"

VARIABLES kept,       \* id -> content, or None
          held        \* the <<id, content>> pairs some context holds

Init == /\ kept = [i \in Ids |-> None]
        /\ held = {}

(* The store takes an artifact under an id nothing is kept under. *)
Keep == \E i \in Ids, c \in Contents :
           /\ kept[i] = None
           /\ kept' = [kept EXCEPT ![i] = c]
           /\ UNCHANGED held

(* A context obtains the handle of an artifact that is already kept. *)
Hand == \E i \in Ids :
           /\ kept[i] # None
           /\ held' = held \cup {<<i, kept[i]>>}
           /\ UNCHANGED kept

Next == Keep \/ Hand

Spec == Init /\ [][Next]_<<kept, held>>
=============================================================================
