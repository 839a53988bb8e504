----------------------------- MODULE MCSession -----------------------------
(***************************************************************************)
(* Session for TLC: two sessions; a file whose Read is capped and one that *)
(* is governed in any posture; a test run, one that is composed with       *)
(* something else, one after a cd, and one already in the pipe.            *)
(***************************************************************************)
EXTENDS Session
CONSTANTS s1, s2, mid, huge

MCSessions == {s1, s2}
MCFiles == {mid, huge}
MCSize == [f \in MCFiles |-> CASE f = mid -> "mid" [] f = huge -> "huge"]
Command(piped, prefix, tail) == [piped |-> piped, prefix |-> prefix, tail |-> tail]
MCCommands == {Command(FALSE, {}, {"test"}), Command(FALSE, {}, {"test", "composition"}),
               Command(FALSE, {"composition"}, {"test", "merge"}), Command(TRUE, {}, {"test"})}
=============================================================================
