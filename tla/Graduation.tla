----------------------------- MODULE Graduation -----------------------------
(***************************************************************************)
(* The graduation miner and pass: what the audit history shows of each     *)
(* session, .dcp/candidates.jsonl, the entries graduated into              *)
(* .dcp/codex.yaml, the runs the daemon starts at the end of a session,    *)
(* and the refreshes and the human that write codex.yaml meanwhile.        *)
(*                                                                         *)
(* A run suspends twice: while lessons are drafted and while the mirror is *)
(* refreshed.  Between two suspensions it reads and writes at once.  Time  *)
(* is kept as finely as the code compares it: now counts the passes that   *)
(* graduated something (an event is after graduatedAt or not), day counts  *)
(* half-lives of confidence.                                               *)
(***************************************************************************)
EXTENDS Integers, FiniteSets, SequencesExt

CONSTANTS
  Candidates,       \* learnings: a type and a key
  Kind,             \* candidate -> its type ("vague": a hotspot of no file)
  Sessions,
  Miners,           \* runs that may be under way at the same time
  Refreshes,        \* codex refreshes and semantic passes, likewise
  MinedSessionsCap, ContradictedSessionsCap,
  None

Kinds == {"hotspot", "vague", "fix", "recurrence"}

(* seen: mined as a candidate; bad: when it last spoke against the entry.  *)
Evidence == [seen : BOOLEAN, bad : Nat \cup {None}]

Lists(cap) == {l \in Seq(Sessions) : Len(l) <= cap}

Records ==
  [occurrences : Nat \ {0}, sessions : Lists(MinedSessionsCap), lastSeen : Nat,
   contradiction : Nat, against : Lists(ContradictedSessionsCap),
   status : {"candidate", "graduated", "withdrawn"}, graduatedAt : Nat \cup {None}]

Entries == {"absent", "generated", "locked"}
Codexes == [Candidates -> Entries] \cup {None}
Books == [Candidates -> Records \cup {None}]
Runs == [pc : {"mined", "passed"}, session : Sessions, work : Books, again : BOOLEAN]

ASSUME KindAssumption == Kind \in [Candidates -> Kinds]
ASSUME CapsAssumption ==
  MinedSessionsCap \in Nat \ {0} /\ ContradictedSessionsCap \in Nat \ {0}
ASSUME NoneAssumption == None \notin Nat \cup Sessions \cup Records \cup Runs \cup [Candidates -> Entries]

VARIABLES
  heard,      \* session -> candidate -> what its audit events show
  records,    \* candidates.jsonl: candidate -> its record, or None
  codex,      \* codex.yaml: candidate -> its entry; None: no codex
  audit,      \* the graduate and withdraw events written
  run,        \* the miner runs
  refresh,    \* refreshes: the codex each has read, and will write back
  now, day,
  quiet,      \* history: the session whose runs are all that happened of late
  mishaps     \* history: what went wrong so far

history == <<quiet, mishaps>>
vars == <<heard, records, codex, audit, run, refresh, now, day, history>>

TypeOK ==
  /\ heard \in [Sessions -> [Candidates -> Evidence]]
  /\ records \in Books
  /\ codex \in Codexes
  /\ audit \subseteq {"graduate", "withdraw"} \X Candidates
  /\ run \in [Miners -> Runs \cup {None}]
  /\ refresh \in [Refreshes -> [view : Codexes] \cup {None}]
  /\ now \in Nat /\ day \in Nat
  /\ quiet \in Sessions \cup {None}
  /\ mishaps \subseteq {"died", "overlapped"}

Init ==
  /\ heard = [s \in Sessions |-> [c \in Candidates |-> [seen |-> FALSE, bad |-> None]]]
  /\ records = [c \in Candidates |-> None]
  /\ codex = None
  /\ audit = {}
  /\ run = [m \in Miners |-> None]
  /\ refresh = [w \in Refreshes |-> None]
  /\ now = 0 /\ day = 0
  /\ quiet = None /\ mishaps = {}

(***************************************************************************)
(* What the sessions leave in the audit history.                           *)
(***************************************************************************)
Heard(s, c, evidence) ==
  /\ heard' = [heard EXCEPT ![s][c] = evidence]
  /\ quiet' = None
  /\ UNCHANGED <<records, codex, audit, run, refresh, now, day, mishaps>>

(* A zoom back to raw: the making of a hotspot, and evidence against it.   *)
Zoom(s, c) ==
  /\ Kind[c] \in {"hotspot", "vague"}
  /\ Heard(s, c, [seen |-> TRUE, bad |-> now])

(* A failing verdict; a passing one after it.                              *)
Fail(s, c) ==
  /\ Kind[c] = "fix"
  /\ Heard(s, c, [heard[s][c] EXCEPT !.bad = now])

Fix(s, c) ==
  /\ Kind[c] = "fix" /\ heard[s][c].bad # None /\ ~heard[s][c].seen
  /\ Heard(s, c, [heard[s][c] EXCEPT !.seen = TRUE])

(* A command, path or error that earlier records may already mention.      *)
Signal(s, c) ==
  /\ Kind[c] = "recurrence" /\ ~heard[s][c].seen
  /\ Heard(s, c, [heard[s][c] EXCEPT !.seen = TRUE])

(***************************************************************************)
(* Mining: merge, contradiction sweep.                                     *)
(***************************************************************************)
Mined(book, s) ==
  {c \in Candidates : /\ heard[s][c].seen
                      /\ Kind[c] = "recurrence" => \E p \in Candidates : book[p] # None}

(* [...list, s] without doubles, .slice(-cap).                             *)
Remember(list, s, cap) ==
  LET all == IF s \in ToSet(list) THEN list ELSE Append(list, s)
  IN  IF Len(all) <= cap THEN all ELSE SubSeq(all, Len(all) - cap + 1, Len(all))

Novel(s) ==
  [occurrences |-> 1, sessions |-> <<s>>, lastSeen |-> day, contradiction |-> 0,
   against |-> <<>>, status |-> "candidate", graduatedAt |-> None]

(* Mutant of Again: the sessions already mined are not looked at.          *)
AgainInflating(r, s) ==
  [r EXCEPT !.occurrences = @ + 1,
            !.sessions = Remember(@, s, MinedSessionsCap), !.lastSeen = day]

Again(r, s) ==
  [r EXCEPT !.occurrences = IF s \in ToSet(r.sessions) THEN @ ELSE @ + 1,
            !.sessions = Remember(@, s, MinedSessionsCap), !.lastSeen = day]

Merged(book, s) ==
  [c \in Candidates |->
     IF c \notin Mined(book, s) THEN book[c]
     ELSE IF book[c] = None THEN Novel(s) ELSE Again(book[c], s)]

(* Mutant of Contradicts: whenever it happened.                            *)
ContradictsAnyTime(r, s, c) ==
  /\ r # None /\ r.status = "graduated" /\ s \notin ToSet(r.against)
  /\ Kind[c] \in {"hotspot", "fix"}
  /\ heard[s][c].bad # None

(* sessionContradicts, for a session that has not yet counted.             *)
Contradicts(r, s, c) ==
  /\ r # None /\ r.status = "graduated" /\ s \notin ToSet(r.against)
  /\ Kind[c] \in {"hotspot", "fix"}
  /\ heard[s][c].bad # None /\ heard[s][c].bad >= r.graduatedAt

Swept(book, s) ==
  [c \in Candidates |->
     IF ~Contradicts(book[c], s, c) THEN book[c]
     ELSE [book[c] EXCEPT !.contradiction = @ + 1,
                          !.against = Remember(@, s, ContradictedSessionsCap)]]

(* The end of a session: setImmediate, then up to the drafting of lessons. *)
Mine(m, s) ==
  /\ run[m] = None
  /\ run' = [run EXCEPT ![m] =
       [pc |-> "mined", session |-> s, work |-> Swept(Merged(records, s), s),
        again |-> quiet = s]]
  /\ mishaps' = IF \E n \in Miners : run[n] # None
                THEN mishaps \cup {"overlapped"} ELSE mishaps
  /\ quiet' = s
  /\ UNCHANGED <<heard, records, codex, audit, refresh, now, day>>

(***************************************************************************)
(* candidateConfidence, in ten-thousandths:                                *)
(* (1 - 0.5^(occurrences/2)) * 0.5^age - 0.25 * contradiction, at least 0. *)
(***************************************************************************)
OccurrenceScore(n) ==
  10^6 - (IF n % 2 = 0 THEN 10^6 ELSE 707107) \div 2^(n \div 2)

(* Nothing is left of a score, under 2^20, after twenty half-lives.        *)
Decayed(score, age) == IF age \in 0..19 THEN score \div 2^age ELSE 0

Confidence(r) ==
  LET raw == Decayed(OccurrenceScore(r.occurrences), day - r.lastSeen)
               - 250000 * r.contradiction
  IN  IF raw < 0 THEN 0 ELSE (raw + 50) \div 100

Eligible(r) == r # None /\ r.status = "candidate" /\ Confidence(r) >= 5000

BelowWithdrawal(r) ==
  r # None /\ r.status = "graduated" /\ r.contradiction > 0 /\ Confidence(r) < 3000

(***************************************************************************)
(* The graduation pass: withdraw, graduate, write codex.yaml.              *)
(***************************************************************************)
Due(m) == {c \in Candidates : BelowWithdrawal(run[m].work[c])}

Ready(m) ==
  {c \in Candidates : Eligible(run[m].work[c]) /\ Kind[c] # "vague" /\ codex[c] = "absent"}

Passing(m) == run[m] # None /\ run[m].pc = "mined"

(* Mutant of Rewritten: a locked entry goes with the others.               *)
RewrittenLockedToo(m) ==
  [c \in Candidates |->
     IF c \in Due(m) THEN "absent"
     ELSE IF c \in Ready(m) THEN "generated" ELSE codex[c]]

Rewritten(m) ==
  [c \in Candidates |->
     IF c \in Due(m) /\ codex[c] # "locked" THEN "absent"
     ELSE IF c \in Ready(m) THEN "generated" ELSE codex[c]]

(* Mutant of Judged: the withdrawn record keeps its status.                *)
JudgedGraduatedOnly(m) ==
  [c \in Candidates |->
     IF c \in Ready(m)
     THEN [run[m].work[c] EXCEPT !.status = "graduated", !.graduatedAt = now + 1]
     ELSE run[m].work[c]]

Judged(m) ==
  [c \in Candidates |->
     IF c \in Due(m) THEN [run[m].work[c] EXCEPT !.status = "withdrawn"]
     ELSE IF c \in Ready(m)
     THEN [run[m].work[c] EXCEPT !.status = "graduated", !.graduatedAt = now + 1]
     ELSE run[m].work[c]]

Told(withdrawn, graduated) == ({"withdraw"} \X withdrawn) \cup ({"graduate"} \X graduated)

Pass(m) ==
  /\ Passing(m) /\ codex # None
  /\ codex' = Rewritten(m)
  /\ run' = [run EXCEPT ![m].pc = "passed", ![m].work = Judged(m)]
  /\ audit' = audit \cup Told(Due(m), Ready(m))
  /\ now' = IF Ready(m) = {} THEN now ELSE now + 1
  /\ mishaps' = IF \E w \in Refreshes : refresh[w] # None
                THEN mishaps \cup {"overlapped"} ELSE mishaps
  /\ UNCHANGED <<heard, records, refresh, day, quiet>>

(* No codex to graduate into: everything waits.                            *)
PassWaits(m) ==
  /\ Passing(m) /\ codex = None
  /\ run' = [run EXCEPT ![m].pc = "passed"]
  /\ UNCHANGED <<heard, records, codex, audit, refresh, now, day, history>>

(* Mutant of PassThrows: the codex is written before the events are.       *)
PassThrowsLate(m) ==
  /\ Passing(m) /\ codex # None
  /\ \E ws \in SUBSET Due(m), gs \in SUBSET Ready(m) :
       /\ ws \cup gs # {} /\ (gs # {} => ws = Due(m))
       /\ audit' = audit \cup Told(ws, gs)
  /\ codex' = Rewritten(m)
  /\ run' = [run EXCEPT ![m] = None]
  /\ quiet' = None
  /\ UNCHANGED <<heard, records, refresh, now, day, mishaps>>

(* emit throws (the store is closed): some of the events are in the audit  *)
(* file, withdrawals first; neither codex nor candidates are written.      *)
PassThrows(m) ==
  /\ Passing(m) /\ codex # None
  /\ \E ws \in SUBSET Due(m), gs \in SUBSET Ready(m) :
       /\ ws \cup gs # {} /\ (gs # {} => ws = Due(m))
       /\ audit' = audit \cup Told(ws, gs)
  /\ run' = [run EXCEPT ![m] = None]
  /\ quiet' = None
  /\ UNCHANGED <<heard, records, codex, refresh, now, day, mishaps>>

(* The mirror is refreshed; candidates.jsonl is written last.              *)
Persist(m) ==
  /\ run[m] # None /\ run[m].pc = "passed"
  /\ records' = run[m].work
  /\ run' = [run EXCEPT ![m] = None]
  /\ UNCHANGED <<heard, codex, audit, refresh, now, day, history>>

(* The daemon dies, or the mirror refresh throws.                          *)
Die(m) ==
  /\ run[m] # None
  /\ run' = [run EXCEPT ![m] = None]
  /\ mishaps' = IF run[m].pc = "passed" THEN mishaps \cup {"died"} ELSE mishaps
  /\ quiet' = None
  /\ UNCHANGED <<heard, records, codex, audit, refresh, now, day>>

(***************************************************************************)
(* The other writers of codex.yaml.                                        *)
(***************************************************************************)
(* writeCodex, refreshFiles, semanticPass: read, index or draft, write.    *)
RefreshReads(w) ==
  /\ refresh[w] = None
  /\ refresh' = [refresh EXCEPT ![w] = [view |-> codex]]
  /\ UNCHANGED <<heard, records, codex, audit, run, now, day, history>>

(* preserveLocked carries every graduated entry over from what was read.   *)
RefreshWrites(w) ==
  /\ refresh[w] # None
  /\ codex' = IF refresh[w].view = None THEN [c \in Candidates |-> "absent"]
              ELSE refresh[w].view
  /\ refresh' = [refresh EXCEPT ![w] = None]
  /\ quiet' = None
  /\ UNCHANGED <<heard, records, audit, run, now, day, mishaps>>

(* Nothing had changed, or the process dies.                               *)
RefreshEnds(w) ==
  /\ refresh[w] # None
  /\ refresh' = [refresh EXCEPT ![w] = None]
  /\ UNCHANGED <<heard, records, codex, audit, run, now, day, history>>

(* A human locks an entry (those of the learned section have no lock).     *)
Lock(c) ==
  /\ codex # None /\ codex[c] = "generated" /\ Kind[c] \in {"fix", "recurrence"}
  /\ codex' = [codex EXCEPT ![c] = "locked"]
  /\ quiet' = None
  /\ UNCHANGED <<heard, records, audit, run, refresh, now, day, mishaps>>

HalfLife ==
  /\ day' = day + 1
  /\ quiet' = None
  /\ UNCHANGED <<heard, records, codex, audit, run, refresh, now, mishaps>>

Session(s) ==
  \E c \in Candidates : Zoom(s, c) \/ Fail(s, c) \/ Fix(s, c) \/ Signal(s, c)

Run(m) ==
  \/ \E s \in Sessions : Mine(m, s)
  \/ Pass(m) \/ PassWaits(m) \/ PassThrows(m) \/ Persist(m) \/ Die(m)

Refresh(w) == RefreshReads(w) \/ RefreshWrites(w) \/ RefreshEnds(w)

Next ==
  \/ \E s \in Sessions : Session(s)
  \/ \E m \in Miners : Run(m)
  \/ \E w \in Refreshes : Refresh(w)
  \/ \E c \in Candidates : Lock(c)
  \/ HalfLife

Spec == Init /\ [][Next]_vars

(***************************************************************************)
(* Properties.                                                             *)
(***************************************************************************)
Entry(c) == codex # None /\ codex[c] # "absent"
Graduated(c) == records[c] # None /\ records[c].status = "graduated"
Idle == \A m \in Miners : run[m] = None

(* candidates.jsonl and codex.yaml tell the same story once no run is at   *)
(* work: what one calls graduated the other has an entry for, and an entry *)
(* without its graduated record is one a human locked.                     *)
Agreed == \A c \in Candidates :
  /\ Graduated(c) => Entry(c)
  /\ Entry(c) => Graduated(c)
       \/ (codex[c] = "locked" /\ records[c] # None /\ records[c].status = "withdrawn")

(* "status changes and the candidate file land together" (graduation.ts)   *)
(* as long as no run dies after its pass and no two writers overlap.       *)
InStep == Idle /\ mishaps = {} => Agreed

(* Two sessions at least stand behind an entry, whatever was mined twice,  *)
(* lost or left half-done, and whatever minedSessions has forgotten.       *)
Earned == \A c \in Candidates :
  Entry(c) => Cardinality({s \in Sessions : heard[s][c].seen}) >= 2

(* Contradictions are counted once per session that spoke against the      *)
(* entry after it graduated, and nothing is withdrawn without one.         *)
EvidenceDriven == \A c \in Candidates :
  LET against(t) == {s \in Sessions : heard[s][c].bad # None /\ heard[s][c].bad >= t}
      r == records[c]
  IN  r # None => /\ r.status = "candidate" => r.contradiction = 0
                  /\ r.status # "candidate" =>
                       r.contradiction <= Cardinality(against(r.graduatedAt))
                  /\ r.status = "withdrawn" => r.contradiction > 0

(* "every graduation and every withdrawal writes its own audit event",     *)
(* even of a run that dies or throws: nothing is added or withdrawn in     *)
(* silence.                                                                *)
NeverSilent == \A c \in Candidates :
  /\ Entry(c) => <<"graduate", c>> \in audit
  /\ records[c] # None /\ records[c].status = "withdrawn" => <<"withdraw", c>> \in audit

(* Locked entries are never removed by the pass; a refresh that had read   *)
(* the codex before the human locked the entry may write the old one back. *)
LockedUntouched ==
  [][\A c \in Candidates : codex # None /\ codex[c] = "locked" =>
       codex'[c] = "locked" \/ \E w \in Refreshes : refresh[w] # None /\ refresh'[w] = None]_vars

(* A re-run over the same history (again: nothing since the last run).     *)
Rerun(m) == run[m] # None /\ run[m].again /\ quiet = run[m].session

(* No two runs are under way at a time.                                    *)
MinesAlone == \A m, n \in Miners : run[m] # None /\ run[n] # None => m = n

(* Hotspots and fixes are left as they are by a re-run: no occurrence, no  *)
(* contradiction, no status is added to.  Holds as long as MinesAlone does. *)
RerunsSettle ==
  [][\A m \in Miners : Rerun(m) /\ run'[m] = None =>
       \A c \in Candidates : Kind[c] # "recurrence" => records'[c] = records[c]]_vars

=============================================================================
