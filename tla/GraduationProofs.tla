-------------------------- MODULE GraduationProofs --------------------------
(***************************************************************************)
(* What the graduation of learnings can be relied on for, proved for any   *)
(* learnings, sessions, runs at a time, refreshes and caps, and however    *)
(* long the history is.                                                    *)
(***************************************************************************)
EXTENDS Graduation, FiniteSetTheorems, SequenceTheorems, TLAPS

-----------------------------------------------------------------------------
(* What is held: the books of records and the codexes that lie on disk or  *)
(* in a run or refresh, which will write them back.                        *)

HeldBooks == {records} \cup {run[m].work : m \in {m \in Miners : run[m] # None}}
HeldCodexes ==
  ({codex} \cup {refresh[w].view : w \in {w \in Refreshes : refresh[w] # None}}) \ {None}

Is(book, c, status) == book[c] # None /\ book[c].status = status

Seen(h, c) == {s \in Sessions : h[s][c].seen}
TwoSaw(h, c) == \E s, t \in Seen(h, c) : s # t
Against(h, c, t) == {s \in Sessions : h[s][c].bad # None /\ h[s][c].bad >= t}

-----------------------------------------------------------------------------
(* The invariants. *)

\* What the history has: finitely many sessions, and nothing of the future.
Heeded == \A c \in Candidates :
  /\ IsFiniteSet(Seen(heard, c))
  /\ \A s \in Sessions : heard[s][c].bad # None => heard[s][c].bad <= now

\* A record is of sessions that saw what it says; it occurred twice only if two
\* did. A candidate has nothing against it, and what is withdrawn has.
Founded(h, d, c, r) ==
  /\ r.sessions # << >> /\ \A i \in DOMAIN r.sessions : r.sessions[i] \in Seen(h, c)
  /\ r.occurrences >= 2 => TwoSaw(h, c)
  /\ r.lastSeen <= d
  /\ r.status = "candidate" => r.contradiction = 0 /\ r.against = << >>
  /\ r.status # "candidate" => r.graduatedAt \in Nat
  /\ r.status = "withdrawn" => r.contradiction > 0
Grounded == \A book \in HeldBooks, c \in Candidates : book[c] # None => Founded(heard, day, c, book[c])

\* An entry is backed by two sessions and by its event, wherever it is held.
Backed == \A x \in HeldCodexes, c \in Candidates :
  x[c] # "absent" => TwoSaw(heard, c) /\ <<"graduate", c>> \in audit

\* So is a withdrawal by its event.
Withdrawn == \A book \in HeldBooks, c \in Candidates :
  Is(book, c, "withdrawn") => <<"withdraw", c>> \in audit

\* The contradictions of a record are the sessions in its list.
Numbered(h, c, r) == r.status # "candidate" =>
  /\ r.contradiction = Len(r.against)
  /\ \A i, j \in DOMAIN r.against : r.against[i] = r.against[j] => i = j
  /\ \A i \in DOMAIN r.against : r.against[i] \in Against(h, c, r.graduatedAt)
Counted == \A book \in HeldBooks, c \in Candidates : book[c] # None => Numbered(heard, c, book[c])

\* Without a mishap there is one run at most; until its pass it tells what
\* candidates.jsonl does, and from then on what codex.yaml does. Whatever a
\* refresh will write back tells the same.
SameStory(b1, b2) == \A c \in Candidates, status \in {"graduated", "withdrawn"} :
  Is(b1, c, status) <=> Is(b2, c, status)
AgreesOn(book, x) == \A c \in Candidates :
  /\ Is(book, c, "graduated") => x # None /\ x[c] # "absent"
  /\ x # None /\ x[c] # "absent" =>
       Is(book, c, "graduated") \/ (x[c] = "locked" /\ Is(book, c, "withdrawn"))
Written(view) == IF view = None THEN [c \in Candidates |-> "absent"] ELSE view
AgreesWithAll(book) ==
  /\ AgreesOn(book, codex)
  /\ \A w \in Refreshes : refresh[w] # None => AgreesOn(book, Written(refresh[w].view))
Steady == mishaps = {} =>
  /\ \A m, n \in Miners : run[m] # None /\ run[n] # None => m = n
  /\ \A m \in Miners : run[m] # None /\ run[m].pc = "mined" => SameStory(run[m].work, records)
  /\ \A m \in Miners : run[m] # None /\ run[m].pc = "passed" => AgreesWithAll(run[m].work)
  /\ (\A m \in Miners : run[m] # None => run[m].pc = "mined") => AgreesWithAll(records)
-----------------------------------------------------------------------------
(* Lists of sessions, and the records they are part of.                    *)

LEMMA RememberIs ==
  ASSUME NEW list \in Seq(Sessions), NEW s \in Sessions, NEW cap \in Nat \ {0}, Len(list) <= cap
  PROVE  /\ Remember(list, s, cap) \in Lists(cap) /\ Remember(list, s, cap) # << >>
         /\ \A i \in DOMAIN Remember(list, s, cap) :
              \/ Remember(list, s, cap)[i] = s
              \/ \E j \in DOMAIN list : Remember(list, s, cap)[i] = list[j]
         /\ s \notin ToSet(list) /\ Len(list) < cap => Remember(list, s, cap) = Append(list, s)
<1> DEFINE all == IF s \in ToSet(list) THEN list ELSE Append(list, s)
<1>1. /\ all \in Seq(Sessions) /\ Len(all) \in Nat /\ Len(all) >= 1
      /\ DOMAIN all = 1..Len(all) /\ \A i \in DOMAIN all : all[i] \in Sessions
      /\ Len(all) = Len(list) \/ Len(all) = Len(list) + 1
      /\ \A i \in DOMAIN all : all[i] = s \/ \E j \in DOMAIN list : all[i] = list[j]
  <2>1. CASE s \in ToSet(list)
    <3>1. list # << >>
      BY <2>1 DEF ToSet
    <3>2. list \in [1..Len(list) -> Sessions] /\ DOMAIN list = 1..Len(list) /\ Len(list) \in Nat
      OBVIOUS
    <3>3. Len(list) >= 1
      BY <3>1
    <3> QED BY <2>1, <3>2, <3>3
  <2>2. CASE s \notin ToSet(list)
    <3>1. /\ Append(list, s) \in Seq(Sessions) /\ Len(Append(list, s)) = Len(list) + 1
          /\ DOMAIN Append(list, s) = 1..(Len(list) + 1) /\ DOMAIN list = 1..Len(list)
          /\ \A i \in 1..Len(list) : Append(list, s)[i] = list[i]
          /\ Append(list, s)[Len(list) + 1] = s
      OBVIOUS
    <3>2. \A i \in DOMAIN Append(list, s) : i \in 1..Len(list) \/ i = Len(list) + 1
      BY <3>1
    <3>3. list \in [1..Len(list) -> Sessions] /\ Len(list) \in Nat
      OBVIOUS
    <3> QED BY <2>2, <3>1, <3>2, <3>3
  <2> QED BY <2>1, <2>2
<1>2. Remember(list, s, cap) = IF Len(all) <= cap THEN all ELSE SubSeq(all, Len(all) - cap + 1, Len(all))
  BY DEF Remember
<1>3. s \notin ToSet(list) => all = Append(list, s) /\ Len(all) = Len(list) + 1
  OBVIOUS
<1> HIDE DEF all
<1>6. Len(all) \in Nat /\ Len(all) >= 1
  BY <1>1
<1>4. CASE Len(all) <= cap
  <2>1. all # << >>
    <3>1. Len(<< >>) = 0
      OBVIOUS
    <3> QED BY <1>6, <3>1
  <2> QED BY <1>1, <1>2, <1>3, <1>4, <2>1 DEF Lists
<1>5. CASE Len(all) > cap
  <2> DEFINE m == Len(all) - cap + 1
             n == Len(all)
             cut == SubSeq(all, m, n)
  <2>1. m \in Int /\ n \in Int /\ m <= n /\ n - m + 1 = cap /\ m >= 1
    BY <1>5, <1>6
  <2>2. \A i \in m..n : all[i] \in Sessions /\ i \in DOMAIN all
    <3>1. \A i \in m..n : i \in 1..Len(all)
      BY <1>6, <2>1
    <3> HIDE DEF m, n
    <3> QED BY <1>1, <3>1
  <2> HIDE DEF m, n
  <2>3. /\ cut \in Seq(Sessions) /\ Len(cut) = cap
        /\ \A i \in 1..cap : cut[i] = all[m + i - 1]
    BY <2>1, <2>2, SubSeqProperties
  <2>4. \A i \in 1..cap : m + i - 1 \in m..n
    BY <2>1
  <2>5. Remember(list, s, cap) = cut
    BY <1>2, <1>5 DEF m, n
  <2> HIDE DEF cut
  <2>6. DOMAIN cut = 1..cap /\ cut # << >>
    BY <2>3
  <2>7. ~(s \notin ToSet(list) /\ Len(list) < cap)
    BY <1>3, <1>5, <1>6
  <2>8. cut \in Lists(cap)
    BY <2>3 DEF Lists
  <2>9. \A i \in 1..cap : cut[i] = s \/ \E j \in DOMAIN list : cut[i] = list[j]
    <3>1. \A i \in DOMAIN all : all[i] = s \/ \E j \in DOMAIN list : all[i] = list[j]
      BY <1>1
    <3> SUFFICES ASSUME NEW i \in 1..cap PROVE cut[i] = s \/ \E j \in DOMAIN list : cut[i] = list[j]
      OBVIOUS
    <3>2. m + i - 1 \in DOMAIN all /\ cut[i] = all[m + i - 1]
      BY <2>2, <2>3, <2>4
    <3> QED BY <3>1, <3>2
  <2> QED BY <2>5, <2>6, <2>7, <2>8, <2>9
<1> QED BY <1>4, <1>5, <1>6

LEMMA RecordFields ==
  ASSUME NEW r \in Records
  PROVE  /\ r.occurrences \in Nat \ {0} /\ r.lastSeen \in Nat /\ r.contradiction \in Nat
         /\ r.sessions \in Seq(Sessions) /\ Len(r.sessions) <= MinedSessionsCap
         /\ r.against \in Seq(Sessions) /\ Len(r.against) <= ContradictedSessionsCap
         /\ r.status \in {"candidate", "graduated", "withdrawn"}
         /\ r.graduatedAt \in Nat \cup {None}
BY DEF Records, Lists

LEMMA NovelIs ==
  ASSUME TypeOK, NEW s \in Sessions
  PROVE  /\ Novel(s) \in Records
         /\ Novel(s).occurrences = 1 /\ Novel(s).sessions = <<s>> /\ Novel(s).lastSeen = day
         /\ Novel(s).contradiction = 0 /\ Novel(s).against = << >> /\ Novel(s).status = "candidate"
<1>1. <<s>> \in Seq(Sessions) /\ Len(<<s>>) = 1 /\ << >> \in Seq(Sessions) /\ Len(<< >>) = 0
  OBVIOUS
<1>2. <<s>> \in Lists(MinedSessionsCap) /\ << >> \in Lists(ContradictedSessionsCap)
  BY <1>1, CapsAssumption DEF Lists
<1> QED BY <1>2 DEF Novel, Records, TypeOK

LEMMA AgainIs ==
  ASSUME TypeOK, NEW r \in Records, NEW s \in Sessions
  PROVE  /\ Again(r, s) \in Records
         /\ Again(r, s).occurrences = IF s \in ToSet(r.sessions) THEN r.occurrences ELSE r.occurrences + 1
         /\ Again(r, s).sessions = Remember(r.sessions, s, MinedSessionsCap)
         /\ Again(r, s).lastSeen = day
         /\ Again(r, s).contradiction = r.contradiction /\ Again(r, s).against = r.against
         /\ Again(r, s).status = r.status /\ Again(r, s).graduatedAt = r.graduatedAt
<1>1. Remember(r.sessions, s, MinedSessionsCap) \in Lists(MinedSessionsCap)
  BY RecordFields, RememberIs, CapsAssumption
<1> DEFINE n == IF s \in ToSet(r.sessions) THEN r.occurrences ELSE r.occurrences + 1
           q == [occurrences |-> n, sessions |-> Remember(r.sessions, s, MinedSessionsCap),
                 lastSeen |-> day, contradiction |-> r.contradiction, against |-> r.against,
                 status |-> r.status, graduatedAt |-> r.graduatedAt]
<1>2. Again(r, s) = q
  <2> DEFINE list == Remember(r.sessions, s, MinedSessionsCap)
             p(sessions, at) ==
               [occurrences |-> n, sessions |-> sessions, lastSeen |-> at,
                contradiction |-> r.contradiction, against |-> r.against,
                status |-> r.status, graduatedAt |-> r.graduatedAt]
  <2>1. Again(r, s) = [[[r EXCEPT !.occurrences = n] EXCEPT !.sessions = list] EXCEPT !.lastSeen = day]
    BY DEF Again, Records
  <2> HIDE DEF n, list
  <2>2. [r EXCEPT !.occurrences = n] = p(r.sessions, r.lastSeen)
    BY DEF Records
  <2>3. [p(r.sessions, r.lastSeen) EXCEPT !.sessions = list] = p(list, r.lastSeen)
    OBVIOUS
  <2>4. [p(list, r.lastSeen) EXCEPT !.lastSeen = day] = p(list, day)
    OBVIOUS
  <2> QED BY <2>1, <2>2, <2>3, <2>4 DEF list
<1>3. n \in Nat \ {0} /\ day \in Nat
  BY RecordFields DEF TypeOK
<1> HIDE DEF n
<1>4. q \in Records
  BY <1>1, <1>3 DEF Records
<1> QED BY <1>2, <1>4 DEF n

\* A record with one more session against it.
Charged(r, s) ==
  [r EXCEPT !.contradiction = @ + 1, !.against = Remember(@, s, ContradictedSessionsCap)]

LEMMA ChargedIs ==
  ASSUME NEW r \in Records, NEW s \in Sessions
  PROVE  /\ Charged(r, s) \in Records
         /\ Charged(r, s).occurrences = r.occurrences /\ Charged(r, s).sessions = r.sessions
         /\ Charged(r, s).lastSeen = r.lastSeen
         /\ Charged(r, s).contradiction = r.contradiction + 1
         /\ Charged(r, s).against = Remember(r.against, s, ContradictedSessionsCap)
         /\ Charged(r, s).status = r.status /\ Charged(r, s).graduatedAt = r.graduatedAt
<1>1. Remember(r.against, s, ContradictedSessionsCap) \in Lists(ContradictedSessionsCap)
  BY RecordFields, RememberIs, CapsAssumption
<1> DEFINE q == [occurrences |-> r.occurrences, sessions |-> r.sessions, lastSeen |-> r.lastSeen,
                 contradiction |-> r.contradiction + 1,
                 against |-> Remember(r.against, s, ContradictedSessionsCap),
                 status |-> r.status, graduatedAt |-> r.graduatedAt]
<1>2. Charged(r, s) = q
  <2> DEFINE list == Remember(r.against, s, ContradictedSessionsCap)
             p(against) ==
               [occurrences |-> r.occurrences, sessions |-> r.sessions, lastSeen |-> r.lastSeen,
                contradiction |-> r.contradiction + 1, against |-> against,
                status |-> r.status, graduatedAt |-> r.graduatedAt]
  <2>1. Charged(r, s) = [[r EXCEPT !.contradiction = r.contradiction + 1] EXCEPT !.against = list]
    BY DEF Charged, Records
  <2> HIDE DEF list
  <2>2. [r EXCEPT !.contradiction = r.contradiction + 1] = p(r.against)
    BY DEF Records
  <2>3. [p(r.against) EXCEPT !.against = list] = p(list)
    OBVIOUS
  <2> QED BY <2>1, <2>2, <2>3 DEF list
<1>3. q \in Records
  BY <1>1 DEF Records
<1> QED BY <1>2, <1>3

\* A record that was graduated, or withdrawn.
Graduating(r) == [r EXCEPT !.status = "graduated", !.graduatedAt = now + 1]
Withdrawing(r) == [r EXCEPT !.status = "withdrawn"]

LEMMA JudgedIs ==
  ASSUME TypeOK, NEW r \in Records
  PROVE  /\ Graduating(r) \in Records /\ Withdrawing(r) \in Records
         /\ \A q \in {Graduating(r), Withdrawing(r)} :
              /\ q.occurrences = r.occurrences /\ q.sessions = r.sessions /\ q.lastSeen = r.lastSeen
              /\ q.contradiction = r.contradiction /\ q.against = r.against
         /\ Graduating(r).status = "graduated" /\ Graduating(r).graduatedAt = now + 1
         /\ Withdrawing(r).status = "withdrawn" /\ Withdrawing(r).graduatedAt = r.graduatedAt
<1> DEFINE q(status, at) ==
             [occurrences |-> r.occurrences, sessions |-> r.sessions, lastSeen |-> r.lastSeen,
              contradiction |-> r.contradiction, against |-> r.against,
              status |-> status, graduatedAt |-> at]
<1>1. Graduating(r) = q("graduated", now + 1) /\ Withdrawing(r) = q("withdrawn", r.graduatedAt)
  <2>1. Withdrawing(r) = q("withdrawn", r.graduatedAt)
    BY DEF Withdrawing, Records
  <2>2. Graduating(r) = [[r EXCEPT !.status = "graduated"] EXCEPT !.graduatedAt = now + 1]
    BY DEF Graduating, Records
  <2>3. [r EXCEPT !.status = "graduated"] = q("graduated", r.graduatedAt)
    BY DEF Records
  <2>4. [q("graduated", r.graduatedAt) EXCEPT !.graduatedAt = now + 1] = q("graduated", now + 1)
    OBVIOUS
  <2> QED BY <2>1, <2>2, <2>3, <2>4
<1>2. \A status \in {"graduated", "withdrawn"}, at \in Nat \cup {None} : q(status, at) \in Records
  BY DEF Records
<1>3. now + 1 \in Nat \cup {None} /\ r.graduatedAt \in Nat \cup {None}
  BY RecordFields DEF TypeOK
<1> QED BY <1>1, <1>2, <1>3

-----------------------------------------------------------------------------
(* Mined and judged books.                                                 *)

LEMMA BookTypes ==
  ASSUME TypeOK
  PROVE  /\ HeldBooks \subseteq Books
         /\ HeldCodexes \subseteq [Candidates -> Entries]
         /\ \A book \in HeldBooks, c \in Candidates : book[c] # None => book[c] \in Records
<1>1. ASSUME NEW m \in Miners, run[m] # None PROVE run[m].work \in Books
  BY <1>1 DEF TypeOK, Runs
<1>2. ASSUME NEW w \in Refreshes, refresh[w] # None PROVE refresh[w].view \in Codexes
  BY <1>2 DEF TypeOK
<1>3. HeldBooks \subseteq Books
  BY <1>1 DEF HeldBooks, TypeOK
<1>4. HeldCodexes \subseteq Codexes \ {None}
  BY <1>2 DEF HeldCodexes, TypeOK
<1> QED BY <1>3, <1>4 DEF Books, Codexes

LEMMA MergedIs ==
  ASSUME TypeOK, NEW book \in Books, NEW s \in Sessions
  PROVE  /\ Merged(book, s) \in Books
         /\ \A c \in Candidates :
              \/ Merged(book, s)[c] = book[c]
              \/ heard[s][c].seen /\ book[c] = None /\ Merged(book, s)[c] = Novel(s)
              \/ heard[s][c].seen /\ book[c] \in Records /\ Merged(book, s)[c] = Again(book[c], s)
<1>1. \A c \in Candidates : book[c] = None \/ book[c] \in Records
  BY DEF Books
<1>2. \A c \in Mined(book, s) : heard[s][c].seen
  BY DEF Mined
<1>3. \A c \in Candidates : Merged(book, s)[c] =
         IF c \notin Mined(book, s) THEN book[c]
         ELSE IF book[c] = None THEN Novel(s) ELSE Again(book[c], s)
  BY DEF Merged
<1>4. \A c \in Candidates : Merged(book, s)[c] \in Records \cup {None}
  BY <1>1, <1>3, NovelIs, AgainIs
<1>5. Merged(book, s) \in Books
  BY <1>4 DEF Merged, Books
<1> QED BY <1>1, <1>2, <1>3, <1>5

LEMMA SweptIs ==
  ASSUME NEW book \in Books, NEW s \in Sessions
  PROVE  /\ Swept(book, s) \in Books
         /\ \A c \in Candidates :
              \/ Swept(book, s)[c] = book[c]
              \/ Contradicts(book[c], s, c) /\ book[c] \in Records /\ Swept(book, s)[c] = Charged(book[c], s)
<1>1. \A c \in Candidates : book[c] = None \/ book[c] \in Records
  BY DEF Books
<1>2. \A c \in Candidates : Swept(book, s)[c] =
         IF ~Contradicts(book[c], s, c) THEN book[c] ELSE Charged(book[c], s)
  BY DEF Swept, Charged
<1>3. \A c \in Candidates : Contradicts(book[c], s, c) => book[c] \in Records
  BY <1>1 DEF Contradicts
<1>4. \A c \in Candidates : Swept(book, s)[c] \in Records \cup {None}
  BY <1>1, <1>2, <1>3, ChargedIs
<1>5. Swept(book, s) \in Books
  BY <1>4 DEF Swept, Books
<1> QED BY <1>2, <1>3, <1>5

LEMMA JudgedBook ==
  ASSUME TypeOK, NEW m \in Miners, run[m] # None, codex # None
  PROVE  /\ Judged(m) \in Books
         /\ \A c \in Candidates :
              \/ c \notin Due(m) /\ c \notin Ready(m) /\ Judged(m)[c] = run[m].work[c]
              \/ c \in Due(m) /\ run[m].work[c] \in Records /\ Judged(m)[c] = Withdrawing(run[m].work[c])
              \/ c \notin Due(m) /\ c \in Ready(m) /\ run[m].work[c] \in Records
                 /\ Judged(m)[c] = Graduating(run[m].work[c])
<1>1. run[m].work \in Books
  BY DEF TypeOK, Runs
<1>2. \A c \in Candidates : run[m].work[c] = None \/ run[m].work[c] \in Records
  BY <1>1 DEF Books
<1>3. \A c \in Due(m) \cup Ready(m) : run[m].work[c] # None
  BY DEF Due, Ready, Eligible, BelowWithdrawal
<1>4. \A c \in Candidates : Judged(m)[c] =
         IF c \in Due(m) THEN Withdrawing(run[m].work[c])
         ELSE IF c \in Ready(m) THEN Graduating(run[m].work[c]) ELSE run[m].work[c]
  BY DEF Judged, Graduating, Withdrawing
<1>5. \A c \in Candidates : Judged(m)[c] \in Records \cup {None}
  BY <1>2, <1>3, <1>4, JudgedIs
<1>6. Judged(m) \in Books
  BY <1>5 DEF Judged, Books
<1> QED BY <1>2, <1>3, <1>4, <1>6
-----------------------------------------------------------------------------
(* Type correctness. *)

LEMMA RunIs ==
  ASSUME TypeOK, NEW m \in Miners, run[m] # None
  PROVE  /\ run[m] \in Runs /\ run[m].work \in Books /\ run[m].work \in HeldBooks
         /\ run[m].pc \in {"mined", "passed"} /\ run[m].session \in Sessions
<1>1. run[m] \in Runs
  BY DEF TypeOK
<1> QED BY <1>1 DEF Runs, HeldBooks

\* A run moves on: its place, and its book.
LEMMA RunSet ==
  ASSUME TypeOK, NEW m \in Miners, NEW v \in Runs \cup {None}, run' = [run EXCEPT ![m] = v]
  PROVE  /\ run' \in [Miners -> Runs \cup {None}]
         /\ run'[m] = v /\ \A n \in Miners \ {m} : run'[n] = run[n]
<1>1. run \in [Miners -> Runs \cup {None}]
  BY DEF TypeOK
<1> QED BY <1>1

LEMMA MineShape ==
  ASSUME TypeOK, NEW m \in Miners, NEW s \in Sessions, Mine(m, s)
  PROVE  \E v \in Runs : /\ run' = [run EXCEPT ![m] = v]
                         /\ v.pc = "mined" /\ v.work = Swept(Merged(records, s), s) /\ v.session = s
                         /\ v.again = (quiet = s)
<1> DEFINE v == [pc |-> "mined", session |-> s, work |-> Swept(Merged(records, s), s), again |-> quiet = s]
<1>1. Swept(Merged(records, s), s) \in Books
  BY MergedIs, SweptIs DEF TypeOK
<1>2. (quiet = s) \in BOOLEAN
  OBVIOUS
<1>3. v \in Runs
  BY <1>1, <1>2 DEF Runs
<1>4. run' = [run EXCEPT ![m] = v]
  BY DEF Mine
<1> QED BY <1>3, <1>4

LEMMA PassShape ==
  ASSUME TypeOK, NEW m \in Miners, Pass(m)
  PROVE  \E v \in Runs : /\ run' = [run EXCEPT ![m] = v]
                         /\ v.pc = "passed" /\ v.work = Judged(m)
                         /\ v.session = run[m].session /\ v.again = run[m].again
<1> DEFINE old == run[m]
           p == [pc |-> "passed", session |-> old.session, work |-> old.work, again |-> old.again]
           v == [pc |-> "passed", session |-> old.session, work |-> Judged(m), again |-> old.again]
<1>1. run[m] # None /\ codex # None
  BY DEF Pass, Passing
<1>2. old \in Runs
  BY <1>1, RunIs
<1>3. Judged(m) \in Books
  BY <1>1, JudgedBook
<1>4. v \in Runs
  BY <1>2, <1>3 DEF Runs
<1>5. run' = [run EXCEPT ![m] = [[old EXCEPT !.pc = "passed"] EXCEPT !.work = Judged(m)]]
  <2>1. run' = [run EXCEPT ![m].pc = "passed", ![m].work = Judged(m)]
    BY DEF Pass
  <2>2. run \in [Miners -> Runs \cup {None}]
    BY DEF TypeOK
  <2> QED BY <2>1, <2>2
<1>6. [old EXCEPT !.pc = "passed"] = p
  BY <1>2 DEF Runs
<1>7. [p EXCEPT !.work = Judged(m)] = v
  OBVIOUS
<1> QED BY <1>4, <1>5, <1>6, <1>7

LEMMA PassWaitsShape ==
  ASSUME TypeOK, NEW m \in Miners, PassWaits(m)
  PROVE  \E v \in Runs : /\ run' = [run EXCEPT ![m] = v]
                         /\ v.pc = "passed" /\ v.work = run[m].work
                         /\ v.session = run[m].session /\ v.again = run[m].again
<1> DEFINE old == run[m]
           v == [old EXCEPT !.pc = "passed"]
<1>1. old \in Runs
  BY RunIs DEF PassWaits, Passing
<1>2. v \in Runs /\ v.pc = "passed" /\ v.work = old.work /\ v.session = old.session /\ v.again = old.again
  BY <1>1 DEF Runs
<1>3. run' = [run EXCEPT ![m] = v]
  BY DEF PassWaits
<1> QED BY <1>2, <1>3

\* What the audit history shows of a session only grows.
Grows(h, h2) == \A s \in Sessions, c \in Candidates :
  /\ h[s][c].seen => h2[s][c].seen
  /\ h[s][c].bad # None => h2[s][c].bad # None /\ h2[s][c].bad >= h[s][c].bad

LEMMA HeardShape ==
  ASSUME TypeOK, NEW s \in Sessions, NEW c \in Candidates,
         Zoom(s, c) \/ Fail(s, c) \/ Fix(s, c) \/ Signal(s, c)
  PROVE  \E evidence \in Evidence :
           /\ Heard(s, c, evidence)
           /\ heard[s][c].seen => evidence.seen
           /\ evidence.bad = now \/ evidence.bad = heard[s][c].bad
<1>1. heard[s][c] \in Evidence /\ now \in Nat
  BY DEF TypeOK
<1>2. CASE Zoom(s, c)
  <2>1. [seen |-> TRUE, bad |-> now] \in Evidence
    BY <1>1 DEF Evidence
  <2> QED BY <1>2, <2>1 DEF Zoom
<1>3. CASE Fail(s, c)
  <2>1. /\ [heard[s][c] EXCEPT !.bad = now] \in Evidence
        /\ [heard[s][c] EXCEPT !.bad = now].seen = heard[s][c].seen
        /\ [heard[s][c] EXCEPT !.bad = now].bad = now
    BY <1>1 DEF Evidence
  <2> QED BY <1>3, <2>1 DEF Fail
<1>4. CASE Fix(s, c) \/ Signal(s, c)
  <2>1. /\ [heard[s][c] EXCEPT !.seen = TRUE] \in Evidence
        /\ [heard[s][c] EXCEPT !.seen = TRUE].seen = TRUE
        /\ [heard[s][c] EXCEPT !.seen = TRUE].bad = heard[s][c].bad
    BY <1>1 DEF Evidence
  <2> QED BY <1>4, <2>1 DEF Fix, Signal
<1> QED BY <1>2, <1>3, <1>4

LEMMA HeardIs ==
  ASSUME TypeOK, NEW s \in Sessions, NEW c \in Candidates, NEW evidence \in Evidence, Heard(s, c, evidence)
  PROVE  /\ heard' \in [Sessions -> [Candidates -> Evidence]]
         /\ heard'[s][c] = evidence
         /\ \A t \in Sessions, d \in Candidates : t # s \/ d # c => heard'[t][d] = heard[t][d]
BY DEF TypeOK, Heard

LEMMA RewrittenType == ASSUME TypeOK, codex # None, NEW m PROVE Rewritten(m) \in [Candidates -> Entries]
<1>1. codex \in [Candidates -> Entries]
  BY DEF TypeOK, Codexes
<1> QED BY <1>1 DEF Rewritten, Entries

LEMMA LockType ==
  ASSUME TypeOK, NEW c \in Candidates, codex # None
  PROVE  [codex EXCEPT ![c] = "locked"] \in [Candidates -> Entries]
<1>1. codex \in [Candidates -> Entries]
  BY DEF TypeOK, Codexes
<1> QED BY <1>1 DEF Entries

LEMMA WrittenType ==
  ASSUME TypeOK, NEW w \in Refreshes, refresh[w] # None
  PROVE  refresh[w].view \in Codexes /\ Written(refresh[w].view) \in [Candidates -> Entries]
<1>1. refresh[w].view \in Codexes
  BY DEF TypeOK
<1>2. [c \in Candidates |-> "absent"] \in [Candidates -> Entries]
  BY DEF Entries
<1> QED BY <1>1, <1>2 DEF Written, Codexes

LEMMA InitTyped == Init => TypeOK
BY DEF Init, TypeOK, Evidence, Books, Codexes

LEMMA NextTyped == ASSUME TypeOK, [Next]_vars PROVE TypeOK'
<1>1. ASSUME NEW s \in Sessions, Session(s) PROVE TypeOK'
  <2>1. PICK c \in Candidates : Zoom(s, c) \/ Fail(s, c) \/ Fix(s, c) \/ Signal(s, c)
    BY <1>1 DEF Session
  <2>2. PICK evidence \in Evidence : Heard(s, c, evidence)
    BY <2>1, HeardShape
  <2>3. heard' \in [Sessions -> [Candidates -> Evidence]]
    BY <2>2, HeardIs
  <2> QED BY <2>2, <2>3 DEF Heard, TypeOK
<1>2. ASSUME NEW m \in Miners, run' \in [Miners -> Runs \cup {None}],
             records' \in Books, codex' \in Codexes, audit' \subseteq {"graduate", "withdraw"} \X Candidates,
             now' \in Nat, quiet' \in Sessions \cup {None}, mishaps' \subseteq {"died", "overlapped"},
             UNCHANGED <<heard, refresh, day>>
      PROVE  TypeOK'
  BY <1>2 DEF TypeOK
<1>3. ASSUME NEW m \in Miners, NEW v \in Runs \cup {None}, run' = [run EXCEPT ![m] = v]
      PROVE  run' \in [Miners -> Runs \cup {None}]
  BY <1>3, RunSet
<1>4. /\ records \in Books /\ codex \in Codexes /\ audit \subseteq {"graduate", "withdraw"} \X Candidates
      /\ now \in Nat /\ quiet \in Sessions \cup {None} /\ mishaps \subseteq {"died", "overlapped"}
  BY DEF TypeOK
<1>5. ASSUME NEW m \in Miners PROVE Due(m) \subseteq Candidates /\ Ready(m) \subseteq Candidates
  BY DEF Due, Ready
<1>6. ASSUME NEW m \in Miners, NEW s \in Sessions, Mine(m, s) PROVE TypeOK'
  <2>1. run' \in [Miners -> Runs \cup {None}]
    BY <1>3, <1>6, MineShape
  <2> QED BY <1>2, <1>4, <1>6, <2>1 DEF Mine
<1>7. ASSUME NEW m \in Miners, Pass(m) PROVE TypeOK'
  <2>1. run' \in [Miners -> Runs \cup {None}]
    BY <1>3, <1>7, PassShape
  <2>2. codex' \in Codexes
    BY <1>7, RewrittenType DEF Pass, Codexes
  <2>3. audit' \subseteq {"graduate", "withdraw"} \X Candidates
    BY <1>4, <1>5, <1>7 DEF Pass, Told
  <2>4. UNCHANGED <<heard, records, refresh, day, quiet>> /\ now' \in Nat /\ mishaps' \subseteq {"died", "overlapped"}
    BY <1>4, <1>7 DEF Pass
  <2> QED BY <1>2, <1>4, <2>1, <2>2, <2>3, <2>4
<1>8. ASSUME NEW m \in Miners, PassWaits(m) PROVE TypeOK'
  <2>1. run' \in [Miners -> Runs \cup {None}]
    BY <1>3, <1>8, PassWaitsShape
  <2> QED BY <1>2, <1>4, <1>8, <2>1 DEF PassWaits, history
<1>9. ASSUME NEW m \in Miners, PassThrows(m) PROVE TypeOK'
  <2>1. run' \in [Miners -> Runs \cup {None}]
    BY <1>3, <1>9 DEF PassThrows
  <2>2. audit' \subseteq {"graduate", "withdraw"} \X Candidates
    BY <1>4, <1>5, <1>9 DEF PassThrows, Told
  <2> QED BY <1>2, <1>4, <1>9, <2>1, <2>2 DEF PassThrows
<1>10. ASSUME NEW m \in Miners, Persist(m) PROVE TypeOK'
  <2>1. run' \in [Miners -> Runs \cup {None}]
    BY <1>3, <1>10 DEF Persist
  <2>2. records' \in Books
    BY <1>10, RunIs DEF Persist
  <2> QED BY <1>2, <1>4, <1>10, <2>1, <2>2 DEF Persist, history
<1>11. ASSUME NEW m \in Miners, Die(m) PROVE TypeOK'
  <2>1. run' \in [Miners -> Runs \cup {None}]
    BY <1>3, <1>11 DEF Die
  <2>2. mishaps' \subseteq {"died", "overlapped"}
    BY <1>4, <1>11 DEF Die
  <2> QED BY <1>2, <1>4, <1>11, <2>1, <2>2 DEF Die
<1>12. ASSUME NEW w \in Refreshes, Refresh(w) PROVE TypeOK'
  <2>1. refresh' \in [Refreshes -> [view : Codexes] \cup {None}]
    BY <1>12 DEF Refresh, RefreshReads, RefreshWrites, RefreshEnds, TypeOK
  <2>2. codex' \in Codexes /\ quiet' \in Sessions \cup {None}
    <3>1. CASE RefreshWrites(w)
      BY <3>1, WrittenType DEF RefreshWrites, Written, Codexes
    <3>2. CASE UNCHANGED codex /\ UNCHANGED history
      BY <1>4, <3>2 DEF history
    <3> QED BY <1>12, <3>1, <3>2 DEF Refresh, RefreshReads, RefreshEnds
  <2>3. UNCHANGED <<heard, records, audit, run, now, day, mishaps>>
    BY <1>12 DEF Refresh, RefreshReads, RefreshWrites, RefreshEnds, history
  <2> QED BY <2>1, <2>2, <2>3 DEF TypeOK
<1>13. ASSUME NEW c \in Candidates, Lock(c) PROVE TypeOK'
  <2>1. codex' \in Codexes
    BY <1>13, LockType DEF Lock, Codexes
  <2> QED BY <1>13, <2>1 DEF Lock, TypeOK
<1>14. CASE HalfLife
  BY <1>14 DEF HalfLife, TypeOK
<1>15. CASE UNCHANGED vars
  BY <1>15 DEF vars, history, TypeOK
<1> QED BY <1>1, <1>6, <1>7, <1>8, <1>9, <1>10, <1>11, <1>12, <1>13, <1>14, <1>15 DEF Next, Run

\* The state of the pass is of its types: books of records with their two
\* bounded lists of sessions, and codexes of entries.
THEOREM GraduationTyped == Spec => []TypeOK
BY InitTyped, NextTyped, PTL DEF Spec
-----------------------------------------------------------------------------
(* What a step adds to what is held.                                       *)

LEMMA RunHolds ==
  ASSUME TypeOK, NEW m \in Miners, NEW v \in Runs \cup {None}, run' = [run EXCEPT ![m] = v],
         records' \in HeldBooks
  PROVE  /\ v # None => HeldBooks' \subseteq HeldBooks \cup {v.work}
         /\ v = None => HeldBooks' \subseteq HeldBooks
<1>1. run'[m] = v /\ \A n \in Miners \ {m} : run'[n] = run[n]
  BY RunSet
<1>2. ASSUME NEW n \in Miners, run'[n] # None
      PROVE  run'[n].work \in HeldBooks \/ (v # None /\ run'[n].work = v.work)
  <2>1. CASE n = m
    BY <1>1, <1>2, <2>1
  <2>2. CASE n # m
    BY <1>1, <1>2, <2>2 DEF HeldBooks
  <2> QED BY <2>1, <2>2
<1>3. HeldBooks' = {records'} \cup {run'[n].work : n \in {n \in Miners : run'[n] # None}}
  BY DEF HeldBooks
<1> QED BY <1>2, <1>3

LEMMA BooksSame == ASSUME UNCHANGED <<records, run>> PROVE HeldBooks' = HeldBooks
BY DEF HeldBooks

LEMMA CodexesSame == ASSUME UNCHANGED <<codex, refresh>> PROVE HeldCodexes' = HeldCodexes
BY DEF HeldCodexes

LEMMA CodexHolds ==
  ASSUME NEW x, codex' = x, UNCHANGED refresh PROVE HeldCodexes' \subseteq HeldCodexes \cup {x}
BY DEF HeldCodexes

LEMMA RefreshHolds ==
  ASSUME TypeOK, NEW w \in Refreshes, Refresh(w)
  PROVE  HeldCodexes' \subseteq HeldCodexes \cup {[c \in Candidates |-> "absent"]}
<1>1. HeldCodexes' = ({codex'} \cup {refresh'[v].view : v \in {v \in Refreshes : refresh'[v] # None}}) \ {None}
  BY DEF HeldCodexes
<1>2. refresh \in [Refreshes -> [view : Codexes] \cup {None}]
  BY DEF TypeOK
<1>3. CASE RefreshReads(w)
  <2>1. codex' = codex /\ refresh' = [refresh EXCEPT ![w] = [view |-> codex]]
    BY <1>3 DEF RefreshReads
  <2>2. refresh'[w].view = codex /\ \A v \in Refreshes \ {w} : refresh'[v] = refresh[v]
    BY <1>2, <2>1
  <2>3. ASSUME NEW v \in Refreshes, refresh'[v] # None, refresh'[v].view # None PROVE refresh'[v].view \in HeldCodexes
    <3>1. CASE v = w
      BY <2>2, <2>3, <3>1 DEF HeldCodexes
    <3>2. CASE v # w
      BY <2>2, <2>3, <3>2 DEF HeldCodexes
    <3> QED BY <3>1, <3>2
  <2>4. codex' # None => codex' \in HeldCodexes
    BY <2>1 DEF HeldCodexes
  <2> QED BY <1>1, <2>3, <2>4
<1>4. ASSUME refresh[w] # None, refresh' = [refresh EXCEPT ![w] = None], codex' = codex \/ codex' = Written(refresh[w].view)
      PROVE  HeldCodexes' \subseteq HeldCodexes \cup {[c \in Candidates |-> "absent"]}
  <2>1. refresh'[w] = None /\ \A v \in Refreshes \ {w} : refresh'[v] = refresh[v]
    BY <1>2, <1>4
  <2>2. ASSUME NEW v \in Refreshes, refresh'[v] # None, refresh'[v].view # None PROVE refresh'[v].view \in HeldCodexes
    <3>1. v # w /\ refresh'[v] = refresh[v]
      BY <2>1, <2>2
    <3> QED BY <2>2, <3>1 DEF HeldCodexes
  <2>3. codex' # None => codex' \in HeldCodexes \cup {[c \in Candidates |-> "absent"]}
    BY <1>4 DEF HeldCodexes, Written
  <2> QED BY <1>1, <2>2, <2>3
<1> QED BY <1>3, <1>4 DEF Refresh, RefreshWrites, RefreshEnds, Written

\* One step, as far as the invariants go.
LEMMA NextHolds ==
  ASSUME TypeOK, Heeded, [Next]_vars
  PROVE  /\ Grows(heard, heard') /\ audit \subseteq audit' /\ now <= now' /\ day <= day'
         /\ \/ HeldBooks' \subseteq HeldBooks
            \/ \E m \in Miners, s \in Sessions :
                 Mine(m, s) /\ HeldBooks' \subseteq HeldBooks \cup {Swept(Merged(records, s), s)}
            \/ \E m \in Miners : Pass(m) /\ HeldBooks' \subseteq HeldBooks \cup {Judged(m)}
         /\ \/ HeldCodexes' \subseteq HeldCodexes \cup {[c \in Candidates |-> "absent"]}
            \/ \E m \in Miners : Pass(m) /\ HeldCodexes' \subseteq HeldCodexes \cup {Rewritten(m)}
            \/ \E c \in Candidates : Lock(c) /\ HeldCodexes' \subseteq HeldCodexes \cup {[codex EXCEPT ![c] = "locked"]}
<1> DEFINE P == /\ Grows(heard, heard') /\ audit \subseteq audit' /\ now <= now' /\ day <= day'
           B == \/ HeldBooks' \subseteq HeldBooks
                \/ \E m \in Miners, s \in Sessions :
                     Mine(m, s) /\ HeldBooks' \subseteq HeldBooks \cup {Swept(Merged(records, s), s)}
                \/ \E m \in Miners : Pass(m) /\ HeldBooks' \subseteq HeldBooks \cup {Judged(m)}
           X == \/ HeldCodexes' \subseteq HeldCodexes \cup {[c \in Candidates |-> "absent"]}
                \/ \E m \in Miners : Pass(m) /\ HeldCodexes' \subseteq HeldCodexes \cup {Rewritten(m)}
                \/ \E c \in Candidates : Lock(c) /\ HeldCodexes' \subseteq HeldCodexes \cup {[codex EXCEPT ![c] = "locked"]}
<1>1. /\ now \in Nat /\ day \in Nat
      /\ \A s \in Sessions, c \in Candidates : heard[s][c] \in Evidence
  BY DEF TypeOK
<1>2. Grows(heard, heard)
  BY <1>1 DEF Grows, Evidence
<1>3. ASSUME UNCHANGED <<heard, audit, now, day>> PROVE P
  BY <1>1, <1>2, <1>3
<1>4. ASSUME UNCHANGED <<records, run>> PROVE B
  BY <1>4, BooksSame
<1>5. ASSUME UNCHANGED <<codex, refresh>> PROVE X
  BY <1>5, CodexesSame
<1>6. ASSUME NEW m \in Miners, run' = [run EXCEPT ![m] = None], records' \in HeldBooks PROVE B
  BY <1>6, RunHolds
<1>7. records \in HeldBooks
  BY DEF HeldBooks
<1>8. ASSUME NEW s \in Sessions, Session(s) PROVE P /\ B /\ X
  <2>1. PICK c \in Candidates : Zoom(s, c) \/ Fail(s, c) \/ Fix(s, c) \/ Signal(s, c)
    BY <1>8 DEF Session
  <2>2. PICK evidence \in Evidence :
          /\ Heard(s, c, evidence)
          /\ heard[s][c].seen => evidence.seen
          /\ evidence.bad = now \/ evidence.bad = heard[s][c].bad
    BY <2>1, HeardShape
  <2>3. /\ heard'[s][c] = evidence
        /\ \A t \in Sessions, d \in Candidates : t # s \/ d # c => heard'[t][d] = heard[t][d]
    BY <2>2, HeardIs
  <2>4. heard[s][c].bad # None => evidence.bad # None /\ evidence.bad >= heard[s][c].bad
    BY <1>1, <2>2, NoneAssumption DEF Heeded, Evidence
  <2>5. Grows(heard, heard')
    BY <1>1, <1>2, <2>2, <2>3, <2>4 DEF Grows
  <2>6. UNCHANGED <<records, codex, audit, run, refresh, now, day, mishaps>>
    BY <2>2 DEF Heard
  <2> QED BY <1>1, <1>4, <1>5, <2>5, <2>6
<1>9. ASSUME NEW m \in Miners, Run(m) PROVE P /\ B /\ X
  <2>1. ASSUME NEW s \in Sessions, Mine(m, s) PROVE P /\ B /\ X
    <3>1. PICK v \in Runs : run' = [run EXCEPT ![m] = v] /\ v.work = Swept(Merged(records, s), s)
      BY <2>1, MineShape
    <3>2. records' \in HeldBooks
      BY <1>7, <2>1 DEF Mine
    <3>3. B
      BY <2>1, <3>1, <3>2, RunHolds
    <3> QED BY <1>3, <1>5, <2>1, <3>3 DEF Mine
  <2>2. CASE Pass(m)
    <3>1. PICK v \in Runs : run' = [run EXCEPT ![m] = v] /\ v.work = Judged(m)
      BY <2>2, PassShape
    <3>2. records' \in HeldBooks
      BY <1>7, <2>2 DEF Pass
    <3>3. B
      BY <2>2, <3>1, <3>2, RunHolds
    <3>4. X
      BY <2>2, CodexHolds DEF Pass
    <3>5. UNCHANGED <<heard, day>> /\ audit \subseteq audit' /\ now <= now'
      BY <1>1, <2>2 DEF Pass
    <3> QED BY <1>1, <1>2, <3>3, <3>4, <3>5
  <2>3. CASE PassWaits(m)
    <3>1. PICK v \in Runs : run' = [run EXCEPT ![m] = v] /\ v.work = run[m].work
      BY <2>3, PassWaitsShape
    <3>2. records' \in HeldBooks /\ v.work \in HeldBooks
      BY <1>7, <2>3, <3>1, RunIs DEF PassWaits, Passing
    <3>3. B
      BY <2>3, <3>1, <3>2, RunHolds
    <3> QED BY <1>3, <1>5, <2>3, <3>3 DEF PassWaits
  <2>4. CASE PassThrows(m)
    <3>1. UNCHANGED <<heard, records, codex, refresh, now, day>> /\ audit \subseteq audit'
          /\ run' = [run EXCEPT ![m] = None]
      BY <2>4 DEF PassThrows
    <3>2. B
      BY <1>6, <1>7, <3>1
    <3>3. X
      BY <1>5, <3>1
    <3>4. P
      BY <1>1, <1>2, <3>1
    <3> QED BY <3>2, <3>3, <3>4
  <2>5. CASE Persist(m)
    <3>1. records' \in HeldBooks
      BY <2>5, RunIs DEF Persist
    <3> QED BY <1>3, <1>5, <1>6, <2>5, <3>1 DEF Persist
  <2>6. CASE Die(m)
    BY <1>3, <1>5, <1>6, <1>7, <2>6 DEF Die
  <2> QED BY <1>9, <2>1, <2>2, <2>3, <2>4, <2>5, <2>6 DEF Run
<1>10. ASSUME NEW w \in Refreshes, Refresh(w) PROVE P /\ B /\ X
  <2>1. UNCHANGED <<heard, records, audit, run, now, day>>
    BY <1>10 DEF Refresh, RefreshReads, RefreshWrites, RefreshEnds
  <2> QED BY <1>3, <1>4, <1>10, <2>1, RefreshHolds
<1>11. ASSUME NEW c \in Candidates, Lock(c) PROVE P /\ B /\ X
  <2>1. UNCHANGED <<heard, records, audit, run, refresh, now, day>> /\ codex' = [codex EXCEPT ![c] = "locked"]
    BY <1>11 DEF Lock
  <2> QED BY <1>3, <1>4, <1>11, <2>1, CodexHolds
<1>12. ASSUME HalfLife PROVE P /\ B /\ X
  <2>1. UNCHANGED <<heard, records, codex, audit, run, refresh, now>> /\ day' = day + 1
    BY <1>12 DEF HalfLife
  <2> QED BY <1>1, <1>2, <1>4, <1>5, <2>1
<1>13. ASSUME UNCHANGED vars PROVE P /\ B /\ X
  BY <1>3, <1>4, <1>5, <1>13 DEF vars
<1> HIDE DEF P, B, X
<1>14. ASSUME Next PROVE P /\ B /\ X
  BY <1>8, <1>9, <1>10, <1>11, <1>12, <1>14 DEF Next
<1>15. P /\ B /\ X
  BY <1>13, <1>14
<1> QED BY <1>15 DEF P, B, X
-----------------------------------------------------------------------------
(* What the history has.                                                   *)

LEMMA NextHeeded == ASSUME TypeOK, Heeded, [Next]_vars PROVE Heeded'
<1>1. now \in Nat /\ now' \in Nat /\ now <= now'
  BY NextTyped, NextHolds DEF TypeOK
<1>2. \A s \in Sessions, c \in Candidates : heard[s][c] \in Evidence
  BY DEF TypeOK
<1>3. CASE UNCHANGED heard
  <2>1. \A c \in Candidates : Seen(heard', c) = Seen(heard, c)
    BY <1>3 DEF Seen
  <2>2. \A s \in Sessions, c \in Candidates : heard'[s][c].bad # None => heard'[s][c].bad <= now'
    BY <1>1, <1>2, <1>3 DEF Heeded, Evidence
  <2> QED BY <2>1, <2>2 DEF Heeded
<1>4. ASSUME NEW s \in Sessions, Session(s) PROVE Heeded'
  <2>1. PICK c \in Candidates : Zoom(s, c) \/ Fail(s, c) \/ Fix(s, c) \/ Signal(s, c)
    BY <1>4 DEF Session
  <2>2. PICK evidence \in Evidence :
          /\ Heard(s, c, evidence)
          /\ heard[s][c].seen => evidence.seen
          /\ evidence.bad = now \/ evidence.bad = heard[s][c].bad
    BY <2>1, HeardShape
  <2>3. /\ heard'[s][c] = evidence
        /\ \A t \in Sessions, d \in Candidates : t # s \/ d # c => heard'[t][d] = heard[t][d]
    BY <2>2, HeardIs
  <2>4. ASSUME NEW d \in Candidates PROVE IsFiniteSet(Seen(heard', d))
    <3>1. Seen(heard', d) \subseteq Seen(heard, d) \cup {s}
      BY <2>3 DEF Seen
    <3>2. IsFiniteSet(Seen(heard, d) \cup {s})
      BY FS_AddElement DEF Heeded
    <3> QED BY <3>1, <3>2, FS_Subset
  <2>5. ASSUME NEW t \in Sessions, NEW d \in Candidates, heard'[t][d].bad # None PROVE heard'[t][d].bad <= now
    BY <1>1, <1>2, <2>2, <2>3, <2>5 DEF Heeded, Evidence
  <2>6. now' = now
    BY <2>2 DEF Heard
  <2> QED BY <2>4, <2>5, <2>6 DEF Heeded
<1>5. ASSUME NEW m \in Miners, Run(m) PROVE UNCHANGED heard
  BY <1>5 DEF Run, Mine, Pass, PassWaits, PassThrows, Persist, Die
<1>6. ASSUME NEW w \in Refreshes, Refresh(w) PROVE UNCHANGED heard
  BY <1>6 DEF Refresh, RefreshReads, RefreshWrites, RefreshEnds
<1>7. ASSUME NEW c \in Candidates, Lock(c) PROVE UNCHANGED heard
  BY <1>7 DEF Lock
<1>8. HalfLife \/ UNCHANGED vars => UNCHANGED heard
  BY DEF HalfLife, vars
<1> QED BY <1>3, <1>4, <1>5, <1>6, <1>7, <1>8 DEF Next

LEMMA TwoSawKept ==
  ASSUME NEW h, NEW h2, Grows(h, h2), NEW c \in Candidates, TwoSaw(h, c) PROVE TwoSaw(h2, c)
BY DEF Grows, TwoSaw, Seen

-----------------------------------------------------------------------------
(* Records are founded.                                                    *)

LEMMA FoundedKept ==
  ASSUME NEW h, NEW h2, Grows(h, h2), NEW d \in Nat, NEW d2 \in Nat, d <= d2,
         NEW c \in Candidates, NEW r \in Records, Founded(h, d, c, r)
  PROVE  Founded(h2, d2, c, r)
<1>1. \A s \in Seen(h, c) : s \in Seen(h2, c)
  BY DEF Grows, Seen
<1>2. r.lastSeen \in Nat
  BY RecordFields
<1> QED BY <1>1, <1>2, TwoSawKept DEF Founded

LEMMA NovelFounded ==
  ASSUME TypeOK, NEW s \in Sessions, NEW c \in Candidates, heard[s][c].seen
  PROVE  Founded(heard, day, c, Novel(s))
<1>1. <<s>> # << >> /\ DOMAIN <<s>> = 1..1 /\ <<s>>[1] = s
  OBVIOUS
<1>2. \A i \in DOMAIN <<s>> : <<s>>[i] \in Seen(heard, c)
  BY <1>1 DEF Seen
<1>3. day \in Nat
  BY DEF TypeOK
<1> DEFINE q == Novel(s)
           list == <<s>>
<1>4. /\ q.occurrences = 1 /\ q.sessions = list /\ q.lastSeen = day
      /\ q.contradiction = 0 /\ q.against = << >> /\ q.status = "candidate"
  BY NovelIs
<1>5. list # << >> /\ \A i \in DOMAIN list : list[i] \in Seen(heard, c)
  BY <1>1, <1>2
<1> HIDE DEF q, list
<1>6. Founded(heard, day, c, q)
  BY <1>3, <1>4, <1>5 DEF Founded
<1> QED BY <1>6 DEF q

LEMMA AgainFounded ==
  ASSUME TypeOK, NEW s \in Sessions, NEW c \in Candidates, heard[s][c].seen,
         NEW r \in Records, Founded(heard, day, c, r)
  PROVE  Founded(heard, day, c, Again(r, s))
<1> DEFINE list == Remember(r.sessions, s, MinedSessionsCap)
           q == Again(r, s)
<1>1. r.sessions \in Seq(Sessions) /\ Len(r.sessions) <= MinedSessionsCap /\ r.occurrences \in Nat \ {0}
  BY RecordFields
<1>2. /\ list # << >>
      /\ \A i \in DOMAIN list : list[i] = s \/ \E j \in DOMAIN r.sessions : list[i] = r.sessions[j]
  BY <1>1, RememberIs, CapsAssumption
<1>3. s \in Seen(heard, c) /\ \A i \in DOMAIN r.sessions : r.sessions[i] \in Seen(heard, c)
  BY DEF Seen, Founded
<1>4. q.sessions = list /\ q.lastSeen = day /\ q.contradiction = r.contradiction /\ q.against = r.against
      /\ q.status = r.status /\ q.graduatedAt = r.graduatedAt
      /\ q.occurrences = IF s \in ToSet(r.sessions) THEN r.occurrences ELSE r.occurrences + 1
  BY AgainIs
<1> HIDE DEF list, q
<1>5. \A i \in DOMAIN list : list[i] \in Seen(heard, c)
  BY <1>2, <1>3
<1>6. q.occurrences >= 2 => TwoSaw(heard, c)
  <2>1. CASE r.occurrences >= 2
    BY <2>1 DEF Founded
  <2>2. CASE s \notin ToSet(r.sessions)
    <3>1. r.sessions # << >> /\ r.sessions \in [1..Len(r.sessions) -> Sessions] /\ Len(r.sessions) \in Nat
      BY <1>1 DEF Founded
    <3>2. 1 \in DOMAIN r.sessions
      BY <3>1
    <3>3. r.sessions[1] \in Seen(heard, c) /\ r.sessions[1] # s
      BY <1>3, <2>2, <3>2 DEF ToSet
    <3> QED BY <1>3, <3>3 DEF TwoSaw
  <2>3. q.occurrences >= 2 => r.occurrences >= 2 \/ s \notin ToSet(r.sessions)
    BY <1>4
  <2> QED BY <2>1, <2>2, <2>3
<1>7. day \in Nat
  BY DEF TypeOK
<1>8. Founded(heard, day, c, q)
  BY <1>2, <1>4, <1>5, <1>6, <1>7 DEF Founded
<1> QED BY <1>8 DEF q

LEMMA ChargedFounded ==
  ASSUME NEW s \in Sessions, NEW c \in Candidates, NEW h, NEW d,
         NEW r \in Records, Founded(h, d, c, r), r.status = "graduated"
  PROVE  Founded(h, d, c, Charged(r, s))
BY ChargedIs, RecordFields DEF Founded

LEMMA MinedFounded ==
  ASSUME TypeOK, NEW s \in Sessions, NEW book \in Books,
         \A c \in Candidates : book[c] # None => Founded(heard, day, c, book[c])
  PROVE  \A c \in Candidates : Swept(Merged(book, s), s)[c] # None
           => Founded(heard, day, c, Swept(Merged(book, s), s)[c])
<1> DEFINE mid == Merged(book, s)
<1>1. mid \in Books
  BY MergedIs
<1>2. ASSUME NEW c \in Candidates, mid[c] # None PROVE Founded(heard, day, c, mid[c])
  BY <1>2, MergedIs, NovelFounded, AgainFounded, NoneAssumption
<1> HIDE DEF mid
<1>3. ASSUME NEW c \in Candidates, Swept(mid, s)[c] # None PROVE Founded(heard, day, c, Swept(mid, s)[c])
  <2>1. CASE Swept(mid, s)[c] = mid[c]
    BY <1>2, <1>3, <2>1
  <2>2. CASE Contradicts(mid[c], s, c) /\ mid[c] \in Records /\ Swept(mid, s)[c] = Charged(mid[c], s)
    <3>1. mid[c] # None /\ mid[c].status = "graduated"
      BY <2>2 DEF Contradicts
    <3> QED BY <1>2, <2>2, <3>1, ChargedFounded
  <2> QED BY <1>1, <2>1, <2>2, SweptIs
<1> QED BY <1>3 DEF mid

LEMMA JudgedFounded ==
  ASSUME TypeOK, NEW m \in Miners, run[m] # None, codex # None, Grounded
  PROVE  \A c \in Candidates : Judged(m)[c] # None => Founded(heard, day, c, Judged(m)[c])
<1> SUFFICES ASSUME NEW c \in Candidates, Judged(m)[c] # None PROVE Founded(heard, day, c, Judged(m)[c])
  OBVIOUS
<1> DEFINE r == run[m].work[c]
<1>1. r # None => Founded(heard, day, c, r)
  BY RunIs DEF Grounded
<1>2. CASE c \in Due(m) /\ r \in Records /\ Judged(m)[c] = Withdrawing(r)
  <2>1. r # None /\ r.status = "graduated" /\ r.contradiction > 0
    BY <1>2 DEF Due, BelowWithdrawal
  <2> HIDE DEF r
  <2> QED BY <1>1, <1>2, <2>1, JudgedIs DEF Founded
<1>3. CASE c \in Ready(m) /\ r \in Records /\ Judged(m)[c] = Graduating(r)
  <2>1. r # None
    BY <1>3 DEF Ready, Eligible
  <2>2. now + 1 \in Nat
    BY DEF TypeOK
  <2> HIDE DEF r
  <2> QED BY <1>1, <1>3, <2>1, <2>2, JudgedIs DEF Founded
<1>4. CASE Judged(m)[c] = r
  BY <1>1, <1>4
<1> QED BY <1>2, <1>3, <1>4, JudgedBook

LEMMA NextGrounded == ASSUME TypeOK, Heeded, Grounded, [Next]_vars PROVE Grounded'
<1>1. Grows(heard, heard') /\ day <= day' /\ day \in Nat /\ day' \in Nat
  BY NextHolds, NextTyped DEF TypeOK
<1>2. ASSUME NEW book \in HeldBooks, NEW c \in Candidates, book[c] # None PROVE Founded(heard', day', c, book[c])
  <2>1. book[c] \in Records
    BY <1>2, BookTypes
  <2>2. Founded(heard, day, c, book[c])
    BY <1>2 DEF Grounded
  <2> QED BY <1>1, <2>1, <2>2, FoundedKept
<1>3. ASSUME NEW x, HeldBooks' \subseteq HeldBooks \cup {x},
             \A c \in Candidates : x[c] # None => Founded(heard', day', c, x[c])
      PROVE  Grounded'
  BY <1>2, <1>3 DEF Grounded
<1>4. CASE HeldBooks' \subseteq HeldBooks
  BY <1>2, <1>4 DEF Grounded
<1>5. ASSUME NEW m \in Miners, NEW s \in Sessions, Mine(m, s),
             HeldBooks' \subseteq HeldBooks \cup {Swept(Merged(records, s), s)}
      PROVE  Grounded'
  <2>1. UNCHANGED <<heard, day>>
    BY <1>5 DEF Mine
  <2>2. records \in HeldBooks /\ records \in Books
    BY DEF HeldBooks, TypeOK
  <2>3. \A c \in Candidates : records[c] # None => Founded(heard, day, c, records[c])
    BY <2>2 DEF Grounded
  <2>4. \A c \in Candidates : Swept(Merged(records, s), s)[c] # None
          => Founded(heard, day, c, Swept(Merged(records, s), s)[c])
    BY <2>2, <2>3, MinedFounded
  <2> QED BY <1>3, <1>5, <2>1, <2>4
<1>6. ASSUME NEW m \in Miners, Pass(m), HeldBooks' \subseteq HeldBooks \cup {Judged(m)} PROVE Grounded'
  <2>1. UNCHANGED <<heard, day>> /\ run[m] # None /\ codex # None
    BY <1>6 DEF Pass, Passing
  <2> QED BY <1>3, <1>6, <2>1, JudgedFounded
<1> QED BY <1>4, <1>5, <1>6, NextHolds
-----------------------------------------------------------------------------
(* Entries are backed, and withdrawals told.                               *)

\* One occurrence is never enough, however fresh.
LEMMA Halves == \A age \in 0..19 : 2^age \in Nat \ {0}
<1> SUFFICES ASSUME NEW age \in 0..19 PROVE 2^age \in Nat \ {0}
  OBVIOUS
<1>1. age \in 0..4 \/ age \in 5..9 \/ age \in 10..14 \/ age \in 15..19
  OBVIOUS
<1>2. CASE age \in 0..4
  <2>1. age = 0 => 2^age = 1
    OBVIOUS
  <2>2. age = 1 => 2^age = 2
    OBVIOUS
  <2>3. age = 2 => 2^age = 4
    OBVIOUS
  <2>4. age = 3 => 2^age = 8
    OBVIOUS
  <2>5. age = 4 => 2^age = 16
    OBVIOUS
  <2> QED BY <1>2, <2>1, <2>2, <2>3, <2>4, <2>5
<1>3. CASE age \in 5..9
  <2>1. age = 5 => 2^age = 32
    OBVIOUS
  <2>2. age = 6 => 2^age = 64
    OBVIOUS
  <2>3. age = 7 => 2^age = 128
    OBVIOUS
  <2>4. age = 8 => 2^age = 256
    OBVIOUS
  <2>5. age = 9 => 2^age = 512
    OBVIOUS
  <2> QED BY <1>3, <2>1, <2>2, <2>3, <2>4, <2>5
<1>4. CASE age \in 10..14
  <2>1. age = 10 => 2^age = 1024
    OBVIOUS
  <2>2. age = 11 => 2^age = 2048
    OBVIOUS
  <2>3. age = 12 => 2^age = 4096
    OBVIOUS
  <2>4. age = 13 => 2^age = 8192
    OBVIOUS
  <2>5. age = 14 => 2^age = 16384
    OBVIOUS
  <2> QED BY <1>4, <2>1, <2>2, <2>3, <2>4, <2>5
<1>5. CASE age \in 15..19
  <2>1. age = 15 => 2^age = 32768
    OBVIOUS
  <2>2. age = 16 => 2^age = 65536
    OBVIOUS
  <2>3. age = 17 => 2^age = 131072
    OBVIOUS
  <2>4. age = 18 => 2^age = 262144
    OBVIOUS
  <2>5. age = 19 => 2^age = 524288
    OBVIOUS
  <2> QED BY <1>5, <2>1, <2>2, <2>3, <2>4, <2>5
<1> QED BY <1>1, <1>2, <1>3, <1>4, <1>5

LEMMA EligibleTwice ==
  ASSUME TypeOK, NEW c \in Candidates, NEW r \in Records, Founded(heard, day, c, r), Eligible(r)
  PROVE  r.occurrences >= 2
<1> SUFFICES ASSUME r.occurrences = 1 PROVE FALSE
  BY RecordFields
<1>1. r.contradiction = 0 /\ Confidence(r) >= 5000
  BY DEF Eligible, Founded
<1>2. OccurrenceScore(1) = 292893
  <2>1. 1 % 2 = 1 /\ 1 \div 2 = 0 /\ 2^0 = 1 /\ 10^6 = 1000000
    OBVIOUS
  <2> QED BY <2>1 DEF OccurrenceScore
<1> DEFINE age == day - r.lastSeen
           left == Decayed(292893, age)
<1>3. left \in Int /\ left <= 292893
  <2>1. CASE age \in 0..19
    <3>1. 2^age \in Nat \ {0}
      BY <2>1, Halves
    <3> HIDE DEF age
    <3>2. 292893 \div 2^age \in Int /\ 292893 \div 2^age <= 292893
      BY <3>1
    <3> QED BY <2>1, <3>2 DEF Decayed
  <2>2. CASE age \notin 0..19
    BY <2>2 DEF Decayed
  <2> QED BY <2>1, <2>2
<1>4. Confidence(r) = IF left - 250000 * 0 < 0 THEN 0 ELSE (left - 250000 * 0 + 50) \div 100
  BY <1>1, <1>2 DEF Confidence
<1> HIDE DEF left
<1>5. Confidence(r) < 5000
  BY <1>3, <1>4
<1> QED BY <1>1, <1>5, <1>3, <1>4

LEMMA NextBacked == ASSUME TypeOK, Heeded, Grounded, Backed, [Next]_vars PROVE Backed'
<1>1. Grows(heard, heard') /\ audit \subseteq audit'
  BY NextHolds
<1>2. ASSUME NEW x \in HeldCodexes, NEW c \in Candidates, x[c] # "absent"
      PROVE  TwoSaw(heard', c) /\ <<"graduate", c>> \in audit'
  BY <1>1, <1>2, TwoSawKept DEF Backed
<1>3. ASSUME NEW x, HeldCodexes' \subseteq HeldCodexes \cup {x},
             \A c \in Candidates : x[c] # "absent" => TwoSaw(heard', c) /\ <<"graduate", c>> \in audit'
      PROVE  Backed'
  BY <1>2, <1>3 DEF Backed
<1>4. CASE HeldCodexes' \subseteq HeldCodexes \cup {[c \in Candidates |-> "absent"]}
  BY <1>3, <1>4
<1>5. codex # None => codex \in HeldCodexes
  BY DEF HeldCodexes
<1>6. ASSUME NEW m \in Miners, Pass(m), HeldCodexes' \subseteq HeldCodexes \cup {Rewritten(m)} PROVE Backed'
  <2>1. run[m] # None /\ codex # None /\ audit' = audit \cup Told(Due(m), Ready(m))
    BY <1>6 DEF Pass, Passing
  <2>2. ASSUME NEW c \in Candidates, c \in Ready(m) PROVE TwoSaw(heard', c) /\ <<"graduate", c>> \in audit'
    <3> DEFINE r == run[m].work[c]
    <3>1. Eligible(r) /\ r # None
      BY <2>2 DEF Ready, Eligible
    <3>2. r \in Records /\ Founded(heard, day, c, r)
      BY <2>1, <3>1, RunIs, BookTypes DEF Grounded
    <3> HIDE DEF r
    <3>3. TwoSaw(heard, c)
      BY <3>1, <3>2, EligibleTwice DEF Founded
    <3>4. <<"graduate", c>> \in audit'
      BY <2>1, <2>2 DEF Told
    <3> QED BY <1>1, <3>3, <3>4, TwoSawKept
  <2>3. ASSUME NEW c \in Candidates, Rewritten(m)[c] # "absent"
        PROVE  TwoSaw(heard', c) /\ <<"graduate", c>> \in audit'
    BY <1>2, <1>5, <2>1, <2>2, <2>3 DEF Rewritten
  <2> QED BY <1>3, <1>6, <2>3
<1>7. ASSUME NEW c \in Candidates, Lock(c), HeldCodexes' \subseteq HeldCodexes \cup {[codex EXCEPT ![c] = "locked"]}
      PROVE  Backed'
  <2>1. codex # None /\ codex[c] = "generated" /\ codex \in [Candidates -> Entries]
    BY <1>7 DEF Lock, TypeOK, Codexes
  <2>2. ASSUME NEW d \in Candidates, [codex EXCEPT ![c] = "locked"][d] # "absent" PROVE codex[d] # "absent"
    BY <2>1, <2>2
  <2>3. ASSUME NEW d \in Candidates, [codex EXCEPT ![c] = "locked"][d] # "absent"
        PROVE  TwoSaw(heard', d) /\ <<"graduate", d>> \in audit'
    BY <1>2, <1>5, <2>1, <2>2, <2>3
  <2> QED BY <1>3, <1>7, <2>3
<1> QED BY <1>4, <1>6, <1>7, NextHolds

\* What a run's merge and sweep leave of a record's status: a new record is a
\* candidate, and no other changes.
LEMMA MinedStatus ==
  ASSUME TypeOK, NEW s \in Sessions, NEW book \in Books, NEW c \in Candidates,
         NEW status \in {"graduated", "withdrawn"}
  PROVE  Is(Swept(Merged(book, s), s), c, status) <=> Is(book, c, status)
<1> DEFINE mid == Merged(book, s)
<1>1. mid \in Books
  BY MergedIs
<1>2. Is(mid, c, status) <=> Is(book, c, status)
  BY MergedIs, NovelIs, AgainIs, NoneAssumption DEF Is
<1> HIDE DEF mid
<1>3. Is(Swept(mid, s), c, status) <=> Is(mid, c, status)
  BY <1>1, SweptIs, ChargedIs, NoneAssumption DEF Is
<1> QED BY <1>2, <1>3 DEF mid

LEMMA NextWithdrawn == ASSUME TypeOK, Heeded, Withdrawn, [Next]_vars PROVE Withdrawn'
<1>1. audit \subseteq audit'
  BY NextHolds
<1>2. ASSUME NEW x, HeldBooks' \subseteq HeldBooks \cup {x},
             \A c \in Candidates : Is(x, c, "withdrawn") => <<"withdraw", c>> \in audit'
      PROVE  Withdrawn'
  BY <1>1, <1>2 DEF Withdrawn
<1>3. CASE HeldBooks' \subseteq HeldBooks
  BY <1>1, <1>3 DEF Withdrawn
<1>4. ASSUME NEW m \in Miners, NEW s \in Sessions, Mine(m, s),
             HeldBooks' \subseteq HeldBooks \cup {Swept(Merged(records, s), s)}
      PROVE  Withdrawn'
  <2>1. records \in HeldBooks /\ records \in Books
    BY DEF HeldBooks, TypeOK
  <2>2. \A c \in Candidates : Is(Swept(Merged(records, s), s), c, "withdrawn") => <<"withdraw", c>> \in audit'
    BY <1>1, <2>1, MinedStatus DEF Withdrawn
  <2> QED BY <1>2, <1>4, <2>2
<1>5. ASSUME NEW m \in Miners, Pass(m), HeldBooks' \subseteq HeldBooks \cup {Judged(m)} PROVE Withdrawn'
  <2>1. run[m] # None /\ codex # None /\ audit' = audit \cup Told(Due(m), Ready(m))
    BY <1>5 DEF Pass, Passing
  <2>2. ASSUME NEW c \in Candidates, Is(Judged(m), c, "withdrawn") PROVE <<"withdraw", c>> \in audit'
    <3>1. CASE c \in Due(m)
      BY <2>1, <3>1 DEF Told
    <3>2. CASE c \notin Due(m)
      <4>1. Is(run[m].work, c, "withdrawn")
        BY <2>1, <2>2, <3>2, JudgedBook, JudgedIs DEF Is
      <4> QED BY <1>1, <2>1, <4>1, RunIs DEF Withdrawn
    <3> QED BY <3>1, <3>2
  <2> QED BY <1>2, <1>5, <2>2
<1> QED BY <1>3, <1>4, <1>5, NextHolds

-----------------------------------------------------------------------------
(* The invariant. *)

Sound == TypeOK /\ Heeded /\ Grounded /\ Backed /\ Withdrawn

LEMMA InitSound == Init => Sound
<1> SUFFICES ASSUME Init PROVE Sound
  OBVIOUS
<1>1. \A c \in Candidates : Seen(heard, c) = {}
  BY DEF Init, Seen
<1>2. Heeded
  BY <1>1, FS_EmptySet DEF Heeded, Init
<1>3. \A book \in HeldBooks, c \in Candidates : book[c] = None
  BY DEF HeldBooks, Init
<1>4. HeldCodexes = {}
  BY DEF HeldCodexes, Init
<1> QED BY <1>2, <1>3, <1>4, InitTyped DEF Sound, Grounded, Backed, Withdrawn, Is

LEMMA NextSound == ASSUME Sound, [Next]_vars PROVE Sound'
BY NextTyped, NextHeeded, NextGrounded, NextBacked, NextWithdrawn DEF Sound

LEMMA AlwaysSound == Spec => []Sound
BY InitSound, NextSound, PTL DEF Spec

-----------------------------------------------------------------------------
(* The theorems. *)

LEMMA SoundEarned == ASSUME Sound PROVE Earned
<1> SUFFICES ASSUME NEW c \in Candidates, Entry(c)
             PROVE  Cardinality({s \in Sessions : heard[s][c].seen}) >= 2
  BY DEF Earned
<1>1. TwoSaw(heard, c)
  BY DEF Sound, Backed, Entry, HeldCodexes
<1>2. PICK s \in Seen(heard, c), t \in Seen(heard, c) : s # t
  BY <1>1 DEF TwoSaw
<1>3. IsFiniteSet(Seen(heard, c))
  BY DEF Sound, Heeded
<1>4. IsFiniteSet({s}) /\ Cardinality({s}) = 1
  BY FS_Singleton
<1>5. Cardinality({s} \cup {t}) = 2
  BY <1>2, <1>4, FS_AddElement
<1>6. ({s} \cup {t}) \subseteq Seen(heard, c)
  OBVIOUS
<1>7. Cardinality({s} \cup {t}) <= Cardinality(Seen(heard, c)) /\ Cardinality(Seen(heard, c)) \in Nat
  BY <1>3, <1>6, FS_Subset, FS_CardinalityType
<1> QED BY <1>5, <1>7 DEF Seen

\* Two sessions at least stand behind every entry of codex.yaml, whatever was
\* mined twice, forgotten by the list, lost with a run or written back.
THEOREM EntriesEarned == Spec => []Earned
BY AlwaysSound, SoundEarned, PTL

LEMMA SoundTold == ASSUME Sound PROVE NeverSilent
<1> SUFFICES ASSUME NEW c \in Candidates
             PROVE  /\ Entry(c) => <<"graduate", c>> \in audit
                    /\ records[c] # None /\ records[c].status = "withdrawn" => <<"withdraw", c>> \in audit
  BY DEF NeverSilent
<1>1. Entry(c) => <<"graduate", c>> \in audit
  BY DEF Sound, Backed, Entry, HeldCodexes
<1>2. records[c] # None /\ records[c].status = "withdrawn" => <<"withdraw", c>> \in audit
  BY DEF Sound, Withdrawn, Is, HeldBooks
<1> QED BY <1>1, <1>2

\* Nothing enters the codex or is withdrawn without its audit event, also when
\* a run dies or throws half-way and when runs and refreshes overlap.
THEOREM AllIsTold == Spec => []NeverSilent
BY AlwaysSound, SoundTold, PTL

\* A pass never takes a locked entry out, and neither does anything else but a
\* refresh that writes back what it read before.
THEOREM LocksHold == Spec => LockedUntouched
<1> DEFINE Hold == \A c \in Candidates : codex # None /\ codex[c] = "locked" =>
                     codex'[c] = "locked" \/ \E w \in Refreshes : refresh[w] # None /\ refresh'[w] = None
<1>1. ASSUME TypeOK, [Next]_vars PROVE Hold \/ UNCHANGED vars
  <2> SUFFICES ASSUME NEW c \in Candidates, codex # None, codex[c] = "locked"
               PROVE  codex'[c] = "locked" \/ \E w \in Refreshes : refresh[w] # None /\ refresh'[w] = None
    OBVIOUS
  <2>1. codex \in [Candidates -> Entries] /\ refresh \in [Refreshes -> [view : Codexes] \cup {None}]
    BY <1>1 DEF TypeOK, Codexes
  <2>2. ASSUME NEW s \in Sessions, Session(s) PROVE UNCHANGED codex
    BY <2>2 DEF Session, Zoom, Fail, Fix, Signal, Heard
  <2>3. ASSUME NEW m \in Miners, Pass(m) PROVE codex'[c] = "locked"
    BY <2>3 DEF Pass, Rewritten, Ready
  <2>4. ASSUME NEW m \in Miners, Run(m), ~Pass(m) PROVE UNCHANGED codex
    BY <2>4 DEF Run, Mine, PassWaits, PassThrows, Persist, Die
  <2>5. ASSUME NEW w \in Refreshes, Refresh(w) PROVE UNCHANGED codex \/ (refresh[w] # None /\ refresh'[w] = None)
    BY <2>1, <2>5 DEF Refresh, RefreshReads, RefreshWrites, RefreshEnds
  <2>6. ASSUME NEW d \in Candidates, Lock(d) PROVE codex'[c] = "locked"
    BY <2>1, <2>6 DEF Lock
  <2>7. HalfLife \/ UNCHANGED vars => UNCHANGED codex
    BY DEF HalfLife, vars
  <2> QED BY <1>1, <2>2, <2>3, <2>4, <2>5, <2>6, <2>7 DEF Next
<1>2. TypeOK /\ [Next]_vars => [Hold]_vars
  BY <1>1
<1> QED BY <1>2, GraduationTyped, PTL DEF Spec, LockedUntouched
-----------------------------------------------------------------------------
(* Contradictions are counted once per session, as long as the list of the *)
(* sessions that spoke against an entry can hold them all.                 *)

LEMMA NumberedKept ==
  ASSUME TypeOK, TypeOK', Grows(heard, heard'), NEW c \in Candidates, NEW r \in Records,
         Founded(heard, day, c, r), Numbered(heard, c, r)
  PROVE  Numbered(heard', c, r)
<1> SUFFICES ASSUME r.status # "candidate" PROVE Numbered(heard', c, r)
  BY DEF Numbered
<1>1. r.graduatedAt \in Nat
  BY DEF Founded
<1>2. \A s \in Sessions : heard[s][c] \in Evidence /\ heard'[s][c] \in Evidence
  BY DEF TypeOK
<1>3. ASSUME NEW s \in Against(heard, c, r.graduatedAt) PROVE s \in Against(heard', c, r.graduatedAt)
  BY <1>1, <1>2 DEF Against, Grows, Evidence
<1> QED BY <1>3 DEF Numbered

\* A list without doubles that lacks a session is shorter than their number.
LEMMA RoomLeft ==
  ASSUME IsFiniteSet(Sessions), NEW s \in Sessions, NEW list \in Seq(Sessions), s \notin ToSet(list),
         \A i, j \in DOMAIN list : list[i] = list[j] => i = j
  PROVE  Len(list) < Cardinality(Sessions)
<1>1. Len(list) \in Nat /\ list \in [1..Len(list) -> Sessions]
  OBVIOUS
<1>2. IsFiniteSet(Sessions \ {s}) /\ Cardinality(Sessions \ {s}) = Cardinality(Sessions) - 1
      /\ Cardinality(Sessions) \in Nat
  BY FS_RemoveElement, FS_CardinalityType
<1>3. \A i \in 1..Len(list) : list[i] \in Sessions \ {s}
  BY <1>1 DEF ToSet
<1>4. list \in Injection(1..Len(list), Sessions \ {s})
  BY <1>1, <1>3 DEF Injection, IsInjective
<1>5. Cardinality(1..Len(list)) <= Cardinality(Sessions \ {s})
  BY <1>2, <1>4, FS_Injection
<1>6. Cardinality(1..Len(list)) = Len(list)
  BY <1>1, FS_Interval
<1> QED BY <1>1, <1>2, <1>5, <1>6

LEMMA AppendedOnce ==
  ASSUME NEW S, NEW list \in Seq(Sessions), NEW s \in S, s \in Sessions, s \notin ToSet(list),
         \A i \in DOMAIN list : list[i] \in S,
         \A i, j \in DOMAIN list : list[i] = list[j] => i = j
  PROVE  /\ Len(Append(list, s)) = Len(list) + 1
         /\ \A i \in DOMAIN Append(list, s) : Append(list, s)[i] \in S
         /\ \A i, j \in DOMAIN Append(list, s) : Append(list, s)[i] = Append(list, s)[j] => i = j
<1> DEFINE l == Append(list, s)
<1>1. /\ Len(l) = Len(list) + 1 /\ DOMAIN l = 1..(Len(list) + 1) /\ l[Len(list) + 1] = s
      /\ \A i \in DOMAIN list : l[i] = list[i]
      /\ DOMAIN list = 1..Len(list) /\ Len(list) \in Nat
  OBVIOUS
<1> HIDE DEF l
<1>2. \A i \in DOMAIN l : i \in DOMAIN list \/ i = Len(list) + 1
  BY <1>1
<1>3. \A i \in DOMAIN list : list[i] # s
  BY DEF ToSet
<1>4. /\ \A i \in DOMAIN l : l[i] \in S
      /\ \A i, j \in DOMAIN l : l[i] = l[j] => i = j
  BY <1>1, <1>2, <1>3
<1> QED BY <1>1, <1>4 DEF l

LEMMA ChargedNumbered ==
  ASSUME TypeOK, IsFiniteSet(Sessions), Cardinality(Sessions) <= ContradictedSessionsCap,
         NEW s \in Sessions, NEW c \in Candidates, NEW r \in Records,
         Contradicts(r, s, c), Numbered(heard, c, r)
  PROVE  Numbered(heard, c, Charged(r, s))
<1>1. /\ r.status = "graduated" /\ s \notin ToSet(r.against)
      /\ s \in Against(heard, c, r.graduatedAt)
  BY DEF Contradicts, Against
<1>2. /\ r.against \in Seq(Sessions) /\ r.contradiction = Len(r.against)
      /\ \A i, j \in DOMAIN r.against : r.against[i] = r.against[j] => i = j
      /\ \A i \in DOMAIN r.against : r.against[i] \in Against(heard, c, r.graduatedAt)
  BY <1>1, RecordFields DEF Numbered
<1>3. Len(r.against) < ContradictedSessionsCap /\ Len(r.against) <= ContradictedSessionsCap
  <2>1. Len(r.against) < Cardinality(Sessions)
    BY <1>1, <1>2, RoomLeft
  <2>2. Len(r.against) \in Nat /\ Cardinality(Sessions) \in Nat
    BY <1>2, FS_CardinalityType
  <2> QED BY <2>1, <2>2, CapsAssumption
<1>4. Remember(r.against, s, ContradictedSessionsCap) = Append(r.against, s)
  BY <1>1, <1>2, <1>3, RememberIs, CapsAssumption
<1> DEFINE q == Charged(r, s)
           l == Append(r.against, s)
           A == Against(heard, c, r.graduatedAt)
<1>5. /\ Len(l) = Len(r.against) + 1
      /\ \A i \in DOMAIN l : l[i] \in A
      /\ \A i, j \in DOMAIN l : l[i] = l[j] => i = j
  <2> DEFINE old == r.against
  <2>1. s \in A /\ old \in Seq(Sessions) /\ s \notin ToSet(old)
        /\ (\A i \in DOMAIN old : old[i] \in A)
        /\ (\A i, j \in DOMAIN old : old[i] = old[j] => i = j)
    BY <1>1, <1>2
  <2> HIDE DEF A, old
  <2>2. /\ Len(Append(old, s)) = Len(old) + 1
        /\ \A i \in DOMAIN Append(old, s) : Append(old, s)[i] \in A
        /\ \A i, j \in DOMAIN Append(old, s) : Append(old, s)[i] = Append(old, s)[j] => i = j
    BY <2>1, AppendedOnce
  <2> QED BY <2>2 DEF old
<1>6. q.contradiction = r.contradiction + 1 /\ q.against = l /\ Against(heard, c, q.graduatedAt) = A
  BY <1>4, ChargedIs
<1> HIDE DEF q, l, A
<1>7. Numbered(heard, c, q)
  BY <1>2, <1>5, <1>6 DEF Numbered
<1> QED BY <1>7 DEF q

LEMMA MinedNumbered ==
  ASSUME TypeOK, IsFiniteSet(Sessions), Cardinality(Sessions) <= ContradictedSessionsCap,
         NEW s \in Sessions, NEW book \in Books,
         \A c \in Candidates : book[c] # None => Numbered(heard, c, book[c])
  PROVE  \A c \in Candidates : Swept(Merged(book, s), s)[c] # None
           => Numbered(heard, c, Swept(Merged(book, s), s)[c])
<1> DEFINE mid == Merged(book, s)
<1>1. mid \in Books
  BY MergedIs
<1>2. ASSUME NEW c \in Candidates, mid[c] # None PROVE Numbered(heard, c, mid[c])
  <2>1. CASE mid[c] = book[c]
    BY <1>2, <2>1
  <2>2. CASE mid[c] = Novel(s)
    <3>1. mid[c].status = "candidate"
      BY <2>2, NovelIs
    <3> QED BY <3>1 DEF Numbered
  <2>3. CASE book[c] \in Records /\ mid[c] = Again(book[c], s)
    <3> DEFINE r == book[c]
               q == Again(r, s)
    <3>1. r # None
      BY <2>3, NoneAssumption
    <3>2. Numbered(heard, c, r)
      BY <3>1
    <3>3. q.contradiction = r.contradiction /\ q.against = r.against /\ q.status = r.status
          /\ q.graduatedAt = r.graduatedAt
      BY <2>3, AgainIs
    <3>4. mid[c] = q
      BY <2>3
    <3> HIDE DEF q, r, mid
    <3>5. Numbered(heard, c, q)
      BY <3>2, <3>3 DEF Numbered
    <3> QED BY <3>4, <3>5
  <2> HIDE DEF mid
  <2> QED BY <2>1, <2>2, <2>3, MergedIs DEF mid
<1> HIDE DEF mid
<1>3. ASSUME NEW c \in Candidates, Swept(mid, s)[c] # None PROVE Numbered(heard, c, Swept(mid, s)[c])
  <2>1. CASE Swept(mid, s)[c] = mid[c]
    BY <1>2, <1>3, <2>1
  <2>2. CASE Contradicts(mid[c], s, c) /\ mid[c] \in Records /\ Swept(mid, s)[c] = Charged(mid[c], s)
    <3>1. mid[c] # None
      BY <2>2 DEF Contradicts
    <3>2. Numbered(heard, c, Charged(mid[c], s))
      BY <1>2, <2>2, <3>1, ChargedNumbered
    <3> QED BY <2>2, <3>2
  <2> QED BY <1>1, <2>1, <2>2, SweptIs
<1> QED BY <1>3 DEF mid

LEMMA JudgedNumbered ==
  ASSUME TypeOK, NEW m \in Miners, run[m] # None, codex # None, Grounded, Counted
  PROVE  \A c \in Candidates : Judged(m)[c] # None => Numbered(heard, c, Judged(m)[c])
<1> SUFFICES ASSUME NEW c \in Candidates, Judged(m)[c] # None PROVE Numbered(heard, c, Judged(m)[c])
  OBVIOUS
<1> DEFINE r == run[m].work[c]
<1>1. r # None => Founded(heard, day, c, r) /\ Numbered(heard, c, r)
  BY RunIs DEF Grounded, Counted
<1>2. CASE c \in Due(m) /\ r \in Records /\ Judged(m)[c] = Withdrawing(r)
  <2>1. r # None /\ r.status = "graduated"
    BY <1>2 DEF Due, BelowWithdrawal
  <2> DEFINE q == Withdrawing(r)
  <2>2. q.contradiction = r.contradiction /\ q.against = r.against /\ q.graduatedAt = r.graduatedAt
    BY <1>2, JudgedIs
  <2>3. Judged(m)[c] = q
    BY <1>2
  <2> HIDE DEF q, r
  <2>4. Numbered(heard, c, q)
    BY <1>1, <2>1, <2>2 DEF Numbered
  <2> QED BY <2>3, <2>4
<1>3. CASE c \in Ready(m) /\ r \in Records /\ Judged(m)[c] = Graduating(r)
  <2>1. r # None /\ r.status = "candidate"
    BY <1>3 DEF Ready, Eligible
  <2> DEFINE q == Graduating(r)
  <2>2. q.contradiction = r.contradiction /\ q.against = r.against
    BY <1>3, JudgedIs
  <2>3. Judged(m)[c] = q
    BY <1>3
  <2> HIDE DEF q, r
  <2>4. q.contradiction = 0 /\ q.against = << >>
    BY <1>1, <2>1, <2>2 DEF Founded
  <2>5. Len(<< >>) = 0 /\ DOMAIN << >> = {}
    OBVIOUS
  <2>6. Numbered(heard, c, q)
    BY <2>4, <2>5 DEF Numbered
  <2> QED BY <2>3, <2>6
<1>4. CASE Judged(m)[c] = r
  BY <1>1, <1>4
<1> QED BY <1>2, <1>3, <1>4, JudgedBook

LEMMA NextCounted ==
  ASSUME IsFiniteSet(Sessions), Cardinality(Sessions) <= ContradictedSessionsCap,
         Sound, Counted, [Next]_vars
  PROVE  Counted'
<1>1. TypeOK /\ TypeOK' /\ Heeded /\ Grounded /\ Grows(heard, heard')
  BY NextTyped, NextHolds DEF Sound
<1>2. ASSUME NEW book \in HeldBooks, NEW c \in Candidates, book[c] # None PROVE Numbered(heard', c, book[c])
  <2>1. book[c] \in Records
    BY <1>1, <1>2, BookTypes
  <2>2. Founded(heard, day, c, book[c]) /\ Numbered(heard, c, book[c])
    BY <1>1, <1>2 DEF Grounded, Counted
  <2> QED BY <1>1, <2>1, <2>2, NumberedKept
<1>3. ASSUME NEW x, HeldBooks' \subseteq HeldBooks \cup {x},
             \A c \in Candidates : x[c] # None => Numbered(heard', c, x[c])
      PROVE  Counted'
  BY <1>2, <1>3 DEF Counted
<1>4. CASE HeldBooks' \subseteq HeldBooks
  BY <1>2, <1>4 DEF Counted
<1>5. ASSUME NEW m \in Miners, NEW s \in Sessions, Mine(m, s),
             HeldBooks' \subseteq HeldBooks \cup {Swept(Merged(records, s), s)}
      PROVE  Counted'
  <2>1. UNCHANGED heard
    BY <1>5 DEF Mine
  <2>2. records \in HeldBooks /\ records \in Books
    BY <1>1 DEF HeldBooks, TypeOK
  <2>3. \A c \in Candidates : records[c] # None => Numbered(heard, c, records[c])
    BY <2>2 DEF Counted
  <2>4. \A c \in Candidates : Swept(Merged(records, s), s)[c] # None
          => Numbered(heard, c, Swept(Merged(records, s), s)[c])
    BY <1>1, <2>2, <2>3, MinedNumbered
  <2> QED BY <1>3, <1>5, <2>1, <2>4
<1>6. ASSUME NEW m \in Miners, Pass(m), HeldBooks' \subseteq HeldBooks \cup {Judged(m)} PROVE Counted'
  <2>1. UNCHANGED heard /\ run[m] # None /\ codex # None
    BY <1>6 DEF Pass, Passing
  <2> QED BY <1>1, <1>3, <1>6, <2>1, JudgedNumbered
<1> QED BY <1>1, <1>4, <1>5, <1>6, NextHolds

LEMMA SoundEvidence ==
  ASSUME IsFiniteSet(Sessions), Sound, Counted PROVE EvidenceDriven
<1> SUFFICES ASSUME NEW c \in Candidates, records[c] # None
             PROVE  /\ records[c].status = "candidate" => records[c].contradiction = 0
                    /\ records[c].status # "candidate" => records[c].contradiction
                         <= Cardinality({s \in Sessions : heard[s][c].bad # None
                                                          /\ heard[s][c].bad >= records[c].graduatedAt})
                    /\ records[c].status = "withdrawn" => records[c].contradiction > 0
  BY DEF EvidenceDriven
<1> DEFINE r == records[c]
           A == Against(heard, c, r.graduatedAt)
<1>1. r \in Records /\ Founded(heard, day, c, r) /\ Numbered(heard, c, r)
  BY BookTypes DEF Sound, HeldBooks, Grounded, Counted
<1>2. A = {s \in Sessions : heard[s][c].bad # None /\ heard[s][c].bad >= records[c].graduatedAt}
  BY DEF Against
<1>3. IsFiniteSet(A)
  BY FS_Subset DEF Against
<1> HIDE DEF A
<1>4. ASSUME r.status # "candidate" PROVE r.contradiction <= Cardinality(A)
  <2> DEFINE l == r.against
  <2>1. /\ l \in Seq(Sessions) /\ r.contradiction = Len(l)
        /\ \A i, j \in DOMAIN l : l[i] = l[j] => i = j
        /\ \A i \in DOMAIN l : l[i] \in A
    BY <1>1, <1>4, RecordFields DEF Numbered, A
  <2> HIDE DEF l
  <2>2. Len(l) \in Nat /\ DOMAIN l = 1..Len(l) /\ l \in [1..Len(l) -> Sessions]
    BY <2>1
  <2>3. l \in Injection(1..Len(l), A)
    BY <2>1, <2>2 DEF Injection, IsInjective
  <2>4. Cardinality(1..Len(l)) <= Cardinality(A)
    BY <1>3, <2>3, FS_Injection
  <2>5. Cardinality(1..Len(l)) = Len(l)
    BY <2>2, FS_Interval
  <2> QED BY <2>1, <2>4, <2>5
<1> QED BY <1>1, <1>2, <1>4 DEF Founded

\* Contradictions are sessions that spoke against an entry after it graduated,
\* each counted once, and nothing is withdrawn without one: for any history of
\* no more sessions than contradictedSessions keeps.
THEOREM EvidenceOnly ==
  ASSUME IsFiniteSet(Sessions), Cardinality(Sessions) <= ContradictedSessionsCap
  PROVE  Spec => []EvidenceDriven
<1>1. Init => Sound /\ Counted
  <2>1. Init => \A book \in HeldBooks, c \in Candidates : book[c] = None
    BY DEF HeldBooks, Init
  <2> QED BY <2>1, InitSound DEF Counted
<1>2. Sound /\ Counted /\ [Next]_vars => (Sound /\ Counted)'
  BY NextSound, NextCounted
<1>3. Sound /\ Counted => EvidenceDriven
  BY SoundEvidence
<1> QED BY <1>1, <1>2, <1>3, PTL DEF Spec
-----------------------------------------------------------------------------
(* Records and entries stay in step, as long as nothing went wrong.        *)

LEMMA StoryAgrees ==
  ASSUME NEW b1, NEW b2, SameStory(b1, b2), NEW x, AgreesOn(b2, x) PROVE AgreesOn(b1, x)
BY DEF SameStory, AgreesOn

LEMMA AgreesWhenWritten ==
  ASSUME NEW book, AgreesOn(book, codex) PROVE AgreesOn(book, Written(codex))
BY DEF AgreesOn, Written

\* Runs and records as they were: it is enough that what agreed still does.
LEMMA SteadyKept ==
  ASSUME Steady, UNCHANGED <<records, run, mishaps>>,
         \A book : AgreesWithAll(book) =>
           /\ AgreesOn(book, codex')
           /\ \A w \in Refreshes : refresh'[w] # None => AgreesOn(book, Written(refresh'[w].view))
  PROVE  Steady'
BY DEF Steady, AgreesWithAll

\* A run ends, and the records are those that agreed.
LEMMA SteadyEnd ==
  ASSUME TypeOK, Steady, mishaps = {}, NEW m \in Miners, run[m] # None,
         run' = [run EXCEPT ![m] = None], UNCHANGED <<codex, refresh>>, AgreesWithAll(records')
  PROVE  Steady'
<1>1. \A n \in Miners : run'[n] = None
  BY RunSet DEF Steady
<1>2. AgreesWithAll(records)'
  BY DEF AgreesWithAll
<1> QED BY <1>1, <1>2 DEF Steady

LEMMA PassAgrees ==
  ASSUME TypeOK, NEW m \in Miners, run[m] # None, codex # None,
         SameStory(run[m].work, records), AgreesOn(records, codex)
  PROVE  AgreesOn(Judged(m), Rewritten(m))
<1> DEFINE work == run[m].work
<1>1. AgreesOn(work, codex)
  BY StoryAgrees
<1>2. Rewritten(m) # None
  BY RewrittenType, NoneAssumption
<1> SUFFICES ASSUME NEW c \in Candidates
             PROVE  /\ Is(Judged(m), c, "graduated") => Rewritten(m)[c] # "absent"
                    /\ Rewritten(m)[c] # "absent" =>
                         Is(Judged(m), c, "graduated")
                           \/ (Rewritten(m)[c] = "locked" /\ Is(Judged(m), c, "withdrawn"))
  BY <1>2 DEF AgreesOn
<1>3. Rewritten(m)[c] = IF c \in Due(m) /\ codex[c] # "locked" THEN "absent"
                        ELSE IF c \in Ready(m) THEN "generated" ELSE codex[c]
  BY DEF Rewritten
<1>4. CASE c \in Due(m)
  <2>1. Judged(m)[c] = Withdrawing(work[c]) /\ work[c] \in Records
    BY <1>4, JudgedBook
  <2>2. Is(Judged(m), c, "withdrawn") /\ ~Is(Judged(m), c, "graduated")
    BY <2>1, JudgedIs, NoneAssumption DEF Is
  <2>3. work[c].status = "graduated" /\ c \notin Ready(m)
    BY <1>4 DEF Due, BelowWithdrawal, Ready, Eligible
  <2> QED BY <1>3, <1>4, <2>2, <2>3
<1>5. CASE c \notin Due(m) /\ c \in Ready(m)
  <2>1. Judged(m)[c] = Graduating(work[c]) /\ work[c] \in Records
    BY <1>5, JudgedBook
  <2>2. Is(Judged(m), c, "graduated")
    BY <2>1, JudgedIs, NoneAssumption DEF Is
  <2> QED BY <1>3, <1>5, <2>2
<1>6. CASE c \notin Due(m) /\ c \notin Ready(m)
  <2>1. Judged(m)[c] = work[c] /\ Rewritten(m)[c] = codex[c]
    BY <1>3, <1>6, JudgedBook
  <2> HIDE DEF work
  <2> QED BY <1>1, <2>1 DEF AgreesOn, Is
<1> QED BY <1>4, <1>5, <1>6

LEMMA LockAgrees ==
  ASSUME TypeOK, NEW c \in Candidates, Lock(c), NEW book, AgreesOn(book, codex) PROVE AgreesOn(book, codex')
<1>1. codex # None /\ codex[c] = "generated" /\ codex' = [codex EXCEPT ![c] = "locked"]
      /\ codex \in [Candidates -> Entries]
  BY DEF Lock, TypeOK, Codexes
<1>2. codex' # None
  BY <1>1, LockType, NoneAssumption
<1>3. codex'[c] = "locked" /\ \A d \in Candidates \ {c} : codex'[d] = codex[d]
  BY <1>1
<1>4. Is(book, c, "graduated")
  BY <1>1 DEF AgreesOn
<1> QED BY <1>1, <1>2, <1>3, <1>4 DEF AgreesOn

LEMMA RefreshAgrees ==
  ASSUME TypeOK, NEW w \in Refreshes, Refresh(w), NEW book, AgreesWithAll(book)
  PROVE  /\ AgreesOn(book, codex')
         /\ \A v \in Refreshes : refresh'[v] # None => AgreesOn(book, Written(refresh'[v].view))
<1>1. refresh \in [Refreshes -> [view : Codexes] \cup {None}]
  BY DEF TypeOK
<1>2. AgreesOn(book, codex) /\ \A v \in Refreshes : refresh[v] # None => AgreesOn(book, Written(refresh[v].view))
  BY DEF AgreesWithAll
<1>3. CASE RefreshReads(w)
  <2>1. /\ refresh'[w].view = codex /\ \A v \in Refreshes \ {w} : refresh'[v] = refresh[v]
        /\ codex' = codex
    BY <1>1, <1>3 DEF RefreshReads
  <2> QED BY <1>2, <2>1, AgreesWhenWritten
<1>4. ASSUME refresh[w] # None, refresh' = [refresh EXCEPT ![w] = None],
             codex' = codex \/ codex' = Written(refresh[w].view)
      PROVE  /\ AgreesOn(book, codex')
             /\ \A v \in Refreshes : refresh'[v] # None => AgreesOn(book, Written(refresh'[v].view))
  <2>1. refresh'[w] = None /\ \A v \in Refreshes \ {w} : refresh'[v] = refresh[v]
    BY <1>1, <1>4
  <2> QED BY <1>2, <1>4, <2>1
<1> QED BY <1>3, <1>4 DEF Refresh, RefreshWrites, RefreshEnds, Written

LEMMA MineSteady ==
  ASSUME TypeOK, Steady, NEW m \in Miners, NEW s \in Sessions, Mine(m, s), mishaps' = {} PROVE Steady'
<1>1. mishaps = {} /\ \A n \in Miners : run[n] = None
  BY DEF Mine
<1>2. PICK v \in Runs : run' = [run EXCEPT ![m] = v] /\ v.pc = "mined" /\ v.work = Swept(Merged(records, s), s)
  BY MineShape
<1>3. run'[m] = v /\ \A n \in Miners \ {m} : run'[n] = None
  BY <1>1, <1>2, RunSet
<1>4. SameStory(v.work, records)
  BY <1>2, MinedStatus DEF SameStory, TypeOK
<1>5. AgreesWithAll(records)
  BY <1>1 DEF Steady
<1>6. UNCHANGED <<records, codex, refresh>>
  BY DEF Mine
<1>7. SameStory(v.work, records') /\ AgreesWithAll(records)'
  BY <1>4, <1>5, <1>6 DEF AgreesWithAll
<1>8. \A n \in Miners : run'[n] # None => n = m /\ run'[n].pc = "mined" /\ SameStory(run'[n].work, records')
  BY <1>2, <1>3, <1>7
<1> QED BY <1>7, <1>8 DEF Steady

\* Once a run is through its pass its book counts; there is no other run.
LEMMA PassedSteady ==
  ASSUME TypeOK, Steady, mishaps = {}, NEW m \in Miners, run[m] # None,
         NEW v \in Runs, run' = [run EXCEPT ![m] = v], v.pc = "passed", AgreesWithAll(v.work)'
  PROVE  Steady'
<1>1. run'[m] = v /\ \A n \in Miners \ {m} : run'[n] = None
  BY RunSet DEF Steady
<1>2. v # None
  BY NoneAssumption
<1>3. \A n \in Miners : run'[n] # None => n = m /\ run'[n].pc = "passed"
  BY <1>1
<1>4. ~(\A n \in Miners : run'[n] # None => run'[n].pc = "mined")
  BY <1>1, <1>2
<1>5. \A n \in Miners : run'[n] # None => AgreesWithAll(run[n].work)'
  BY <1>1, <1>3
<1> QED BY <1>3, <1>4, <1>5 DEF Steady

LEMMA RunSteady ==
  ASSUME TypeOK, Steady, NEW m \in Miners, Run(m), mishaps' = {} PROVE Steady'
<1>1. ASSUME NEW s \in Sessions, Mine(m, s) PROVE Steady'
  BY <1>1, MineSteady
<1>2. ASSUME mishaps = {}, run[m] # None, run[m].pc = "mined"
      PROVE  AgreesWithAll(records) /\ SameStory(run[m].work, records)
  BY <1>2 DEF Steady
<1>3. CASE Pass(m)
  <2>1. /\ run[m] # None /\ run[m].pc = "mined" /\ codex # None /\ mishaps = {}
        /\ \A w \in Refreshes : refresh[w] = None
    BY <1>3 DEF Pass, Passing
  <2>2. PICK v \in Runs : run' = [run EXCEPT ![m] = v] /\ v.pc = "passed" /\ v.work = Judged(m)
    BY <1>3, PassShape
  <2>3. AgreesOn(Judged(m), Rewritten(m))
    BY <1>2, <2>1, PassAgrees DEF AgreesWithAll
  <2>4. codex' = Rewritten(m) /\ refresh' = refresh
    BY <1>3 DEF Pass
  <2>5. AgreesWithAll(v.work)'
    BY <2>1, <2>2, <2>3, <2>4 DEF AgreesWithAll
  <2> QED BY <2>1, <2>2, <2>5, PassedSteady
<1>4. CASE PassWaits(m)
  <2>1. /\ run[m] # None /\ run[m].pc = "mined" /\ mishaps = {}
        /\ UNCHANGED <<codex, refresh>>
    BY <1>4 DEF PassWaits, Passing, history
  <2>2. PICK v \in Runs : run' = [run EXCEPT ![m] = v] /\ v.pc = "passed" /\ v.work = run[m].work
    BY <1>4, PassWaitsShape
  <2>3. AgreesWithAll(v.work)
    BY <1>2, <2>1, <2>2, StoryAgrees DEF AgreesWithAll
  <2>4. AgreesWithAll(v.work)'
    BY <2>1, <2>3 DEF AgreesWithAll
  <2> QED BY <2>1, <2>2, <2>4, PassedSteady
<1>5. CASE PassThrows(m)
  <2>1. /\ run[m] # None /\ run[m].pc = "mined" /\ mishaps = {}
        /\ run' = [run EXCEPT ![m] = None] /\ UNCHANGED <<records, codex, refresh>>
    BY <1>5 DEF PassThrows, Passing
  <2> QED BY <1>2, <2>1, SteadyEnd
<1>6. CASE Persist(m)
  <2>1. /\ run[m] # None /\ run[m].pc = "passed" /\ mishaps = {} /\ records' = run[m].work
        /\ run' = [run EXCEPT ![m] = None] /\ UNCHANGED <<codex, refresh>>
    BY <1>6 DEF Persist, history
  <2>2. AgreesWithAll(records')
    BY <2>1 DEF Steady
  <2> QED BY <2>1, <2>2, SteadyEnd
<1>7. CASE Die(m)
  <2>1. /\ run[m] # None /\ run[m].pc # "passed" /\ mishaps = {}
        /\ run' = [run EXCEPT ![m] = None] /\ UNCHANGED <<records, codex, refresh>>
    BY <1>7 DEF Die
  <2>2. run[m].pc = "mined"
    BY <2>1, RunIs
  <2> QED BY <1>2, <2>1, <2>2, SteadyEnd
<1> QED BY <1>1, <1>3, <1>4, <1>5, <1>6, <1>7 DEF Run

LEMMA NextSteady == ASSUME TypeOK, Steady, [Next]_vars PROVE Steady'
<1> SUFFICES ASSUME mishaps' = {} PROVE Steady'
  BY DEF Steady
<1>1. ASSUME UNCHANGED <<records, codex, run, refresh, mishaps>> PROVE Steady'
  BY <1>1, SteadyKept DEF AgreesWithAll
<1>2. ASSUME NEW s \in Sessions, Session(s) PROVE Steady'
  BY <1>1, <1>2 DEF Session, Zoom, Fail, Fix, Signal, Heard
<1>3. ASSUME NEW m \in Miners, Run(m) PROVE Steady'
  BY <1>3, RunSteady
<1>4. ASSUME NEW w \in Refreshes, Refresh(w) PROVE Steady'
  <2>1. UNCHANGED <<records, run, mishaps>>
    BY <1>4 DEF Refresh, RefreshReads, RefreshWrites, RefreshEnds, history
  <2> QED BY <1>4, <2>1, SteadyKept, RefreshAgrees
<1>5. ASSUME NEW c \in Candidates, Lock(c) PROVE Steady'
  <2>1. UNCHANGED <<records, run, mishaps, refresh>>
    BY <1>5 DEF Lock
  <2>2. \A book : AgreesWithAll(book) => AgreesOn(book, codex')
    BY <1>5, LockAgrees DEF AgreesWithAll
  <2> QED BY <2>1, <2>2, SteadyKept DEF AgreesWithAll
<1>6. CASE HalfLife
  BY <1>1, <1>6 DEF HalfLife
<1>7. CASE UNCHANGED vars
  BY <1>1, <1>7 DEF vars, history
<1> QED BY <1>2, <1>3, <1>4, <1>5, <1>6, <1>7 DEF Next

\* Once no run is at work candidates.jsonl and codex.yaml tell the same story,
\* unless a run died after its pass or two writers overlapped.
THEOREM LandTogether == Spec => []InStep
<1>1. Init => Steady
  <2> SUFFICES ASSUME Init PROVE Steady
    OBVIOUS
  <2>1. /\ \A m \in Miners : run[m] = None
        /\ \A w \in Refreshes : refresh[w] = None
        /\ codex = None /\ \A c \in Candidates : records[c] = None
    BY DEF Init
  <2> QED BY <2>1 DEF Steady, AgreesWithAll, AgreesOn, Is
<1>2. TypeOK /\ Steady /\ [Next]_vars => Steady'
  BY NextSteady
<1>3. Steady => InStep
  BY DEF Steady, InStep, Idle, AgreesWithAll, AgreesOn, Agreed, Is, Graduated, Entry
<1> QED BY <1>1, <1>2, <1>3, GraduationTyped, PTL DEF Spec

-----------------------------------------------------------------------------
(* A re-run over the same history settles, one run at a time.              *)

\* What a session's events show, a book has taken in: mining again adds nothing.
Settling(c) == Kind[c] # "recurrence"
Noted(book, s) == \A c \in Candidates : Settling(c) =>
  /\ heard[s][c].seen => /\ book[c] # None /\ s \in ToSet(book[c].sessions)
                         /\ book[c].lastSeen = day
  /\ ~Contradicts(book[c], s, c)

\* A pass has nothing to do.
Over(book) == codex # None => \A c \in Candidates : Settling(c) =>
  /\ ~BelowWithdrawal(book[c])
  /\ ~(Eligible(book[c]) /\ Kind[c] # "vague" /\ codex[c] = "absent")
Alike(b1, b2) == \A c \in Candidates : Settling(c) => b1[c] = b2[c]

\* While nothing else happens the session that was mined last is noted, and once
\* its run is through the pass a pass has nothing left to do.
Calm == quiet # None =>
  /\ Idle => Noted(records, quiet) /\ Over(records)
  /\ \A m \in Miners : run[m] # None =>
       /\ run[m].session = quiet
       /\ Noted(run[m].work, quiet)
       /\ run[m].pc = "passed" \/ run[m].again => Over(run[m].work)
       /\ run[m].again => Alike(run[m].work, records)

LEMMA NotedSame ==
  ASSUME UNCHANGED <<heard, day>>, NEW book, NEW s PROVE Noted(book, s)' <=> Noted(book, s)
BY DEF Noted, Settling, Contradicts

LEMMA OverSame ==
  ASSUME UNCHANGED <<codex, day>>, NEW book PROVE Over(book)' <=> Over(book)
BY DEF Over, Settling, BelowWithdrawal, Eligible, Confidence

\* A list that keeps a session, or has room for one, has it.
LEMMA Remembered ==
  ASSUME NEW list \in Seq(Sessions), NEW s \in Sessions, NEW cap \in Nat \ {0}, Len(list) <= cap
  PROVE  /\ s \in ToSet(Remember(list, s, cap))
         /\ s \in ToSet(list) => Remember(list, s, cap) = list
<1>1. s \in ToSet(list) => Remember(list, s, cap) = list
  BY DEF Remember
<1>2. ASSUME s \notin ToSet(list) PROVE s \in ToSet(Remember(list, s, cap))
  <2> DEFINE all == Append(list, s)
             n == Len(list)
  <2>1. /\ all \in Seq(Sessions) /\ n \in Nat /\ Len(all) = n + 1
        /\ DOMAIN all = 1..(n + 1) /\ all[n + 1] = s
    OBVIOUS
  <2>2. Remember(list, s, cap) = IF n + 1 <= cap THEN all ELSE SubSeq(all, n + 1 - cap + 1, n + 1)
    BY <1>2, <2>1 DEF Remember
  <2> HIDE DEF all, n
  <2>3. CASE n + 1 <= cap
    <3>1. s \in ToSet(all)
      BY <2>1 DEF ToSet
    <3> QED BY <2>2, <2>3, <3>1
  <2>4. CASE ~(n + 1 <= cap)
    <3> DEFINE kept == SubSeq(all, n + 1 - cap + 1, n + 1)
    <3>1. n = cap
      BY <2>1, <2>4 DEF n
    <3>2. cap \in DOMAIN kept /\ kept[cap] = all[cap + 1]
      BY <2>1, <3>1
    <3> HIDE DEF kept
    <3>3. s \in ToSet(kept)
      BY <2>1, <3>1, <3>2 DEF ToSet
    <3> QED BY <2>2, <2>4, <3>3 DEF kept
  <2> QED BY <2>3, <2>4
<1> QED BY <1>1, <1>2

\* Mining a session notes it.
LEMMA MineNotes ==
  ASSUME TypeOK, NEW book \in Books, NEW s \in Sessions
  PROVE  Noted(Swept(Merged(book, s), s), s)
<1> DEFINE mid == Merged(book, s)
           new == Swept(mid, s)
<1>1. mid \in Books /\ new \in Books
  BY MergedIs, SweptIs
<1> SUFFICES ASSUME NEW c \in Candidates, Settling(c)
             PROVE  /\ heard[s][c].seen => /\ new[c] # None /\ s \in ToSet(new[c].sessions)
                                           /\ new[c].lastSeen = day
                    /\ ~Contradicts(new[c], s, c)
  BY DEF Noted
<1>2. ASSUME heard[s][c].seen
      PROVE  mid[c] \in Records /\ s \in ToSet(mid[c].sessions) /\ mid[c].lastSeen = day
  <2>1. c \in Mined(book, s)
    BY <1>2 DEF Mined, Settling
  <2>2. CASE book[c] = None
    <3>1. mid[c] = Novel(s)
      BY <2>1, <2>2 DEF Merged
    <3>2. s \in ToSet(<<s>>)
      BY DEF ToSet
    <3> HIDE DEF mid
    <3> QED BY <3>1, <3>2, NovelIs
  <2>3. CASE book[c] # None
    <3>1. mid[c] = Again(book[c], s) /\ book[c] \in Records
      BY <2>1, <2>3 DEF Merged, Books
    <3>2. book[c].sessions \in Seq(Sessions) /\ Len(book[c].sessions) <= MinedSessionsCap
      BY <3>1, RecordFields
    <3>3. s \in ToSet(Remember(book[c].sessions, s, MinedSessionsCap))
      BY <3>2, Remembered, CapsAssumption
    <3> HIDE DEF mid
    <3> QED BY <3>1, <3>3, AgainIs
  <2> QED BY <2>2, <2>3
<1> HIDE DEF mid
<1>3. \/ new[c] = mid[c] /\ ~Contradicts(mid[c], s, c)
      \/ mid[c] \in Records /\ new[c] = Charged(mid[c], s)
  <2>1. CASE ~Contradicts(mid[c], s, c)
    BY <2>1 DEF Swept
  <2>2. CASE Contradicts(mid[c], s, c)
    <3>1. new[c] = Charged(mid[c], s)
      BY <2>2 DEF Swept, Charged
    <3>2. mid[c] # None
      BY <2>2 DEF Contradicts
    <3> QED BY <1>1, <3>1, <3>2 DEF Books
  <2> QED BY <2>1, <2>2
<1> HIDE DEF new
<1>4. CASE new[c] = mid[c] /\ ~Contradicts(mid[c], s, c)
  BY <1>2, <1>4, NoneAssumption
<1>5. CASE mid[c] \in Records /\ new[c] = Charged(mid[c], s)
  <2>1. s \in ToSet(new[c].against)
    <3>1. new[c].against = Remember(mid[c].against, s, ContradictedSessionsCap)
      BY <1>5, ChargedIs
    <3>2. mid[c].against \in Seq(Sessions) /\ Len(mid[c].against) <= ContradictedSessionsCap
      BY <1>5, RecordFields
    <3>3. s \in ToSet(Remember(mid[c].against, s, ContradictedSessionsCap))
      BY <3>2, Remembered, CapsAssumption
    <3> QED BY <3>1, <3>3
  <2>2. ~Contradicts(new[c], s, c)
    BY <2>1 DEF Contradicts
  <2>3. new[c] # None /\ new[c].sessions = mid[c].sessions /\ new[c].lastSeen = mid[c].lastSeen
    BY <1>5, ChargedIs, NoneAssumption
  <2> QED BY <1>2, <2>2, <2>3
<1> QED BY <1>3, <1>4, <1>5

\* Mining a session that is noted changes nothing.
LEMMA NotedFixed ==
  ASSUME TypeOK, NEW book \in Books, NEW s \in Sessions, Noted(book, s)
  PROVE  Alike(Swept(Merged(book, s), s), book)
<1> DEFINE mid == Merged(book, s)
<1> SUFFICES ASSUME NEW c \in Candidates, Settling(c) PROVE Swept(mid, s)[c] = book[c]
  BY DEF Alike
<1>1. mid[c] = book[c]
  <2>1. CASE c \notin Mined(book, s)
    BY <2>1 DEF Merged
  <2>2. CASE c \in Mined(book, s)
    <3> DEFINE r == book[c]
    <3>1. r # None /\ s \in ToSet(r.sessions) /\ r.lastSeen = day
      BY <2>2 DEF Mined, Noted
    <3>2. r \in Records
      BY <3>1 DEF Books
    <3>3. Remember(r.sessions, s, MinedSessionsCap) = r.sessions
      <4>1. r.sessions \in Seq(Sessions) /\ Len(r.sessions) <= MinedSessionsCap
        BY <3>2, RecordFields
      <4> QED BY <3>1, <4>1, Remembered, CapsAssumption
    <3>4. mid[c] = Again(r, s)
      BY <2>2, <3>1 DEF Merged
    <3> HIDE DEF r, mid
    <3>5. /\ Again(r, s) \in Records
          /\ Again(r, s).occurrences = r.occurrences /\ Again(r, s).sessions = r.sessions
          /\ Again(r, s).lastSeen = r.lastSeen /\ Again(r, s).contradiction = r.contradiction
          /\ Again(r, s).against = r.against /\ Again(r, s).status = r.status
          /\ Again(r, s).graduatedAt = r.graduatedAt
      BY <3>1, <3>2, <3>3, AgainIs
    <3>6. Again(r, s) = r
      BY <3>2, <3>5 DEF Records
    <3> QED BY <3>4, <3>6 DEF r
  <2> QED BY <2>1, <2>2
<1> HIDE DEF mid
<1>2. ~Contradicts(mid[c], s, c)
  BY <1>1 DEF Noted
<1> QED BY <1>1, <1>2 DEF Swept

\* A pass leaves noted what is noted, and nothing to a pass after it.
LEMMA PassNotes ==
  ASSUME TypeOK, Heeded, Grounded, NEW m \in Miners, Pass(m), NEW s \in Sessions, Noted(run[m].work, s),
         NEW book, book = Judged(m)
  PROVE  Noted(book, s)' /\ Over(book)'
<1> DEFINE work == run[m].work
<1>1. /\ run[m] # None /\ codex # None /\ codex' = Rewritten(m)
      /\ UNCHANGED <<heard, day>>
  BY DEF Pass, Passing
<1>2. work \in Books /\ work \in HeldBooks
  BY <1>1, RunIs
<1> SUFFICES ASSUME NEW c \in Candidates, Settling(c)
             PROVE  /\ heard[s][c].seen => /\ book[c] # None /\ s \in ToSet(book[c].sessions)
                                           /\ book[c].lastSeen = day
                    /\ ~Contradicts(book[c], s, c)
                    /\ ~BelowWithdrawal(book[c])
                    /\ ~(Eligible(book[c]) /\ Kind[c] # "vague" /\ Rewritten(m)[c] = "absent")
  <2> DEFINE Left(c) == /\ ~BelowWithdrawal(book[c])
                        /\ ~(Eligible(book[c]) /\ Kind[c] # "vague" /\ Rewritten(m)[c] = "absent")
  <2>1. Noted(book, s)
    BY DEF Noted
  <2>2. \A c \in Candidates : Settling(c) => Left(c)
    OBVIOUS
  <2>3. \A c \in Candidates : BelowWithdrawal(book[c])' = BelowWithdrawal(book[c])
    BY <1>1 DEF BelowWithdrawal, Confidence
  <2>4. \A c \in Candidates : Eligible(book[c])' = Eligible(book[c])
    BY <1>1 DEF Eligible, Confidence
  <2>5. Over(book)'
    BY <1>1, <2>2, <2>3, <2>4 DEF Over, Settling
  <2> QED BY <1>1, <2>1, <2>5, NotedSame
<1>3. /\ heard[s][c].seen => work[c] # None /\ s \in ToSet(work[c].sessions) /\ work[c].lastSeen = day
      /\ ~Contradicts(work[c], s, c)
  BY DEF Noted
<1> HIDE DEF work
<1>4. CASE c \in Due(m)
  <2>1. work[c] \in Records /\ book[c] = Withdrawing(work[c])
    BY <1>1, <1>4, JudgedBook DEF work
  <2>2. /\ book[c] # None /\ book[c].sessions = work[c].sessions /\ book[c].lastSeen = work[c].lastSeen
        /\ book[c].status = "withdrawn"
    BY <2>1, JudgedIs, NoneAssumption
  <2> QED BY <1>3, <2>2 DEF Contradicts, BelowWithdrawal, Eligible
<1>5. CASE c \notin Due(m) /\ c \in Ready(m)
  <2>1. work[c] \in Records /\ book[c] = Graduating(work[c]) /\ work[c].status = "candidate"
    BY <1>1, <1>5, JudgedBook DEF work, Ready, Eligible
  <2>2. /\ book[c] # None /\ book[c].sessions = work[c].sessions /\ book[c].lastSeen = work[c].lastSeen
        /\ book[c].status = "graduated" /\ book[c].graduatedAt = now + 1
        /\ book[c].contradiction = work[c].contradiction
    BY <2>1, JudgedIs, NoneAssumption
  <2>3. work[c].contradiction = 0
    BY <1>2, <2>1, NoneAssumption DEF Grounded, Founded
  <2>4. heard[s][c].bad # None => ~(heard[s][c].bad >= now + 1)
    BY DEF Heeded, TypeOK, Evidence
  <2> QED BY <1>3, <2>2, <2>3, <2>4 DEF Contradicts, BelowWithdrawal, Eligible
<1>6. CASE c \notin Due(m) /\ c \notin Ready(m)
  <2>1. book[c] = work[c] /\ Rewritten(m)[c] = codex[c]
    BY <1>1, <1>6, JudgedBook DEF work, Rewritten
  <2>2. ~BelowWithdrawal(work[c])
    BY <1>6 DEF Due, work
  <2>3. ~(Eligible(work[c]) /\ Kind[c] # "vague" /\ codex[c] = "absent")
    BY <1>6 DEF Ready, work
  <2> QED BY <1>3, <2>1, <2>2, <2>3
<1> QED BY <1>4, <1>5, <1>6

\* A pass with nothing to do leaves the book as it is.
LEMMA PassOver ==
  ASSUME TypeOK, NEW m \in Miners, Pass(m), Over(run[m].work) PROVE Alike(Judged(m), run[m].work)
<1>1. run[m] # None /\ codex # None
  BY DEF Pass, Passing
<1> SUFFICES ASSUME NEW c \in Candidates, Settling(c) PROVE Judged(m)[c] = run[m].work[c]
  BY DEF Alike
<1>2. c \notin Due(m)
  BY <1>1 DEF Over, Due
<1>3. c \notin Ready(m)
  BY <1>1 DEF Over, Ready
<1> QED BY <1>1, <1>2, <1>3, JudgedBook

LEMMA NotedAlike ==
  ASSUME NEW b1, NEW b2, Alike(b1, b2), Over(b2) PROVE Over(b1)
BY DEF Alike, Over

\* One run is under way, and calm.
LEMMA CalmRun ==
  ASSUME TypeOK, NEW m \in Miners, NEW v \in Runs, run' = [run EXCEPT ![m] = v],
         \A n \in Miners \ {m} : run[n] = None,
         v.session = quiet', Noted(v.work, v.session)',
         v.pc = "passed" \/ v.again => Over(v.work)',
         v.again => Alike(v.work, records')
  PROVE  Calm'
<1>1. run'[m] = v /\ \A n \in Miners \ {m} : run'[n] = None
  BY RunSet
<1>2. v # None
  BY NoneAssumption
<1>3. ~Idle'
  BY <1>1, <1>2 DEF Idle
<1>4. \A n \in Miners : run'[n] # None => n = m
  BY <1>1
<1>5. Noted(v.work, quiet)'
  OBVIOUS
<1>6. \A n \in Miners : run'[n] # None =>
         /\ run'[n].session = quiet'
         /\ Noted(run[n].work, quiet)'
         /\ run'[n].pc = "passed" \/ run'[n].again => Over(run[n].work)'
         /\ run'[n].again => Alike(run'[n].work, records')
  BY <1>1, <1>4, <1>5
<1> QED BY <1>3, <1>6 DEF Calm, Alike

LEMMA RunCalm ==
  ASSUME TypeOK, Heeded, Grounded, Calm, MinesAlone, MinesAlone', NEW m \in Miners, Run(m), quiet' # None
  PROVE  Calm'
<1>1. ASSUME NEW s \in Sessions, Mine(m, s) PROVE Calm'
  <2>1. PICK v \in Runs : /\ run' = [run EXCEPT ![m] = v]
                          /\ v.pc = "mined" /\ v.work = Swept(Merged(records, s), s) /\ v.session = s
                          /\ v.again = (quiet = s)
    BY <1>1, MineShape
  <2>2. run[m] = None /\ quiet' = s /\ UNCHANGED <<heard, records, codex, day>>
    BY <1>1 DEF Mine
  <2>3. run'[m] = v /\ v # None /\ \A n \in Miners \ {m} : run'[n] = run[n]
    BY <2>1, RunSet, NoneAssumption
  <2>4. \A n \in Miners : run[n] = None
    BY <2>2, <2>3 DEF MinesAlone
  <2>5. records \in Books
    BY DEF TypeOK
  <2>6. Noted(v.work, s)
    BY <2>1, <2>5, MineNotes
  <2>7. Noted(v.work, s)'
    BY <2>2, <2>6, NotedSame
  <2>8. ASSUME v.again PROVE Alike(v.work, records) /\ Over(v.work)
    <3>1. quiet = s /\ quiet # None
      BY <2>1, <2>8, NoneAssumption
    <3>2. Noted(records, s) /\ Over(records)
      BY <2>4, <3>1 DEF Calm, Idle
    <3>3. Alike(v.work, records)
      BY <2>1, <2>5, <3>2, NotedFixed
    <3> QED BY <3>2, <3>3, NotedAlike
  <2>9. v.again => Over(v.work)'
    BY <2>2, <2>8, OverSame
  <2>10. v.again => Alike(v.work, records')
    BY <2>2, <2>8
  <2>11. Noted(v.work, v.session)'
    BY <2>1, <2>7
  <2> QED BY <2>1, <2>2, <2>4, <2>9, <2>10, <2>11, CalmRun
<1>2. ASSUME run[m] # None, quiet' = quiet
      PROVE  /\ \A n \in Miners \ {m} : run[n] = None
             /\ run[m].session = quiet /\ Noted(run[m].work, quiet)
             /\ run[m].pc = "passed" \/ run[m].again => Over(run[m].work)
             /\ run[m].again => Alike(run[m].work, records)
             /\ run[m].session \in Sessions
  BY <1>2, RunIs DEF Calm, MinesAlone
<1>3. CASE Pass(m)
  <2>1. run[m] # None /\ quiet' = quiet /\ UNCHANGED <<heard, records, day>>
    BY <1>3 DEF Pass, Passing
  <2>2. PICK v \in Runs : /\ run' = [run EXCEPT ![m] = v] /\ v.pc = "passed" /\ v.work = Judged(m)
                          /\ v.session = run[m].session /\ v.again = run[m].again
    BY <1>3, PassShape
  <2>3. Noted(v.work, v.session)' /\ Over(v.work)'
    <3>1. Noted(run[m].work, v.session) /\ v.session \in Sessions
      BY <1>2, <2>1, <2>2
    <3> QED BY <1>3, <2>2, <3>1, PassNotes
  <2>4. v.again => Alike(v.work, records')
    <3>1. v.again => Alike(Judged(m), run[m].work) /\ Alike(run[m].work, records)
      BY <1>2, <1>3, <2>1, <2>2, PassOver
    <3> QED BY <2>1, <2>2, <3>1 DEF Alike
  <2> QED BY <1>2, <2>1, <2>2, <2>3, <2>4, CalmRun
<1>4. CASE PassWaits(m)
  <2>1. run[m] # None /\ codex = None /\ quiet' = quiet /\ UNCHANGED <<heard, records, codex, day>>
    BY <1>4 DEF PassWaits, Passing, history
  <2>2. PICK v \in Runs : /\ run' = [run EXCEPT ![m] = v] /\ v.pc = "passed" /\ v.work = run[m].work
                          /\ v.session = run[m].session /\ v.again = run[m].again
    BY <1>4, PassWaitsShape
  <2>3. Noted(v.work, v.session)'
    BY <1>2, <2>1, <2>2, NotedSame
  <2>4. Over(v.work)'
    BY <2>1 DEF Over
  <2>5. v.again => Alike(v.work, records')
    BY <1>2, <2>1, <2>2
  <2> QED BY <1>2, <2>1, <2>2, <2>3, <2>4, <2>5, CalmRun
<1>5. CASE Persist(m)
  <2>1. /\ run[m] # None /\ run[m].pc = "passed" /\ records' = run[m].work
        /\ run' = [run EXCEPT ![m] = None] /\ quiet' = quiet /\ UNCHANGED <<heard, codex, day>>
    BY <1>5 DEF Persist, history
  <2>2. \A n \in Miners : run'[n] = None
    BY <1>2, <2>1, RunSet
  <2>3. Noted(records', quiet) /\ Over(records')
    BY <1>2, <2>1
  <2>4. PICK book : book = records'
    OBVIOUS
  <2>5. Noted(book, quiet)' /\ Over(book)'
    <3>1. \A s : Noted(book, s) => Noted(book, s)'
      BY <2>1, NotedSame
    <3>2. Over(book) => Over(book)'
      BY <2>1, OverSame
    <3> QED BY <2>1, <2>3, <2>4, <3>1, <3>2
  <2>6. Noted(records, quiet)' /\ Over(records)'
    BY <2>4, <2>5
  <2> QED BY <2>2, <2>6 DEF Calm
<1>6. ~PassThrows(m) /\ ~Die(m)
  BY DEF PassThrows, Die
<1> QED BY <1>1, <1>3, <1>4, <1>5, <1>6 DEF Run

LEMMA NextCalm ==
  ASSUME TypeOK, Heeded, Grounded, Calm, MinesAlone, MinesAlone', [Next]_vars PROVE Calm'
<1> SUFFICES ASSUME quiet' # None PROVE Calm'
  BY DEF Calm
<1>1. ASSUME UNCHANGED <<heard, records, codex, run, day, quiet>> PROVE Calm'
  BY <1>1 DEF Calm, Idle, Noted, Over, Alike, Settling, Contradicts, BelowWithdrawal, Eligible, Confidence
<1>2. ASSUME NEW m \in Miners, Run(m) PROVE Calm'
  BY <1>2, RunCalm
<1>3. ASSUME NEW w \in Refreshes, Refresh(w) PROVE Calm'
  BY <1>1, <1>3 DEF Refresh, RefreshReads, RefreshWrites, RefreshEnds, history
<1>4. ASSUME NEW s \in Sessions, Session(s) PROVE FALSE
  BY <1>4 DEF Session, Zoom, Fail, Fix, Signal, Heard
<1>5. ASSUME NEW c \in Candidates, Lock(c) PROVE FALSE
  BY <1>5 DEF Lock
<1>6. ~HalfLife
  BY DEF HalfLife
<1>7. CASE UNCHANGED vars
  BY <1>1, <1>7 DEF vars, history
<1> QED BY <1>2, <1>3, <1>4, <1>5, <1>6, <1>7 DEF Next

\* A run over a history that has been mined leaves hotspots and fixes as they
\* are, whatever died, threw or was written back before: as long as no two runs
\* are under way at a time.
THEOREM RerunsLeave == Spec /\ []MinesAlone => RerunsSettle
<1> DEFINE Settle == \A m \in Miners : Rerun(m) /\ run'[m] = None =>
                       \A c \in Candidates : Kind[c] # "recurrence" => records'[c] = records[c]
<1>1. ASSUME TypeOK, Calm, [Next]_vars PROVE Settle
  <2> SUFFICES ASSUME NEW m \in Miners, Rerun(m), run'[m] = None, NEW c \in Candidates, Kind[c] # "recurrence"
               PROVE  records'[c] = records[c]
    OBVIOUS
  <2>1. run[m] # None /\ run[m].again /\ quiet # None
    BY <1>1, RunIs, NoneAssumption DEF Rerun
  <2>2. run[m].work[c] = records[c]
    BY <1>1, <2>1 DEF Calm, Alike, Settling
  <2>3. ASSUME NEW n \in Miners, Persist(n) PROVE n = m
    <3>1. run' = [run EXCEPT ![n] = None]
      BY <2>3 DEF Persist
    <3> QED BY <1>1, <2>1, <3>1, RunSet
  <2>4. ASSUME NEW n \in Miners, Run(n), ~Persist(n) PROVE UNCHANGED records
    BY <2>4 DEF Run, Mine, Pass, PassWaits, PassThrows, Die
  <2>5. ASSUME NEW n \in Miners, Persist(n) PROVE records'[c] = run[m].work[c]
    BY <2>3, <2>5 DEF Persist
  <2>6. (\E s \in Sessions : Session(s)) \/ (\E w \in Refreshes : Refresh(w)) \/ (\E d \in Candidates : Lock(d))
          \/ HalfLife \/ UNCHANGED vars => UNCHANGED records
    BY DEF Session, Zoom, Fail, Fix, Signal, Heard, Refresh, RefreshReads, RefreshWrites, RefreshEnds, Lock,
           HalfLife, vars
  <2> QED BY <1>1, <2>2, <2>4, <2>5, <2>6 DEF Next
<1>2. Init => Calm
  BY DEF Init, Calm
<1>3. TypeOK /\ Heeded /\ Grounded /\ Calm /\ MinesAlone /\ MinesAlone' /\ [Next]_vars => Calm'
  BY NextCalm
<1>4. Sound => TypeOK /\ Heeded /\ Grounded
  BY DEF Sound
<1>5. TypeOK /\ Calm /\ [Next]_vars => [Settle]_vars
  BY <1>1
<1> QED BY <1>2, <1>3, <1>4, <1>5, AlwaysSound, PTL DEF Spec, RerunsSettle
=============================================================================
