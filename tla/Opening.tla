------------------------------ MODULE Opening ------------------------------
(***************************************************************************)
(* What a session opens with: SessionStart weighs the repository by a walk *)
(* that gives up early (sidecar/posture.ts) and renders its codex within a *)
(* budget, giving up sections in a documented order (buildInjection in     *)
(* sidecar/codex.ts).                                                      *)
(***************************************************************************)
EXTENDS Naturals, Sequences, FiniteSets, SequencesExt, FiniteSetsExt, Orders

CONSTANTS
    Repositories,  \* what the walk meets, in its order, and what config.json pins
    Codexes,
    DirCap, IdleFiles, IdleBytes, LightFiles, LightBytes,
    Budget,        \* tokens of an injection
    LearnedBudget  \* tokens of its learned section

ASSUME OpeningAssumption ==
    /\ {DirCap, IdleFiles, IdleBytes, LightFiles, LightBytes, Budget, LearnedBudget} \subseteq Nat
    /\ IdleFiles <= LightFiles /\ IdleBytes <= LightBytes
    /\ \A r \in Repositories : r.entries \in Seq([dir : BOOLEAN, size : Nat])
    \* A section takes tokens; a map without symbols has none to drop.
    /\ \A c \in Codexes :
         /\ {c.files, c.base} \subseteq Nat
         /\ c.learned \in Seq([confidence : Nat, size : Nat])
         /\ \A s \in DOMAIN c.sizes : c.sizes[s] \in Nat /\ (s = "keySymbols" \/ c.sizes[s] > 0)

VARIABLES opened  \* by the session: the repository, its codex, posture and injection

Unopened == [posture |-> "none"]

-----------------------------------------------------------------------------
(* Posture. A repository is the sequence of what the walk meets, "dir" or  *)
(* the size of a source file; pinned, the posture config.json names.       *)

Nothing == [files |-> 0, bytes |-> 0, dirs |-> 1, capped |-> FALSE]

\* One entry of the walk; past a full threshold, or the directories it may
\* visit, nothing more is counted.
Visit(w, entry) ==
    IF w.capped THEN w
    ELSE IF entry.dir
    THEN [w EXCEPT !.dirs = @ + 1, !.capped = w.dirs + 1 > DirCap]
    ELSE [w EXCEPT !.files = @ + 1, !.bytes = @ + entry.size,
                   !.capped = w.files + 1 > LightFiles \/ w.bytes + entry.size > LightBytes]
Walked(entries) ==
    LET w[n \in 0..Len(entries)] == IF n = 0 THEN Nothing ELSE Visit(w[n - 1], entries[n])
    IN w[Len(entries)]

\* The codex's count of files, where it has one; the walk's, where it is more.
FilesOf(repository, codex) == Max({codex.files, Walked(repository.entries).files})
Knows(codex) == codex.learned # << >> \/ codex.pitfalls

Aborted(w) == w.dirs > DirCap

Posture(repository, codex) ==
    LET w == Walked(repository.entries)
        files == FilesOf(repository, codex)
    IN IF repository.pinned # "none" THEN repository.pinned
       ELSE IF Aborted(w) \/ files > LightFiles \/ w.bytes > LightBytes THEN "full"
       ELSE IF ~ Knows(codex) /\ files <= IdleFiles /\ w.bytes <= IdleBytes THEN "idle"
       ELSE "light"

-----------------------------------------------------------------------------
(* Injection. A codex gives each section its size; a learned entry has a   *)
(* confidence and a size.                                                  *)

DegradeOrder == <<"glossary", "conventions", "importGraph", "learned", "interfaces", "keySymbols">>

Total(entries) == SumFunction([i \in DOMAIN entries |-> entries[i].size])

\* By confidence, as many of the most confident as the section's budget takes.
MoreSure(learned, i, j) ==
    \/ learned[i].confidence > learned[j].confidence
    \/ learned[i].confidence = learned[j].confidence /\ i < j
ByConfidence(learned) ==
    LET order == InOrder(DOMAIN learned, LAMBDA i, j : MoreSure(learned, i, j))
    IN [n \in DOMAIN learned |-> learned[order[n]]]
Fitting(learned) == {n \in 0..Len(learned) :
                       n = 0 \/ 1 + Total(SubSeq(ByConfidence(learned), 1, n)) <= LearnedBudget}
Kept(learned) == SubSeq(ByConfidence(learned), 1, Max(Fitting(learned)))

\* The sections an injection starts from, and the size of each.
Carried(codex, posture) ==
    {s \in ToSet(DegradeOrder) :
       IF s = "learned" THEN codex.learned # << >> ELSE posture = "full" /\ s \in DOMAIN codex.sizes}
SizeOf(codex, s) == IF s = "learned" THEN 1 + Total(Kept(codex.learned)) ELSE codex.sizes[s]

\* The text without the sections dropped: what never drops, the rest, and the
\* notes on what was excluded or dropped.
Tokens(codex, posture, dropped) ==
    LET notes == (IF Len(Kept(codex.learned)) < Len(codex.learned) /\ "learned" \notin dropped
                  THEN 1 ELSE 0) + (IF dropped = {} THEN 0 ELSE 1)
    IN codex.base + notes
       + SumFunction([s \in Carried(codex, posture) \ dropped |-> SizeOf(codex, s)])

\* Sections are dropped in order until the text fits ...
First(codex, posture, n) == {DegradeOrder[i] : i \in 1..n} \cap Carried(codex, posture)
Degraded(codex, posture) ==
    LET fits == {n \in 0..Len(DegradeOrder) : Tokens(codex, posture, First(codex, posture, n)) <= Budget}
    IN First(codex, posture, IF fits = {} THEN Len(DegradeOrder) ELSE Min(fits))

\* Mutant of Restored: the degrade order is a death list.
RestoredNone(codex, posture) == Degraded(codex, posture)

\* ... and given back where there is room, the most protected first.
GivenBack(codex, posture, dropped, s) ==
    IF s \in dropped /\ Tokens(codex, posture, dropped \ {s}) <= Budget THEN dropped \ {s} ELSE dropped
Restored(codex, posture) ==
    LET last == Len(DegradeOrder)
        left[n \in 0..last] ==
            IF n = 0 THEN Degraded(codex, posture)
            ELSE GivenBack(codex, posture, left[n - 1], DegradeOrder[last + 1 - n])
    IN left[last]

BuildInjection(codex, posture) ==
    LET dropped == Restored(codex, posture)
        learned == IF "learned" \in dropped THEN << >> ELSE Kept(codex.learned)
    IN [dropped |-> dropped, learned |-> learned,
        excluded |-> ToSet(codex.learned) \ ToSet(Kept(codex.learned)),
        tokens |-> Tokens(codex, posture, dropped)]

-----------------------------------------------------------------------------
OpeningInit == opened = Unopened

\* handleSessionStart: an idle session is given no codex.
Open(repository, codex) ==
    /\ opened = Unopened
    /\ LET posture == Posture(repository, codex)
       IN opened' = [posture |-> posture, repository |-> repository, codex |-> codex,
                     injection |-> IF posture = "idle" THEN "none" ELSE BuildInjection(codex, posture)]

OpeningNext == \E r \in Repositories, c \in Codexes : Open(r, c)

OpeningSpec == OpeningInit /\ [][OpeningNext]_opened

-----------------------------------------------------------------------------
(* Safety. *)

SourceFiles(r) == {i \in DOMAIN r.entries : ~ r.entries[i].dir}

\* No session opens idle on its own in a repository above the idle bounds, or
\* one with knowledge to give, wherever the walk stopped.
IdleIsSmall ==
    opened.posture = "idle" /\ opened.repository.pinned = "none" =>
      /\ Cardinality(SourceFiles(opened.repository)) <= IdleFiles
      /\ SumFunction([i \in SourceFiles(opened.repository) |-> opened.repository.entries[i].size])
           <= IdleBytes
      /\ ~ Knows(opened.codex)

\* The injection fits its budget or has given up all it could, and it gave up
\* nothing that would still fit; of the learned entries the least confident are
\* the ones left out.
InjectionFits ==
    LET codex == opened.codex
        i == opened.injection
        carried == Carried(codex, opened.posture)
    IN opened.posture \in {"full", "light"} =>
         /\ i.tokens <= Budget \/ i.dropped = carried
         /\ \A s \in i.dropped : Tokens(codex, opened.posture, i.dropped \ {s}) > Budget
         /\ \A out \in i.excluded : \A kept \in ToSet(i.learned) : out.confidence <= kept.confidence

\* What SessionStart decides is in proportion.
OpensInProportion == IdleIsSmall /\ InjectionFits
=============================================================================
