------------------------------ MODULE Explore ------------------------------
(***************************************************************************)
(* dcp__explore and vault_ask (sidecar/explore.ts): a goal is answered by  *)
(* ranking and serving the corpus's documents, then by a keyword sweep and *)
(* a read of the files it hits, within a number of steps and a wall clock  *)
(* that may run out at any moment; vault/confidence.ts then says how far   *)
(* the dossier may be trusted.                                             *)
(***************************************************************************)
EXTENDS Documents

CONSTANTS
    Libraries,    \* by name, the ingested documents of a corpus in path order
    Requests,     \* goals, each with the corpus and the files it is asked of
    MaxHits,      \* hits the sweep stops at
    Served,       \* documents a dossier quotes and serves at most
    EnoughEvidence

\* What a map gives of its text: sections that start and end on its lines.
Mapped(artifact) ==
    /\ IsSeq(artifact.lines) /\ IsSeq(artifact.sections)
    /\ \A line \in ToSet(artifact.lines) : IsSeq(line.words)
    /\ \A s \in ToSet(artifact.sections) : {s.start, s.end} \subseteq DOMAIN artifact.lines

\* A budget has the two steps that serving documents keeps back.
ASSUME ExploreAssumption ==
    /\ {MaxHits, Served, EnoughEvidence} \subseteq Nat /\ Served > 0
    /\ \A name \in DOMAIN Libraries :
         IsSeq(Libraries[name]) /\ \A d \in DOMAIN Libraries[name] : Mapped(Libraries[name][d])
    /\ \A r \in Requests :
         r.library \in DOMAIN Libraries /\ r.files \in Seq(Nat) /\ r.cap \in Nat /\ r.cap >= 2

(* A request: ask, the words of the goal; mutation, whether an imperative  *)
(* opens it; library, whose ingested documents it is asked of; stored, those *)
(* whose artifact the store still has; files, the hits of each source file *)
(* in walk order; unreadable, those gone by the time they are read; cap.   *)

VARIABLES
    request, phase,
    late,      \* the wall clock has passed the deadline
    steps,
    ranking,   \* the standing of the documents, best first
    toServe,   \* what is left of those served
    evidence,  \* <<1, document, line>>, or <<0, file, the how manieth hit>>
    found,     \* the files of the sweep, by their place in the walk, with their hits
    chosen,    \* how many of them are to be read
    toRead,    \* what is left of those
    read,      \* files read
    incomplete

exploreVars == <<request, phase, late, steps, ranking, toServe, evidence, found,
                 chosen, toRead, read, incomplete>>

ExploreInit ==
    /\ request = "none" /\ phase = "idle" /\ late = FALSE
    /\ steps = 0
    /\ ranking = << >> /\ toServe = << >> /\ evidence = {}
    /\ found = {} /\ chosen = 0 /\ toRead = << >> /\ read = {}
    /\ incomplete = "none"

Question == request.ask
Artifact(d) == Libraries[request.library][d]

\* The deadline passes.
Expire ==
    /\ phase \notin {"idle", "done"} /\ ~ late
    /\ late' = TRUE
    /\ UNCHANGED <<request, phase, steps, ranking, toServe, evidence, found, chosen,
                   toRead, read, incomplete>>

Pose(r) ==
    /\ phase = "idle"
    /\ request' = r
    /\ IF r.mutation \/ (Keywords(r.ask) = {} /\ SectionRefs(r.ask) = {})
       THEN /\ incomplete' = IF r.mutation THEN "mutation" ELSE "vague"
            /\ phase' = "done"
       ELSE phase' = "rank" /\ UNCHANGED incomplete
    /\ UNCHANGED <<late, steps, ranking, toServe, evidence, found, chosen, toRead, read>>

-----------------------------------------------------------------------------
(* The document phase. *)

Best(scores) == LET order == Ranked({x \in scores : x.tier > 0})
                IN {order[i] : i \in 1..Min({2, Len(order)})}
Densest(artifact, lines) ==
    LET Of(i) == Hits(artifact.lines[i], Keywords(Question))
        order == SetToSortSeq(lines, LAMBDA i, j : Of(i) > Of(j) \/ (Of(i) = Of(j) /\ i < j))
    IN {order[n] : n \in 1..Min({2, Len(order)})}

\* The two best matched sections: their heading and their two densest hits; the
\* two densest hits of a document no section of which matches.
Quoted(standing) ==
    LET artifact == Artifact(standing.doc)
        In(s) == {h[2] : h \in {x \in standing.hits : x[1] = s /\ x[2] # s.start}}
    IN IF Tier(standing) = 0 THEN Densest(artifact, {h[2] : h \in standing.hits})
       ELSE UNION {{x.section.start} \cup Densest(artifact, In(x.section)) :
                     x \in Best(standing.scores)}

\* Two steps are kept back, for the sweep and a file.
DocBudget(ranked, taken) ==
    Min({Len(ranked), Served, Max({0, request.cap - taken - 2})})

\* Searching the documents is one step, where it hits, and a distillation.
Rank ==
    /\ phase = "rank"
    /\ ranking' = RankDocuments(Libraries[request.library], request.stored, Question)
    /\ steps' = IF \E x \in ToSet(ranking') : x.hits # {} THEN steps + 1 ELSE steps
    /\ toServe' = SubSeq(ranking', 1, DocBudget(ranking', steps'))
    /\ evidence' = UNION {{<<1, x.doc, i>> : i \in Quoted(x)} :
                            x \in ToSet(SubSeq(ranking', 1, Min({Len(ranking'), Served})))}
    /\ phase' = "serve"
    /\ UNCHANGED <<request, late, found, chosen, toRead, read, incomplete>>

\* The deadline ends the serving without a word.
ServeDocument ==
    /\ phase = "serve"
    /\ IF toServe = << >> \/ late
       THEN phase' = "sweep" /\ UNCHANGED <<steps, toServe>>
       ELSE /\ toServe' = Tail(toServe)
            /\ steps' = steps + 1
            /\ UNCHANGED phase
    /\ UNCHANGED <<request, late, ranking, evidence, found, chosen, toRead, read, incomplete>>

-----------------------------------------------------------------------------
(* The sweep over the files, and the reading. *)

\* The hits of the first n files, no more than MaxHits of them.
HitsOf(files, n) ==
    LET Before(i) == SumFunctionOnSet(files, 1..(i - 1))
        Taken(i) == IF Before(i) >= MaxHits THEN 0 ELSE Min({files[i], MaxHits - Before(i)})
    IN {<<i, Taken(i)>> : i \in {j \in 1..n : Taken(j) > 0}}

\* The files with the most hits first, those with as many in walk order.
MostHits(f, g) == f[2] > g[2] \/ (f[2] = g[2] /\ f[1] < g[1])

\* Mutant of ReadBudget: the steps already taken are not counted.
ReadBudgetAnew(taken) == request.cap

ReadBudget(taken) == IF request.cap > taken THEN request.cap - taken ELSE 0

\* It stops where the deadline finds it; without a keyword it finds nothing.
Sweep ==
    /\ phase = "sweep"
    /\ steps' = steps + 1
    /\ LET all == IF Keywords(Question) = {} THEN 0 ELSE Len(request.files)
       IN \E n \in (IF late THEN {0} ELSE 0..all) :
            /\ late' = (late \/ n < all)
            /\ found' = HitsOf(request.files, n)
    /\ LET ranked == InOrder(found', MostHits)
       IN IF found' = {} /\ evidence = {}
          THEN /\ incomplete' = "no hits" /\ phase' = "done"
               /\ UNCHANGED <<chosen, toRead>>
          ELSE /\ chosen' = Min({Len(ranked), ReadBudget(steps + 1)})
               /\ toRead' = SubSeq(ranked, 1, chosen')
               /\ phase' = "read"
               /\ UNCHANGED incomplete
    /\ UNCHANGED <<request, ranking, toServe, evidence, read>>

\* Three hits of a file are quoted; with enough evidence no more are read.
ReadFile ==
    /\ phase = "read" /\ toRead # << >> /\ ~ late
    /\ LET file == Head(toRead)[1]
           more == evidence \cup {<<0, file, i>> : i \in 1..Min({Head(toRead)[2], 3})}
       IN IF file \in request.unreadable
          THEN toRead' = Tail(toRead) /\ UNCHANGED <<steps, evidence, read>>
          ELSE /\ steps' = steps + 1
               /\ evidence' = more
               /\ read' = read \cup {file}
               /\ toRead' = IF Cardinality(more) >= EnoughEvidence THEN << >> ELSE Tail(toRead)
    /\ UNCHANGED <<request, phase, late, ranking, toServe, found, chosen, incomplete>>

Conclude ==
    /\ phase = "read" /\ (toRead = << >> \/ late)
    /\ phase' = "done"
    /\ incomplete' = IF toRead # << >> THEN "wall clock"
                     ELSE IF Cardinality(found) > chosen THEN "step cap" ELSE "none"
    /\ UNCHANGED <<request, late, steps, ranking, toServe, evidence, found, chosen,
                   toRead, read>>

ExploreNext ==
    \/ Expire \/ Rank \/ ServeDocument \/ Sweep \/ ReadFile \/ Conclude
    \/ \E r \in Requests : Pose(r)

ExploreSpec == ExploreInit /\ [][ExploreNext]_exploreVars

-----------------------------------------------------------------------------
(* The dossier, and how far it may be trusted. *)

Answered == phase = "done" /\ incomplete \notin {"mutation", "vague"}
Refs == SectionRefs(Question)
SectionsOf(d) == ToSet(Artifact(d).sections)

\* What the dossier says of references that match several sections.
Ambiguity ==
    UNION {{r \in Resolutions(Artifact(d).sections, Question) : Cardinality(r.candidates) > 1} :
             d \in {x.doc : x \in ToSet(ranking)}}

Resolved == {r \in Refs : \E x \in ToSet(ranking) : \E s \in SectionsOf(x.doc) : Matches(s, r)}
BestTier == IF ranking = << >> THEN 0 ELSE Tier(ranking[1])

EvidenceWords ==
    UNION {IF e[1] = 0 THEN request.words
           ELSE ToSet(Artifact(e[2]).lines[e[3]].words)
                \cup UNION {ToSet(s.id) \cup ToSet(s.title) :
                              s \in {t \in SectionsOf(e[2]) : t.start <= e[3] /\ e[3] <= t.end}} :
             e \in evidence}
Terms == Keywords(Question) \cup {r.number : r \in Refs}
HalfCovered == 2 * Cardinality(Terms \cap EvidenceWords) >= Cardinality(Terms)

Anchored == Resolved # {} \/ BestTier >= 2
Shown(anchored, covered) ==
    CASE evidence = {} \/ (Refs # {} /\ Resolved = {}) -> "low"
      [] evidence # {} /\ (Refs = {} \/ Resolved # {}) /\ anchored /\ covered -> "high"
      [] OTHER -> IF anchored \/ BestTier > 0 \/ covered THEN "medium" ELSE "low"
Disclosed(band) ==
    IF band = "high" /\ \E r \in Ambiguity : ~ r.discriminated THEN "medium" ELSE band
Cut(band) ==
    CASE incomplete = "none" -> band
      [] incomplete # "none" /\ band = "high" -> "medium"
      [] OTHER -> "low"
Band == Cut(Disclosed(Shown(Anchored, HalfCovered)))

-----------------------------------------------------------------------------
(* Safety. *)

\* An exploration stays within its steps, and a file the sweep found is read
\* unless the dossier says it is incomplete, the file was gone, or the
\* evidence was enough.
WithinBudget ==
    /\ phase # "idle" => steps <= request.cap
    /\ phase = "done" /\ incomplete = "none" =>
         \A f \in found : \/ f[1] \in read \cup request.unreadable
                         \/ Cardinality(evidence) >= EnoughEvidence

\* An answer given with high confidence is complete and quotes a section that
\* the question named, by its reference or its heading.
HighIsShown ==
    Answered /\ Band = "high" =>
      /\ incomplete = "none"
      /\ \E e \in evidence : \E s \in (IF e[1] = 1 THEN SectionsOf(e[2]) ELSE {}) :
           /\ e[3] = s.start
           /\ \/ \E r \in Refs : Matches(s, r)
              \/ Refs = {} /\ HeadingMatch(s.title, Question) \in {"exact", "strong"}

=============================================================================
