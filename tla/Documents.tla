----------------------------- MODULE Documents -----------------------------
(***************************************************************************)
(* The document engine (sidecar/docs.ts): how a prose document is cut into *)
(* cited sections, how a question names and ranks them, and how a zoom     *)
(* recovers one from the stored text (sidecar/distill.ts).                 *)
(*                                                                         *)
(* A line is its words and the heading form the detectors see in it. An id *)
(* is the sequence of the words its dashes join: example-5 is              *)
(* <<"example", "5">>.                                                     *)
(***************************************************************************)
EXTENDS Naturals, Sequences, FiniteSets, SequencesExt, FiniteSetsExt, Orders

CONSTANTS
    Enumerations, \* words that number a section: 5, iv, two
    Digits,       \* those written in digits
    Numeral,      \* the word of a number, as the code prints it
    Labels,       \* example, claim, part ... and the generic section, sec
    Generic,      \* section, sec
    Minor,        \* HEADING_STOPWORDS
    Single,       \* words of one character
    Short,        \* words no keyword search takes: under four letters, or stopwords
    Entities,     \* words that gates look for: figures, dates, defined terms, parties
    MaxListed,    \* sections a structure map lists at most
    MaxQuoted,    \* sections an ask brings along at most
    MaxQuotedLines,
    LineSize      \* of a line of text, where that of a listed section is 1

ASSUME DocumentsAssumption ==
    /\ {MaxListed, MaxQuoted, MaxQuotedLines, LineSize} \subseteq Nat
    /\ \A i, j \in DOMAIN Numeral : Numeral[i] = Numeral[j] => i = j

-----------------------------------------------------------------------------
(* Words. *)

IsSeq(s) == s \in Seq(ToSet(s))
At(s, part) ==
    {i \in 1..(Len(s) + 1 - Len(part)) : part # << >> /\ SubSeq(s, i, i + Len(part) - 1) = part}
Includes(s, part) == At(s, part) # {}
Without(s, part) ==
    LET kept == DOMAIN s \ UNION {i..(i + Len(part) - 1) : i \in At(s, part)}
        order == SetToSortSeq(kept, <)
    IN [n \in DOMAIN order |-> s[order[n]]]

\* A question is a sequence of phrases: a word, or an id after the mark.
Word(w) == [word |-> w, marked |-> << >>]
Marked(id) == [word |-> "", marked |-> id]
Words(ask) == FlattenSeq([i \in DOMAIN ask |->
                 IF ask[i].marked = << >> THEN <<ask[i].word>> ELSE ask[i].marked])
Keywords(ask) == ToSet(Words(ask)) \ Short

-----------------------------------------------------------------------------
(* The structure map. *)

Blank(line) == line.words = << >>

\* A document may name its headings by line (styled). Without that, in Markdown
\* only a # or a bold line heads a section; elsewhere the line's own shape does.
Heads(doc, line) ==
    IF doc.kind = "markdown" THEN line.mark # "" ELSE line.mark = "" /\ line.shape # "plain"
HeadingLines(doc) ==
    IF DOMAIN doc.styled # {} THEN DOMAIN doc.styled
    ELSE {i \in DOMAIN doc.lines : Heads(doc, doc.lines[i])}
Heading(doc, i) == IF DOMAIN doc.styled # {} THEN doc.styled[i] ELSE doc.lines[i]

Level(line) ==
    CASE line.mark = "#" \/ (line.mark = "" /\ line.shape = "numbered") -> line.depth
      [] line.mark = "**" \/ line.shape \in {"named", "titled"} -> 2
      [] line.shape = "lettered" -> 3
      [] OTHER -> 1

Title(line) == IF line.shape \in {"numbered", "lettered"} THEN Tail(line.words) ELSE line.words

\* The first words of a page, kept where they lead three pages at least.
FirstWords(doc, page) ==
    LET told == {i \in DOMAIN doc.lines \cap (page.start..page.end) : ~ Blank(doc.lines[i])}
    IN IF told = {} THEN << >> ELSE doc.lines[Min(told)].words
RunningHeader(doc, page) ==
    LET first == FirstWords(doc, page)
    IN IF Cardinality({p \in ToSet(doc.pages) : FirstWords(doc, p) = first}) >= 3
       THEN first ELSE << >>

PageOf(doc, i) == {p \in ToSet(doc.pages) : p.start <= i /\ i <= p.end}

Place(n) == <<"s" \o Numeral[n]>>
Named(line, n) ==
    CASE line.shape = "numbered" -> <<line.number>>
      [] line.shape = "named" -> <<line.label, line.number>>
      [] line.shape = "lettered" -> <<line.label>>
      [] line.shape = "extra" -> line.words
      [] OTHER -> Place(n)

\* Mutant of Unique: a repeated id is kept as it is.
UniqueAsIs(bases, n) == bases[n]

\* The second and later of an id carry -2, -3.
Unique(bases, n) ==
    LET copy == Cardinality({m \in 1..n : bases[m] = bases[n]})
    IN IF copy = 1 THEN bases[n] ELSE Append(bases[n], Numeral[copy])

\* Where sections start: the preamble first, when the document has one, then
\* each heading.
Starts(doc) ==
    LET heads == Ascending(HeadingLines(doc))
        first == IF heads = << >> THEN Len(doc.lines) + 1 ELSE heads[1]
    IN IF \E i \in 1..(first - 1) : ~ Blank(doc.lines[i]) THEN <<1>> \o heads ELSE heads
NextStart(doc, starts, n) == IF n = Len(starts) THEN Len(doc.lines) + 1 ELSE starts[n + 1]

\* What ids are made of.
Bases(doc, starts) ==
    [n \in DOMAIN starts |->
       IF starts[n] \in HeadingLines(doc) THEN Named(Heading(doc, starts[n]), n) ELSE Place(n)]

\* The lines of the n-th that say something.
Saying(doc, starts, n) ==
    {i \in starts[n]..(NextStart(doc, starts, n) - 1) : ~ Blank(doc.lines[i])}

\* A section is up to the line before the next, trailing blank lines left out.
Section(doc, starts, bases, n) ==
    LET heading == starts[n] \in HeadingLines(doc)
        said == Saying(doc, starts, n)
        title == IF heading THEN Title(Heading(doc, starts[n])) ELSE doc.lines[Min(said)].words
        context == {RunningHeader(doc, p) : p \in PageOf(doc, starts[n])}
    IN [id |-> Unique(bases, n),
        title |-> title,
        level |-> IF heading THEN Level(Heading(doc, starts[n])) ELSE 1,
        start |-> starts[n],
        body |-> IF heading THEN starts[n] + 1 ELSE starts[n],
        end |-> Max({starts[n]} \cup said),
        context |-> UNION {ToSet(h) : h \in context \ {title}}]
Sections(doc) ==
    LET starts == Starts(doc)
        bases == Bases(doc, starts)
    IN [n \in DOMAIN starts |-> Section(doc, starts, bases, n)]

SectionText(lines, range) == SubSeq(lines, range.start, Min({range.end, Len(lines)}))

\* The first line of its body, its title where it has none.
Summary(lines, s) ==
    LET told == {i \in s.body..s.end : ~ Blank(lines[i])}
    IN IF told = {} THEN s.title ELSE lines[Min(told)].words

\* The first MaxListed are listed; over the budget they all lose their
\* summaries, and none is left out on its account.
Rendered(sections, budget) ==
    LET kept == SubSeq(sections, 1, Min({MaxListed, Len(sections)}))
    IN [listed |-> kept, summaries |-> 2 * Len(kept) <= budget, quoted |-> << >>,
        omitted |-> Len(sections) - Len(kept)]

-----------------------------------------------------------------------------
(* Section references and heading matches. *)

NoNumber == [label |-> "none", number |-> "none"]
IdHalves(id) ==
    LET label == IF Len(id) >= 2 /\ id[1] \notin Digits /\ id[2] \in Enumerations
                 THEN id[1] ELSE "none"
        rest == IF label = "none" THEN id ELSE Tail(id)
    IN IF /\ rest # << >> /\ rest[1] \in Enumerations
          /\ Len(rest) = 1 \/ (Len(rest) = 2 /\ rest[2] \in Digits)
       THEN [label |-> label, number |-> rest[1]] ELSE NoNumber

Ref(label, number) ==
    [label |-> IF label \in Generic THEN "none" ELSE label, number |-> number,
     raw |-> << >>, mark |-> FALSE]
Rest(ask, ref) ==
    IF ref.mark THEN Words(SelectSeq(ask, LAMBDA p : p.marked # ref.raw))
    ELSE Without(Words(ask), ref.raw)

FirstOfEach(refs) ==
    {refs[i] : i \in {j \in DOMAIN refs : \A k \in 1..(j - 1) :
                        refs[k].label # refs[j].label \/ refs[k].number # refs[j].number}}

\* "Example 21", "section 21", "§21"; the first of each label and number.
SectionRefs(ask) ==
    LET Labelled(i) == /\ i < Len(ask) /\ ask[i].word \in Labels
                       /\ ask[i + 1].word \in Enumerations
        labelled == [i \in DOMAIN ask |->
            IF Labelled(i)
            THEN <<[Ref(ask[i].word, ask[i + 1].word) EXCEPT !.raw = <<ask[i].word, ask[i + 1].word>>]>>
            ELSE << >>]
        marked == [i \in DOMAIN ask |->
            IF ask[i].marked = << >> THEN << >>
            ELSE LET halves == IdHalves(ask[i].marked)
                     ref == IF halves = NoNumber THEN Ref("none", ask[i].marked[1])
                            ELSE Ref(halves.label, halves.number)
                 IN <<[ref EXCEPT !.raw = ask[i].marked, !.mark = TRUE]>>]
    IN FirstOfEach(FlattenSeq(labelled) \o FlattenSeq(marked))

\* Numbers agree, and labels where both sides carry one; an id that carries no
\* number is matched by its title.
Matches(s, ref) ==
    LET halves == IdHalves(s.id)
    IN IF halves = NoNumber THEN ~ ref.mark /\ Includes(s.title, ref.raw)
       ELSE /\ halves.number = ref.number
            /\ "none" \in {ref.label, halves.label} \/ ref.label = halves.label

HeadingMatch(title, ask) ==
    LET significant == ToSet(title) \ Minor
        matched == significant \cap ToSet(Words(ask))
    IN CASE significant = {} -> "none"
         [] significant # {} /\ Includes(Words(ask), title) -> "exact"
         [] OTHER -> IF matched = significant /\ Cardinality(significant) >= 2 THEN "strong"
                     ELSE IF Cardinality(matched) >= 2 \/ matched = significant THEN "partial"
                     ELSE "none"

TierRank == [ref |-> 4, exact |-> 3, strong |-> 2, partial |-> 1, none |-> 0]

\* Of several candidates the ask's other words pick one, or none does.
Agreement(s, ask, ref) ==
    Cardinality(((ToSet(s.title) \cup s.context) \ (Minor \cup Single))
                \cap ToSet(Rest(ask, ref)))
BestAgreed(candidates, ask, ref) ==
    {s \in candidates : /\ Agreement(s, ask, ref) > 0
                        /\ \A t \in candidates \ {s} :
                             Agreement(s, ask, ref) > Agreement(t, ask, ref)}
Resolve(candidates, best, ref) ==
    [ref |-> ref, candidates |-> candidates,
     discriminated |-> Cardinality(candidates) = 1 \/ best # {},
     chosen |-> IF best # {} THEN CHOOSE s \in best : TRUE
                ELSE CHOOSE s \in candidates : \A t \in candidates : s.start <= t.start]
Candidates(sections, ref) == {s \in ToSet(sections) : Matches(s, ref)}
Resolutions(sections, ask) ==
    {Resolve(Candidates(sections, r), BestAgreed(Candidates(sections, r), ask, r), r) :
       r \in {ref \in SectionRefs(ask) : Candidates(sections, ref) # {}}}

-----------------------------------------------------------------------------
(* Ranking, over the stored lines of an artifact. *)

Hits(line, keywords) == Cardinality({i \in DOMAIN line.words : line.words[i] \in keywords})

BodyHits(body, ask) == SumFunction([i \in DOMAIN body |-> Hits(body[i], Keywords(ask))])
Score(artifact, s, ask, resolutions) ==
    [section |-> s,
     tier |-> TierRank[IF \E r \in resolutions : s \in r.candidates THEN "ref"
                       ELSE HeadingMatch(s.title, ask)],
     refRank |-> IF \E r \in resolutions : s = r.chosen THEN 2
                 ELSE IF \E r \in resolutions : s \in r.candidates THEN 1 ELSE 0,
     body |-> BodyHits(SectionText(artifact.lines, s), ask)]
ScoresOf(artifact, ask, resolutions) ==
    {Score(artifact, s, ask, resolutions) : s \in ToSet(artifact.sections)}
Scores(artifact, ask) == ScoresOf(artifact, ask, Resolutions(artifact.sections, ask))

\* Mutant of Above: body volume decides.
AboveByBody(a, b) == a.body > b.body

\* Identity first, body volume last.
Above(a, b) ==
    \/ a.tier > b.tier
    \/ a.tier = b.tier /\ a.refRank > b.refRank
    \/ a.tier = b.tier /\ a.refRank = b.refRank /\ a.body > b.body
Ranked(scores) ==
    InOrder(scores, LAMBDA a, b : Above(a, b) \/ (~ Above(b, a) /\ a.section.start < b.section.start))

\* The sections a served document includes for an ask, in document order.
MatchedSections(artifact, ask) ==
    LET scored == Ranked({x \in Scores(artifact, ask) : x.tier > 0 \/ x.body > 0})
        kept == {scored[i].section : i \in 1..Min({MaxQuoted, Len(scored)})}
    IN SetToSortSeq(kept, LAMBDA s, t : s.start < t.start)

\* The lines of an artifact's sections that carry a keyword.
SectionHits(artifact, ask) ==
    {h \in ToSet(artifact.sections) \X DOMAIN artifact.lines :
       /\ h[1].start <= h[2] /\ h[2] <= h[1].end
       /\ Hits(artifact.lines[h[2]], Keywords(ask)) > 0}

\* A document of the ranking: identity, then hits, then body volume, then path.
Standing(doc, scores, hits) ==
    [doc |-> doc, scores |-> scores, hits |-> hits,
     key |-> <<Max({0} \cup {x.tier : x \in scores}),
               Cardinality({x \in scores : x.refRank = 2}),
               Cardinality(hits),
               SumFunction([x \in scores |-> x.body])>>]
Tier(standing) == standing.key[1]
Precedes(a, b) ==
    \/ \E i \in DOMAIN a.key : /\ a.key[i] > b.key[i]
                             /\ \A j \in 1..(i - 1) : a.key[j] = b.key[j]
    \/ a.key = b.key /\ a.doc < b.doc

\* library: the artifacts of a corpus, in path order. Those the store has no
\* more and those that have nothing to say are left out.
StandingOf(library, d, ask) == Standing(d, Scores(library[d], ask), SectionHits(library[d], ask))
RankDocuments(library, stored, ask) ==
    InOrder({x \in {StandingOf(library, d, ask) : d \in DOMAIN library \cap stored} :
               x.hits # {} \/ Tier(x) > 0}, Precedes)

-----------------------------------------------------------------------------
(* What is stored. *)

\* Redaction puts one line where a block of secret lines stood.
Redacted(lines) ==
    LET kept == Ascending({i \in DOMAIN lines : ~ lines[i].secret \/ i = 1 \/ ~ lines[i - 1].secret})
        Line(i) == IF lines[i].secret
                   THEN [lines[i] EXCEPT !.secret = FALSE, !.shape = "plain", !.mark = "",
                                         !.words = <<"redacted">>]
                   ELSE lines[i]
    IN [n \in DOMAIN kept |-> Line(kept[n])]

\* Mutant of Ingested: the sections are those of the extracted text.
IngestedEarly(doc) ==
    LET lines == Redacted(doc.lines)
    IN [mapped |-> lines, lines |-> lines, pages |-> doc.pages,
        sections |-> Sections(doc), sources |-> << >>]

\* The vault maps the redacted text; the hook's build and the daemon's distill
\* map the extracted one. Both store the redacted text.
Ingested(doc) ==
    LET redacted == [doc EXCEPT !.lines = Redacted(doc.lines)]
    IN [mapped |-> redacted.lines, lines |-> redacted.lines, pages |-> doc.pages,
        sections |-> Sections(redacted), sources |-> << >>]
Prepared(doc) ==
    [mapped |-> doc.lines, lines |-> Redacted(doc.lines), pages |-> doc.pages,
     sections |-> Sections(doc), sources |-> << >>]

-----------------------------------------------------------------------------
(* What is served in the stored text's place, if the gates let it. *)

Told(lines) == {i \in DOMAIN lines : ~ Blank(lines[i])}
WordsOf(lines) == UNION {ToSet(lines[i].words) : i \in DOMAIN lines}
Quote(lines, s) == SubSeq(SectionText(lines, s), 1, Min({MaxQuotedLines, s.end + 1 - s.start}))

\* doc-skeleton: the map alone, made to fit the size gate.
SkeletonDistill(artifact) ==
    Rendered(artifact.sections, (38 * LineSize * Cardinality(Told(artifact.mapped))) \div 100)

\* doc-serve: the whole map, and the sections the ask matches.
ServeDistill(artifact, matched) ==
    [listed |-> artifact.sections, summaries |-> TRUE, quoted |-> matched, omitted |-> 0]

SaidIn(lines, text) ==
    UNION {ToSet(s.id) \cup ToSet(s.title) \cup (IF text.summaries THEN ToSet(Summary(lines, s)) ELSE {}) :
             s \in ToSet(text.listed)}
    \cup UNION {WordsOf(Quote(lines, s)) : s \in ToSet(text.quoted)}
Bulk(lines, text) ==
    (IF text.summaries THEN 2 ELSE 1) * Len(text.listed)
    + SumFunction([n \in DOMAIN text.quoted |-> LineSize * Cardinality(Told(Quote(lines, text.quoted[n])))])

\* The region is what the ask matched, in full; without that, the headings.
Region(lines, sections, matched) ==
    IF matched # << >> THEN UNION {WordsOf(SectionText(lines, s)) : s \in ToSet(matched)}
    ELSE UNION {ToSet(lines[s.start].words) : s \in ToSet(sections)}

\* Every entity of the region is said; a map takes at most two fifths of the
\* text, a serve six fifths.
GatesPassed(lines, text, region, fifths) ==
    /\ lines # << >> /\ text.listed # << >>
    /\ region \cap Entities \subseteq SaidIn(lines, text)
    /\ 5 * Bulk(lines, text) <= fifths * LineSize * Cardinality(Told(lines))

Raw == [served |-> "raw"]
Gated(artifact, text, matched, fifths) ==
    IF GatesPassed(artifact.mapped, text, Region(artifact.mapped, artifact.sections, matched), fifths)
    THEN [served |-> "distilled", text |-> text] ELSE Raw
SkeletonOf(artifact) == Gated(artifact, SkeletonDistill(artifact), << >>, 2)
ServedFor(artifact, matched) == Gated(artifact, ServeDistill(artifact, matched), matched, 6)

-----------------------------------------------------------------------------
(* A zoom with a query. *)

\* The lines within two of a match; nothing, where none matches.
Window(lines, phrase) ==
    {j \in DOMAIN lines : \E i \in DOMAIN lines :
       Includes(lines[i].words, phrase) /\ i <= j + 2 /\ j <= i + 2}
TextWindows(lines, words) ==
    LET whole == Window(lines, words)
        keep == IF whole # {} THEN whole
                ELSE UNION {Window(lines, <<w>>) : w \in ToSet(words)}
        order == SetToSortSeq(keep, <)
    IN [n \in DOMAIN order |-> lines[order[n]]]

\* The sections whose id a query is; without one, those whose title it is.
Exact(artifact, words) ==
    LET byId == {s \in ToSet(artifact.sections) : s.id = words}
    IN IF byId # {} THEN byId ELSE {s \in ToSet(artifact.sections) : s.title = words}

\* The sections a query's references name, and what else it says.
NamedSlice(artifact, refs) ==
    LET named == SelectSeq(artifact.sections, LAMBDA s : \E r \in refs : Matches(s, r))
    IN FlattenSeq([n \in DOMAIN named |-> SectionText(artifact.lines, named[n])])
Residual(words, refs) == FoldSet(LAMBDA r, left : Without(left, r.raw), words, refs)

PageSlice(artifact, digits) ==
    FlattenSeq([p \in DOMAIN artifact.pages |->
      IF Numeral[p] = digits THEN SectionText(artifact.lines, artifact.pages[p]) ELSE << >>])

\* A page, a section by its id or title, or the sections a reference names,
\* narrowed to what the rest of the query says where it says anything.
AsksPage(query) == Len(query) = 2 /\ query[1] = Word("page") /\ query[2].word \in Digits
DocSlice(artifact, query) ==
    LET words == Words(query)
        exact == Exact(artifact, words)
        slice == NamedSlice(artifact, SectionRefs(query))
        residual == Residual(words, SectionRefs(query))
    IN IF artifact.sections = << >> THEN << >>
       ELSE IF AsksPage(query) THEN PageSlice(artifact, query[2].word)
       ELSE IF exact # {}
       THEN SectionText(artifact.lines, CHOOSE s \in exact : \A t \in exact : s.start <= t.start)
       ELSE IF slice = << >> \/ residual = << >> \/ TextWindows(slice, residual) = << >> THEN slice
       ELSE TextWindows(slice, residual)

\* The artifact, then the documents it was found in; the whole of the artifact
\* where the query finds nothing.
ResolveQuery(artifact, query) ==
    LET all == <<artifact>> \o artifact.sources
        FirstOf(results) ==
            LET some == {i \in DOMAIN results : results[i] # << >>}
            IN IF some = {} THEN << >> ELSE results[Min(some)]
        slice == FirstOf([i \in DOMAIN all |-> DocSlice(all[i], query)])
        window == FirstOf([i \in DOMAIN all |-> TextWindows(all[i].lines, Words(query))])
    IN CASE slice # << >> -> slice
         [] slice = << >> /\ window # << >> -> window
         [] OTHER -> artifact.lines

\* What a zoom by a section's id must return: the section as it was mapped,
\* less its secrets.
RecoversSections(artifact) ==
    \A s \in ToSet(artifact.sections) :
      ResolveQuery(artifact, <<Marked(s.id)>>) = Redacted(SectionText(artifact.mapped, s))

\* Every line that says something is of one section and no other.
Covered(artifact) ==
    LET sections == artifact.sections
    IN /\ \A i \in Told(artifact.mapped) : \E s \in ToSet(sections) : s.start <= i /\ i <= s.end
       /\ \A n, m \in DOMAIN sections : n < m => sections[n].end < sections[m].start

\* What is served in a document's place names every section that it does not
\* quote to the end, or says how many it leaves out, and still says each entity
\* of the sections it was asked for.
Accounted(artifact, outcome, matched) ==
    outcome.served = "distilled" =>
      /\ Len(outcome.text.listed) + outcome.text.omitted = Len(artifact.sections)
      /\ \A s \in ToSet(matched) :
           WordsOf(SectionText(artifact.mapped, s)) \cap Entities \subseteq SaidIn(artifact.mapped, outcome.text)
=============================================================================
