------------------------------ MODULE Mapping ------------------------------
(***************************************************************************)
(* A document is mapped and stored, by an ingest of the vault              *)
(* (vault/ingest.ts) or by a hook's preparation (sidecar/prepare.ts), and  *)
(* from then on cited, searched and served by the engine of Documents.     *)
(***************************************************************************)
EXTENDS Documents

CONSTANTS
    Spellings,  \* what words and marks are made of
    Texts,      \* documents, as they are extracted
    Extraction, \* "ingest", or who maps the text before its redaction
    Sought      \* what a distillate is served for

Lines == [mark : Spellings, depth : Nat, shape : Spellings, label : Spellings, number : Spellings,
          words : Seq(Spellings), secret : BOOLEAN]

\* The text that an ingest maps.
Text(doc) == [doc EXCEPT !.lines = Redacted(doc.lines)]

\* Headings say something, and those the document names by line are on its
\* lines, also when the redaction has made it shorter.
Readable(doc) ==
    /\ doc \in [kind : Spellings, lines : Seq(Lines), styled : [DOMAIN doc.styled -> Lines],
                pages : Seq([start : Nat, end : Nat])]
    /\ HeadingLines(Text(doc)) \subseteq DOMAIN Text(doc).lines
    /\ \A i \in HeadingLines(Text(doc)) : ~ Blank(Heading(Text(doc), i))
    /\ 1..(Len(doc.lines) + 1) \subseteq DOMAIN Numeral

\* A heading spells the id of another with a number after it, which a repeated
\* heading of that id gets too. Only a heading that a corpus configures can.
Spelled(doc) ==
    LET bases == Bases(Text(doc), Starts(Text(doc)))
    IN \E n, m \in DOMAIN bases : \E k \in DOMAIN Numeral \ {0, 1} :
         bases[m] = Append(bases[n], Numeral[k])

\* The headings that a document names are its lines', and no secret before them
\* moves them.
InPlace(doc) ==
    \A i \in DOMAIN doc.styled :
      /\ i \in DOMAIN doc.lines /\ doc.styled[i].words = doc.lines[i].words
      /\ \A j \in 1..i : ~ doc.lines[j].secret

ASSUME MappingAssumption ==
    /\ {"", "plain", "redacted"} \subseteq Spellings
    /\ \A doc \in Texts : Readable(doc)

VARIABLE artifact  \* the document as it is stored, and its map

Unmapped == [sections |-> << >>]
MappingInit == artifact = Unmapped
Map == /\ artifact = Unmapped
       /\ \E doc \in Texts : artifact' = IF Extraction = "ingest" THEN Ingested(doc) ELSE Prepared(doc)
MappingSpec == MappingInit /\ [][Map]_artifact

-----------------------------------------------------------------------------
\* Every section of a stored document is recovered whole by a zoom on its id, and
\* by no other section's, however its headings repeat and wherever secrets stood;
\* every line is of one section; and a map or a distillate served in its place
\* accounts for all of them (docs.ts, distill.ts, gates.ts).
SectionsRecovered ==
    artifact # Unmapped =>
      /\ Covered(artifact)
      /\ RecoversSections(artifact)
      /\ Accounted(artifact, SkeletonOf(artifact), << >>)
      /\ LET matched == MatchedSections(artifact, Sought)
         IN Accounted(artifact, ServedFor(artifact, matched), matched)

\* What the code says of its ids (docs.ts): with the second and later of an id
\* suffixed -2, -3, no two sections of a stored document have one id.
CitationsUnambiguous ==
    artifact # Unmapped =>
      \A n, m \in DOMAIN artifact.sections : artifact.sections[n].id = artifact.sections[m].id => n = m

\* What an ingest says of its map (ingest.ts): built over the text that is
\* stored, its sections are of that text's lines and start at their headings there.
HeadingsLead ==
    artifact # Unmapped =>
      \A s \in ToSet(artifact.sections) :
        /\ s.start \in DOMAIN artifact.lines
        /\ s.body > s.start => ToSet(s.title) \subseteq ToSet(artifact.lines[s.start].words)
=============================================================================
