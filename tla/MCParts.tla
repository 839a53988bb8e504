------------------------------ MODULE MCParts ------------------------------
(***************************************************************************)
(* Five parts that share no state, for TLC: a corpus of the vault, the     *)
(* mapping of one document, an exploration, the opening of a session, and  *)
(* an installation. Which of them moves is chosen at the start; the others *)
(* stay as they begin.                                                     *)
(***************************************************************************)
EXTENDS Library, Explore, Mapping, Opening, Install, TLC

CONSTANTS
    d1, a, scan, i1, server, cli, u1, u2, t1,  \* the corpus
    settings, claude, launcher,                \* the installation
    Moving                                     \* the parts that may move

VARIABLE machine

-----------------------------------------------------------------------------
(* The corpus: a document that is a text, a scan, or gone. *)

MCDocs == {d1}
MCContents == {a, scan}
MCUnreadable == {scan}
MCIngests == {i1}
MCEmitters == {server, cli}
MCIdentities == {u1, u2}
MCTopics == {t1}
Symmetry == Permutations(MCIdentities)

-----------------------------------------------------------------------------
(* Words, lines and documents. *)

MCEnumerations == {"1", "2", "5"}
MCSpellings == STRING
MCNumeral == [n \in 0..10 |-> ToString(n)]
MCDigits == {"1", "2", "3", "5"}
MCLabels == {"example", "part", "section"}
MCGeneric == {"section"}
MCMinor == {"the"}
MCSingle == {"a", "1", "2", "3", "5"}
MCShort == {"the", "of"} \cup MCSingle

MCEntities == {"salt", "1"}

Line(mark, shape, label, number, words) ==
    [mark |-> mark, depth |-> 2, shape |-> shape, label |-> label, number |-> number,
     words |-> words, secret |-> FALSE]
Says(words) == Line("", "plain", "", "", words)
Example(n, words) == Line("", "named", "example", n, <<"example", n>> \o words)
Part(n) == Line("", "named", "part", n, <<"part", n>>)
Caps(words) == Line("", "caps", "", "", words)
Secret == [Says(<<"key">>) EXCEPT !.secret = TRUE]

Paged(kind, lines, pages) ==
    [kind |-> kind, lines |-> lines, styled |-> << >>, pages |-> pages]
Doc(kind, lines) == Paged(kind, lines, << >>)

\* Headings with and without ids, repeated or not; bodies, blanks, secrets.
Alphabet ==
    {Says(<<>>), Says(<<"salt">>), Secret, Example("1", <<>>), Caps(<<"salt">>),
     Line("", "numbered", "", "1", <<"1", "salt">>), Line("", "lettered", "a", "", <<"a", "tanks">>),
     Line("#", "plain", "", "", <<"salt", "tanks">>), Line("**", "named", "example", "1", <<"example", "1">>)}
\* Headings of a form that a corpus configures: Ex 1, Ex 1.2.
MCConfigured ==
    {doc \in {Doc("text", lines) : lines \in [1..4 -> {Says(<<"salt">>), Line("", "extra", "", "", <<"ex", "1">>),
                                                    Line("", "extra", "", "", <<"ex", "1", "2">>)}]} : ~ Spelled(doc)}
\* A document that names its headings.
Styled(lines) ==
    [Doc("docx", lines) EXCEPT !.styled = [i \in {j \in DOMAIN lines : lines[j].shape = "caps"} |->
                                             [lines[i] EXCEPT !.mark = "#"]]]
MCStyled ==
    {doc \in {Styled(lines) : lines \in [1..4 -> {Says(<<"salt">>), Secret, Caps(<<"tanks">>)}]} :
       Readable(doc) /\ InPlace(doc)}
MCTexts ==
    {Doc(k, lines) : k \in {"text", "markdown"}, lines \in [1..4 -> Alphabet]}
    \cup MCStyled \cup MCConfigured

-----------------------------------------------------------------------------
(* Goals. *)

Tanks == Doc("text", <<Says(<<"tanks", "of", "salt">>),
                       Example("5", <<>>), Says(<<"pumps">>),
                       Caps(<<"salt">>), Says(<<"salt", "valves", "salt">>), Says(<<"salt">>),
                       Caps(<<"valves">>), Says(<<"valves", "salt">>), Says(<<"valves", "valves">>)>>)
Parts == Doc("text", <<Part("5"), Says(<<"pumps">>), Example("5", <<"pumps">>), Says(<<"pumps", "salt">>)>>)
\* A header runs over the pages of the second section.
Book == Paged("text",
              <<Example("5", <<>>), Says(<<"salt">>), Says(<<"tanks">>), Part("5"), Says(<<"pumps">>),
                Says(<<"tanks">>), Says(<<"pumps">>), Says(<<"tanks">>), Says(<<"salt">>)>>,
              <<[start |-> 1, end |-> 2], [start |-> 3, end |-> 5], [start |-> 6, end |-> 7],
                [start |-> 8, end |-> 9]>>)
Notes == Doc("text", <<Says(<<"salt", "pumps">>), Says(<<>>), Says(<<"salt">>)>>)

MCSought == <<Word("example"), Word("1")>>
Goals == {<<Word("section"), Word("5"), Word("tanks")>>,
          <<Word("example"), Word("5"), Word("salt"), Word("valves")>>,
          <<Word("section"), Word("5"), Word("pumps")>>,
          <<Marked(<<"part", "5">>), Word("salt")>>,
          <<Word("salt"), Word("valves")>>,
          <<Word("salt"), Word("1")>>,
          <<Word("the")>>}
MCLibraries == [none |-> << >>, one |-> <<Ingested(Tanks)>>, two |-> <<Ingested(Notes), Ingested(Book)>>,
                three |-> <<Ingested(Notes), Ingested(Parts), Ingested(Tanks)>>]
MCRequests ==
    {[ask |-> g, mutation |-> m, library |-> l, stored |-> s, files |-> f, unreadable |-> u,
      words |-> {"salt"}, cap |-> c] :
       g \in Goals, m \in {FALSE}, l \in DOMAIN MCLibraries,
       s \in {1..3, {1, 2}},
       f \in {<< >>, <<1, 0, 2>>, <<1, 3, 2, 1>>}, u \in {{}, {1}}, c \in {3, 6}}
    \cup {[ask |-> <<Word("salt")>>, mutation |-> TRUE, library |-> "none", stored |-> {},
           files |-> << >>, unreadable |-> {}, words |-> {}, cap |-> 3]}

-----------------------------------------------------------------------------
(* Repositories and codexes. *)

MCRepositories ==
    {[entries |-> e, pinned |-> p] :
       e \in SeqOf({[dir |-> TRUE, size |-> 0], [dir |-> FALSE, size |-> 1], [dir |-> FALSE, size |-> 3]}, 3),
       p \in {"none"}}
    \cup {[entries |-> << >>, pinned |-> "light"]}
MCCodexes ==
    {[files |-> f, learned |-> l, pitfalls |-> p, sizes |-> s, base |-> 2] :
       f \in {0, 2}, p \in BOOLEAN,
       l \in SeqOf({[confidence |-> 1, size |-> 1], [confidence |-> 2, size |-> 2]}, 2),
       s \in {sizes \in UNION {[d -> {0, 1, 3}] : d \in {{}, {"glossary", "interfaces", "keySymbols"}}} :
                \A x \in DOMAIN sizes : x = "keySymbols" \/ sizes[x] > 0}}

-----------------------------------------------------------------------------
(* The installation. *)

MCFolderOf == [f \in {settings, claude, launcher} |->
                 CASE f = settings -> "dot-claude" [] f = launcher -> "hooks" [] OTHER -> "none"]

-----------------------------------------------------------------------------
(* One part moves. *)

partsVars == <<vars, exploreVars, opened, installVars, machine, artifact>>

PartsInit ==
    /\ machine \in Moving
    /\ Init /\ (machine # "corpus" => disk = [d \in Docs |-> a])
    /\ MappingInit
    /\ ExploreInit
    /\ OpeningInit
    /\ InstallInit /\ (machine # "install" => files = [f \in Managed |-> Absent] /\ folders = {})

PartsNext ==
    /\ UNCHANGED machine
    /\ \/ machine = "corpus" /\ Next /\ UNCHANGED <<artifact, exploreVars, opened, installVars>>
       \/ machine = "document" /\ Map /\ UNCHANGED <<vars, exploreVars, opened, installVars>>
       \/ machine = "exploration" /\ ExploreNext /\ UNCHANGED <<vars, artifact, opened, installVars>>
       \/ machine = "opening" /\ OpeningNext /\ UNCHANGED <<vars, artifact, exploreVars, installVars>>
       \/ machine = "install" /\ InstallNext /\ UNCHANGED <<vars, artifact, exploreVars, opened>>

PartsSpec == PartsInit /\ [][PartsNext]_partsVars
=============================================================================
