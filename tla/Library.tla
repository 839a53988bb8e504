------------------------------ MODULE Library ------------------------------
(***************************************************************************)
(* A corpus of the vault over time: ingestion brings its documents into    *)
(* the store and the document index, mining graduates what is asked about  *)
(* again and again, and a codex emission numbers what it saw of both, for  *)
(* a client to paste and a later ask to hold against the current version   *)
(* (vault/ingest.ts, miner.ts, codex.ts, corpus.ts, tools.ts).             *)
(*                                                                         *)
(* Ingestion, mining and emission run in the CLI or, emission, in the      *)
(* server, which keeps the documents it found when it mounted the corpus.  *)
(* A document's content stands for its bytes and for the sections a        *)
(* version of the detector makes of them.                                  *)
(***************************************************************************)
EXTENDS Naturals, FiniteSets, Sequences

CONSTANTS Docs, Contents,
          Unreadable,   \* contents no text is extracted from: a scan, or too large
          Ingests,      \* ingest runs that may be at work at once
          Emitters,     \* the server, and CLI runs
          Server, None,
          Identities, Topics,
          MaxChanges, MaxAsks, MaxEmissions

Entries == [content : Contents, detector : {1, 2}]
Indexes == [Docs -> Entries \cup {None}]

\* What a codex block is rendered from, and what vault-codex.json keeps of it.
Views == [docs : [Docs -> (SUBSET Entries) \cup {None}], graduated : SUBSET Topics]
States == [version : Nat, content : Views]

ASSUME LibraryAssumption ==
    /\ Unreadable \subseteq Contents
    /\ Server \in Emitters
    /\ None \notin Contents \cup States
    /\ {MaxChanges, MaxAsks, MaxEmissions} \subseteq Nat

\* GRADUATE_MIN_SESSIONS, GRADUATE_MIN_OCCURRENCES
MinSessions == 2
MinOccurrences == 3

VARIABLES
    disk,      \* by document: its content, or None
    detector,  \* DETECTOR_VERSION of the installed code
    store,     \* <<document, content>> of the artifacts
    index,     \* the document index: by document its entry, or None
    job,       \* by ingest run: what it has read and built
    asked,     \* the vault.ask events of the trail: what, by whom
    graduated, \* the entries of vault-graduated.json
    codex,     \* vault-codex.json: [version, content], or None
    mounted,   \* the documents the server found
    emission,  \* by emitter: what it has read
    issued,    \* every [version, content] ever emitted
    spent,     \* what is used up of the bounds
    settled    \* ghosts: an ingest has seen every change; no emission was disturbed

corpus == <<disk, detector, store, index, job>>
vars == <<corpus, asked, graduated, codex, mounted, emission, issued, spent, settled>>

Empty == [d \in Docs |-> None]

Init ==
    /\ disk \in [Docs -> Contents]
    /\ detector = 1
    /\ store = {}
    /\ index = Empty
    /\ job = [i \in Ingests |-> None]
    /\ asked = << >>
    /\ graduated = {}
    /\ codex = None
    /\ mounted = Empty
    /\ emission = [e \in Emitters |-> None]
    /\ issued = {}
    /\ spent = [changes |-> 0, emissions |-> 0]
    /\ settled = [ingested |-> FALSE, versioned |-> TRUE]

-----------------------------------------------------------------------------
(* What changes around the corpus. *)

Changed(ghost) ==
    /\ spent.changes < MaxChanges
    /\ spent' = [spent EXCEPT !.changes = @ + 1]
    /\ settled' = ghost
Restless ==
    /\ Changed([settled EXCEPT !.ingested = FALSE])
    /\ job' = [i \in Ingests |-> IF job[i] = None THEN None ELSE [job[i] EXCEPT !.clean = FALSE]]
    /\ UNCHANGED <<store, index, asked, graduated, codex, mounted, emission, issued>>

Edit(d) ==
    /\ Restless
    /\ \E c \in (Contents \cup {None}) \ {disk[d]} : disk' = [disk EXCEPT ![d] = c]
    /\ UNCHANGED detector

Upgrade ==
    /\ Restless
    /\ detector = 1 /\ detector' = 2
    /\ UNCHANGED disk

\* vault-codex.json is deleted, or torn: readCodexState finds no prior.
Lose ==
    /\ codex # None
    /\ Changed([settled EXCEPT !.versioned = FALSE])
    /\ codex' = None
    /\ UNCHANGED <<corpus, asked, graduated, mounted, emission, issued>>

-----------------------------------------------------------------------------
(* redutok-vault ingest. *)

\* The prior index is read first. The ghost: nothing has changed since.
StartIngest(i) ==
    /\ job[i] = None
    /\ job' = [job EXCEPT ![i] = [prior |-> index, left |-> Docs, built |-> Empty, clean |-> TRUE]]
    /\ UNCHANGED <<disk, detector, store, index, asked, graduated, codex, mounted, emission,
                   issued, spent, settled>>

\* Mutant of UpToDate: the hash alone.
UpToDateByHash(prior, d) == prior # None /\ prior.content = disk[d]

UpToDate(prior, d) == prior = [content |-> disk[d], detector |-> detector]

\* A document keeps its entry, or is extracted, redacted, mapped and stored
\* anew; an unreadable one has an entry and no artifact.
Ingest(i, d) ==
    /\ job[i] # None /\ d \in job[i].left
    /\ LET kept == UpToDate(job[i].prior[d], d)
       IN /\ job' = [job EXCEPT ![i].left = @ \ {d},
                       ![i].built[d] = IF disk[d] = None THEN None
                                       ELSE IF kept THEN job[i].prior[d]
                                       ELSE [content |-> disk[d], detector |-> detector]]
          /\ store' = store \cup (IF kept \/ disk[d] \in Unreadable \cup {None} THEN {}
                                  ELSE {<<d, disk[d]>>})
    /\ UNCHANGED <<disk, detector, index, asked, graduated, codex, mounted, emission, issued,
                   spent, settled>>

\* The index is written once all is stored, and PROVENANCE.json, which only
\* repeats it, after.
FinishIngest(i) ==
    /\ job[i] # None /\ job[i].left = {}
    /\ index' = job[i].built
    /\ job' = [job EXCEPT ![i] = None]
    /\ settled' = [settled EXCEPT !.ingested = job[i].clean]
    /\ UNCHANGED <<disk, detector, store, asked, graduated, codex, mounted, emission, issued, spent>>

IngestDies(i) ==
    /\ job[i] # None
    /\ job' = [job EXCEPT ![i] = None]
    /\ UNCHANGED <<disk, detector, store, index, asked, graduated, codex, mounted, emission,
                   issued, spent, settled>>

-----------------------------------------------------------------------------
(* Asks, and redutok-vault mine. *)

Ask(id, topic) ==
    /\ Len(asked) < MaxAsks
    /\ asked' = Append(asked, [of |-> id, topic |-> topic])
    /\ UNCHANGED <<corpus, graduated, codex, mounted, emission, issued, spent, settled>>

\* The sections that the evidence of an ask's answer cites.
Touched(k) == asked[k].topic

\* The whole trail is read each time. Zoom events name no document, so asks
\* are all there is to bucket.
Bucket(topic) == {k \in DOMAIN asked : Touched(k) = topic}

\* Mutant of Graduates: the sessions of the latest asks only.
GraduatesLately(topic) ==
    /\ Cardinality(Bucket(topic)) >= MinOccurrences
    /\ Cardinality({asked[k].of : k \in {k \in Bucket(topic) : k > Len(asked) - MinOccurrences}})
            >= MinSessions

Graduates(topic) ==
    /\ Cardinality(Bucket(topic)) >= MinOccurrences
    /\ Cardinality({asked[k].of : k \in Bucket(topic)}) >= MinSessions

Mine ==
    /\ graduated' = {t \in Topics : Graduates(t)}
    /\ UNCHANGED <<corpus, asked, codex, mounted, emission, issued, spent, settled>>

-----------------------------------------------------------------------------
(* Codex emission. *)

Mount ==
    /\ emission[Server] = None
    /\ mounted' = index
    /\ UNCHANGED <<corpus, asked, graduated, codex, emission, issued, spent, settled>>

\* corpusHashInput: the documents, with the sections of those that have any,
\* and what has graduated.
Seen(e) ==
    LET ix == IF e = Server THEN mounted ELSE index
    IN [docs |-> [d \in Docs |-> IF ix[d] = None THEN None
                                 ELSE IF ix[d].content \in Unreadable THEN {} ELSE {ix[d]}],
        graduated |-> graduated]

StartEmission(e) ==
    /\ emission[e] = None /\ spent.emissions < MaxEmissions
    /\ emission' = [emission EXCEPT ![e] = [prior |-> codex, content |-> Seen(e)]]
    /\ spent' = [spent EXCEPT !.emissions = @ + 1]
    /\ UNCHANGED <<corpus, asked, graduated, codex, mounted, issued, settled>>

\* Mutant of Same: the documents alone.
SameDocuments(prior, content) == prior # None /\ prior.content.docs = content.docs

Same(prior, content) == prior # None /\ prior.content = content

\* The ghost: another process wrote the state since this one read it.
FinishEmission(e) ==
    /\ emission[e] # None
    /\ LET prior == emission[e].prior
           content == emission[e].content
           version == IF Same(prior, content) THEN prior.version
                      ELSE IF prior = None THEN 1 ELSE prior.version + 1
           state == [version |-> version, content |-> content]
       IN /\ codex' = IF prior = state THEN codex ELSE state
          /\ issued' = issued \cup {state}
          /\ settled' = [settled EXCEPT !.versioned = @ /\ codex = prior]
    /\ emission' = [emission EXCEPT ![e] = None]
    /\ UNCHANGED <<corpus, asked, graduated, mounted, spent>>

\* vault_codex and redutok-vault codex are at it alike.
Emit(e) == StartEmission(e) \/ FinishEmission(e)

\* What an ask is told that came with the version of a pasted block.
StaleCodexNotice(version) == codex # None /\ codex.version > version

Next ==
    \/ \E d \in Docs : Edit(d)
    \/ Upgrade
    \/ Lose
    \/ \E i \in Ingests :
         \/ StartIngest(i)
         \/ \E d \in Docs : Ingest(i, d)
         \/ FinishIngest(i)
         \/ IngestDies(i)
    \/ \E id \in Identities, t \in Topics : Ask(id, t)
    \/ Mine
    \/ Mount
    \/ \E e \in Emitters : Emit(e)

Spec == Init /\ [][Next]_vars

-----------------------------------------------------------------------------
(* Properties. *)

\* The index never names a document whose text is not in the store, wherever an
\* ingest died, and the server, which mounted an older index, finds its texts as
\* well; and once an ingest that nothing disturbed is through, the index is that
\* of the documents as they are, mapped by the detector installed (runIngest).
IndexCurrent ==
    /\ \A ix \in {index, mounted} : \A d \in Docs :
          ix[d] # None /\ ix[d].content \notin Unreadable => <<d, ix[d].content>> \in store
    /\ settled.ingested => \A d \in Docs :
          index[d] = IF disk[d] = None THEN None ELSE [content |-> disk[d], detector |-> detector]

\* A version names one content: as long as vault-codex.json is not lost and no two
\* processes emit at once, blocks of one version were rendered from the same
\* documents, sections and graduated entries, whichever process emitted them, and
\* whoever asks with a block that is not the current one is told so (emitCodex,
\* staleCodexNotice).
VersionNamesContent ==
    settled.versioned =>
        /\ \A x, y \in issued : x.version = y.version => x = y
        /\ codex # None => \A x \in issued : x = codex \/ StaleCodexNotice(x.version)

\* What has graduated stays graduated, however much is asked and mined afterwards:
\* the recurrence of a neighborhood is not forgotten (mineVault).
GraduatedStays == [][graduated \subseteq graduated']_graduated
=============================================================================
