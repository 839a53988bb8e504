----------------------------- MODULE PartsProofs -----------------------------
(***************************************************************************)
(* Five parts that share no state, as in MCParts: a corpus of the vault,   *)
(* proved for any number of documents, ingest runs, emitters, identities   *)
(* and topics; an exploration, proved for any library, questions, walks    *)
(* and caps; the opening of a session, proved for any repositories,        *)
(* codexes and budgets; an installation, proved for any managed files,     *)
(* folders, inits, removes and edits, a command dying between any two of   *)
(* its steps; and the mapping of any document.                             *)
(***************************************************************************)
EXTENDS Library, Explore, Mapping, Opening, Install, FiniteFacts, SequenceTheorems

(***************************************************************************)
(* The corpus.                                                             *)
(***************************************************************************)
-----------------------------------------------------------------------------
(* Types. *)

Jobs == [prior : Indexes, left : SUBSET Docs, built : Indexes, clean : BOOLEAN]
Emissions == [prior : States \cup {None}, content : Views]

TypeOK ==
    /\ disk \in [Docs -> Contents \cup {None}]
    /\ detector \in {1, 2}
    /\ store \subseteq Docs \X Contents
    /\ index \in Indexes
    /\ job \in [Ingests -> Jobs \cup {None}]
    /\ asked \in Seq([of : Identities, topic : Topics])
    /\ graduated \subseteq Topics
    /\ codex \in States \cup {None}
    /\ mounted \in Indexes
    /\ emission \in [Emitters -> Emissions \cup {None}]
    /\ issued \subseteq States
    /\ spent \in [changes : Nat, emissions : Nat]
    /\ settled \in [ingested : BOOLEAN, versioned : BOOLEAN]

-----------------------------------------------------------------------------
(* The invariants. *)

\* The text of every readable document that an index names is in the store,
\* also of the index a run found, and of the one it is building.
Housed(ix, st) == \A d \in Docs :
    ix[d] # None /\ ix[d].content \notin Unreadable => <<d, ix[d].content>> \in st
Stored ==
    /\ Housed(index, store) /\ Housed(mounted, store)
    /\ \A i \in Ingests : job[i] # None => Housed(job[i].prior, store) /\ Housed(job[i].built, store)

\* What a run has done since the last change is up to date.
Current(d) == IF disk[d] = None THEN None ELSE [content |-> disk[d], detector |-> detector]
Undisturbed ==
    /\ settled.ingested => \A d \in Docs : index[d] = Current(d)
    /\ \A i \in Ingests : job[i] # None /\ job[i].clean =>
          \A d \in Docs \ job[i].left : job[i].built[d] = Current(d)

\* The state file holds the highest version, and each version once.
Numbered == settled.versioned =>
    /\ \A x, y \in issued : x.version = y.version => x = y
    /\ codex = None => issued = {}
    /\ \A x \in issued : x = codex \/ x.version < codex.version

\* What has graduated did so by the trail as it is now.
Recurrent == \A t \in graduated : Graduates(t)

-----------------------------------------------------------------------------
(* Type correctness. *)

\* One ingest run moves on.
LEMMA JobSet ==
    ASSUME TypeOK, NEW i \in Ingests, NEW b \in Jobs \cup {None}, job' = [job EXCEPT ![i] = b]
    PROVE  job' \in [Ingests -> Jobs \cup {None}]
BY DEF TypeOK

LEMMA RestlessJobs ==
    ASSUME TypeOK, job' = [i \in Ingests |-> IF job[i] = None THEN None ELSE [job[i] EXCEPT !.clean = FALSE]]
    PROVE  job' \in [Ingests -> Jobs \cup {None}]
<1>1. ASSUME NEW i \in Ingests, job[i] # None PROVE [job[i] EXCEPT !.clean = FALSE] \in Jobs
  BY <1>1 DEF TypeOK, Jobs
<1> QED BY <1>1

LEMMA ChangedType ==
    ASSUME TypeOK, NEW g \in [ingested : BOOLEAN, versioned : BOOLEAN], Changed(g)
    PROVE  spent' \in [changes : Nat, emissions : Nat] /\ settled' = g
BY DEF Changed, TypeOK

LEMMA RestlessTyped ==
    ASSUME TypeOK, Restless, disk' \in [Docs -> Contents \cup {None}], detector' \in {1, 2} PROVE TypeOK'
<1>1. [settled EXCEPT !.ingested = FALSE] \in [ingested : BOOLEAN, versioned : BOOLEAN]
  BY DEF TypeOK
<1>2. /\ spent' \in [changes : Nat, emissions : Nat]
      /\ settled' \in [ingested : BOOLEAN, versioned : BOOLEAN]
  BY <1>1, ChangedType DEF Restless
<1>3. job' \in [Ingests -> Jobs \cup {None}]
  BY RestlessJobs DEF Restless
<1> QED BY <1>2, <1>3 DEF Restless, TypeOK

LEMMA EmptyType == Empty \in Indexes
BY DEF Empty, Indexes

\* What an ingest leaves of a document: its prior entry, if that is current,
\* or a new one.
Reused(i, d) == UpToDate(job[i].prior[d], d)
Entered(i, d) == IF disk[d] = None THEN None
                 ELSE IF Reused(i, d) THEN job[i].prior[d] ELSE [content |-> disk[d], detector |-> detector]

LEMMA IngestShape ==
    ASSUME TypeOK, NEW i \in Ingests, NEW d \in Docs, Ingest(i, d)
    PROVE  /\ Entered(i, d) = Current(d)
           /\ Entered(i, d) \in Entries \cup {None}
           /\ job[i] \in Jobs
           /\ \E b \in Jobs :
                /\ b.prior = job[i].prior
                /\ b.left = job[i].left \ {d}
                /\ b.built = [job[i].built EXCEPT ![d] = Entered(i, d)]
                /\ b.clean = job[i].clean
                /\ job' = [job EXCEPT ![i] = b]
<1>1. job[i] \in Jobs
  BY DEF Ingest, TypeOK
<1>2. disk[d] \in Contents \cup {None} /\ detector \in {1, 2}
  BY DEF TypeOK
<1>3. Entered(i, d) = Current(d)
  BY DEF Entered, Reused, UpToDate, Current
<1>4. Current(d) \in Entries \cup {None}
  BY <1>2 DEF Current, Entries
<1>5. job' = [job EXCEPT ![i].left = @ \ {d}, ![i].built[d] = Entered(i, d)]
  BY DEF Ingest, Entered, Reused
<1> DEFINE n == Entered(i, d)
           b == [job[i] EXCEPT !.left = @ \ {d}, !.built[d] = n]
<1>6. n \in Entries \cup {None}
  BY <1>3, <1>4
<1> HIDE DEF n
<1>7. job[i].built \in Indexes /\ [job[i].built EXCEPT ![d] = n] \in Indexes
  BY <1>1, <1>6 DEF Jobs, Indexes
<1>8. /\ b \in Jobs /\ b.prior = job[i].prior /\ b.left = job[i].left \ {d}
      /\ b.built = [job[i].built EXCEPT ![d] = n] /\ b.clean = job[i].clean
  BY <1>1, <1>7, ZenonT(60) DEF Jobs
<1>9. job' = [job EXCEPT ![i] = b]
  BY <1>5, ZenonT(60) DEF TypeOK, n
<1> HIDE DEF b
<1>10. \E x \in Jobs :
         /\ x.prior = job[i].prior /\ x.left = job[i].left \ {d}
         /\ x.built = [job[i].built EXCEPT ![d] = n] /\ x.clean = job[i].clean
         /\ job' = [job EXCEPT ![i] = x]
  BY <1>8, <1>9
<1> QED BY <1>1, <1>3, <1>4, <1>10 DEF n

LEMMA SeenType == ASSUME TypeOK, NEW e \in Emitters PROVE Seen(e) \in Views
<1> DEFINE ix == IF e = Server THEN mounted ELSE index
           docs == [d \in Docs |-> IF ix[d] = None THEN None
                                   ELSE IF ix[d].content \in Unreadable THEN {} ELSE {ix[d]}]
<1>1. ix \in [Docs -> Entries \cup {None}]
  BY DEF TypeOK, Indexes
<1> HIDE DEF ix
<1>2. docs \in [Docs -> (SUBSET Entries) \cup {None}]
  BY <1>1
<1>3. Seen(e) = [docs |-> docs, graduated |-> graduated]
  BY DEF Seen, ix
<1> QED BY <1>2, <1>3 DEF Views, TypeOK

\* The state that an emission writes, and whether it wrote a new one.
Version(prior, content) == IF Same(prior, content) THEN prior.version
                           ELSE IF prior = None THEN 1 ELSE prior.version + 1
State(prior, content) == [version |-> Version(prior, content), content |-> content]

LEMMA StateType ==
    ASSUME NEW prior \in States \cup {None}, NEW content \in Views
    PROVE  /\ State(prior, content) \in States
           /\ State(prior, content) # None
           /\ prior = None => State(prior, content).version = 1
           /\ prior # None => \/ State(prior, content) = prior
                              \/ State(prior, content).version = prior.version + 1
<1>1. Version(prior, content) \in Nat
  BY DEF Version, Same, States
<1>2. State(prior, content) \in States
  BY <1>1 DEF State, States
<1>3. prior # None => prior = [version |-> prior.version, content |-> prior.content]
  BY DEF States
<1> QED BY <1>2, <1>3, LibraryAssumption DEF State, Version, Same

LEMMA EmissionShape ==
    ASSUME TypeOK, NEW e \in Emitters, FinishEmission(e)
    PROVE  \E prior \in States \cup {None}, content \in Views :
             /\ codex' = IF prior = State(prior, content) THEN codex ELSE State(prior, content)
             /\ issued' = issued \cup {State(prior, content)}
             /\ settled' = [settled EXCEPT !.versioned = @ /\ codex = prior]
<1>1. emission[e] \in Emissions
  BY DEF FinishEmission, TypeOK
<1>2. emission[e].prior \in States \cup {None} /\ emission[e].content \in Views
  BY <1>1 DEF Emissions
<1> QED BY <1>2 DEF FinishEmission, State, Version

LEMMA InitTyped == Init => TypeOK
BY EmptyType DEF Init, TypeOK

LEMMA NextTyped == ASSUME TypeOK, [Next]_vars PROVE TypeOK'
<1>1. ASSUME NEW d \in Docs, Edit(d) PROVE TypeOK'
  <2>1. disk' \in [Docs -> Contents \cup {None}] /\ detector' \in {1, 2}
    BY <1>1 DEF Edit, TypeOK
  <2> QED BY <1>1, <2>1, RestlessTyped DEF Edit
<1>2. CASE Upgrade
  BY <1>2, RestlessTyped DEF Upgrade, TypeOK
<1>3. CASE Lose
  <2>1. [settled EXCEPT !.versioned = FALSE] \in [ingested : BOOLEAN, versioned : BOOLEAN]
    BY DEF TypeOK
  <2>2. /\ spent' \in [changes : Nat, emissions : Nat]
        /\ settled' \in [ingested : BOOLEAN, versioned : BOOLEAN]
    BY <1>3, <2>1, ChangedType DEF Lose
  <2> QED BY <1>3, <2>2 DEF Lose, TypeOK, corpus
<1>4. ASSUME NEW i \in Ingests, StartIngest(i) PROVE TypeOK'
  <2> DEFINE b == [prior |-> index, left |-> Docs, built |-> Empty, clean |-> TRUE]
  <2>1. b \in Jobs
    BY EmptyType DEF TypeOK, Jobs
  <2>2. job' = [job EXCEPT ![i] = b]
    BY <1>4 DEF StartIngest
  <2> HIDE DEF b
  <2> QED BY <1>4, <2>1, <2>2, JobSet DEF StartIngest, TypeOK
<1>5. ASSUME NEW i \in Ingests, NEW d \in Docs, Ingest(i, d) PROVE TypeOK'
  <2>1. job' \in [Ingests -> Jobs \cup {None}]
    BY <1>5, IngestShape, JobSet
  <2>2. store' \subseteq Docs \X Contents
    BY <1>5 DEF Ingest, TypeOK
  <2> QED BY <1>5, <2>1, <2>2 DEF Ingest, TypeOK
<1>6. ASSUME NEW i \in Ingests, FinishIngest(i) PROVE TypeOK'
  <2>1. job[i].built \in Indexes /\ job[i].clean \in BOOLEAN
    BY <1>6 DEF FinishIngest, TypeOK, Jobs
  <2>2. settled' \in [ingested : BOOLEAN, versioned : BOOLEAN]
    BY <1>6, <2>1 DEF FinishIngest, TypeOK
  <2> QED BY <1>6, <2>1, <2>2, JobSet DEF FinishIngest, TypeOK
<1>7. ASSUME NEW i \in Ingests, IngestDies(i) PROVE TypeOK'
  BY <1>7, JobSet DEF IngestDies, TypeOK
<1>8. ASSUME NEW id \in Identities, NEW t \in Topics, Ask(id, t) PROVE TypeOK'
  <2>1. asked' \in Seq([of : Identities, topic : Topics])
    BY <1>8 DEF Ask, TypeOK
  <2> QED BY <1>8, <2>1 DEF Ask, TypeOK, corpus
<1>9. CASE Mine
  BY <1>9 DEF Mine, TypeOK, corpus
<1>10. CASE Mount
  BY <1>10 DEF Mount, TypeOK, corpus
<1>11. ASSUME NEW e \in Emitters, StartEmission(e) PROVE TypeOK'
  <2> DEFINE b == [prior |-> codex, content |-> Seen(e)]
  <2>1. b \in Emissions
    BY SeenType DEF TypeOK, Emissions
  <2>2. emission' = [emission EXCEPT ![e] = b]
    BY <1>11 DEF StartEmission
  <2>3. spent' \in [changes : Nat, emissions : Nat]
    BY <1>11 DEF StartEmission, TypeOK
  <2> HIDE DEF b
  <2> QED BY <1>11, <2>1, <2>2, <2>3 DEF StartEmission, TypeOK, corpus
<1>12. ASSUME NEW e \in Emitters, FinishEmission(e) PROVE TypeOK'
  <2>1. PICK prior \in States \cup {None}, content \in Views :
          /\ codex' = IF prior = State(prior, content) THEN codex ELSE State(prior, content)
          /\ issued' = issued \cup {State(prior, content)}
          /\ settled' = [settled EXCEPT !.versioned = @ /\ codex = prior]
    BY <1>12, EmissionShape
  <2>2. State(prior, content) \in States
    BY StateType
  <2>3. settled' \in [ingested : BOOLEAN, versioned : BOOLEAN]
    BY <2>1 DEF TypeOK
  <2>4. codex' \in States \cup {None} /\ issued' \subseteq States
    BY <2>1, <2>2 DEF TypeOK
  <2> QED BY <1>12, <2>3, <2>4 DEF FinishEmission, TypeOK, corpus
<1>13. CASE UNCHANGED vars
  BY <1>13 DEF vars, corpus, TypeOK
<1> QED BY <1>1, <1>2, <1>3, <1>4, <1>5, <1>6, <1>7, <1>8, <1>9, <1>10, <1>11, <1>12, <1>13
        DEF Next, Emit

\* Every reachable state of a corpus is well typed.
THEOREM LibraryTyped == Spec => []TypeOK
<1>1. TypeOK /\ [Next]_vars => TypeOK'
  BY NextTyped
<1> QED BY <1>1, InitTyped, PTL DEF Spec

-----------------------------------------------------------------------------
(* The index and the store. *)

\* What does not concern the corpus itself.
LEMMA BesideCorpus ==
    ASSUME TypeOK, [Next]_vars
    PROVE  \/ \E d \in Docs : Edit(d)
           \/ Upgrade \/ Mount
           \/ \E i \in Ingests : StartIngest(i) \/ FinishIngest(i) \/ IngestDies(i) \/ \E d \in Docs : Ingest(i, d)
           \/ UNCHANGED <<corpus, mounted>> /\ (settled'.ingested = settled.ingested)
<1>1. CASE Lose
  <2>1. settled' = [settled EXCEPT !.versioned = FALSE]
    BY <1>1 DEF Lose, Changed
  <2> QED BY <1>1, <2>1 DEF Lose, TypeOK
<1>2. ASSUME NEW id \in Identities, NEW t \in Topics, Ask(id, t)
      PROVE  UNCHANGED <<corpus, mounted, settled>>
  BY <1>2 DEF Ask
<1>3. CASE Mine
  BY <1>3 DEF Mine
<1>4. ASSUME NEW e \in Emitters, StartEmission(e) PROVE UNCHANGED <<corpus, mounted, settled>>
  BY <1>4 DEF StartEmission
<1>5. ASSUME NEW e \in Emitters, FinishEmission(e)
      PROVE  UNCHANGED <<corpus, mounted>> /\ settled'.ingested = settled.ingested
  <2>1. PICK v : settled' = [settled EXCEPT !.versioned = v]
    BY <1>5 DEF FinishEmission
  <2> QED BY <1>5, <2>1 DEF FinishEmission, TypeOK
<1>6. CASE UNCHANGED vars
  BY <1>6 DEF vars
<1> QED BY <1>1, <1>2, <1>3, <1>4, <1>5, <1>6 DEF Next, Emit

LEMMA HousedGrows == ASSUME NEW ix, NEW st, NEW st2, Housed(ix, st), st \subseteq st2 PROVE Housed(ix, st2)
BY DEF Housed

\* A run moves on to b, and the store may grow.
LEMMA StoredSet ==
    ASSUME TypeOK, Stored, NEW i \in Ingests, NEW b, job' = [job EXCEPT ![i] = b], store \subseteq store',
           b # None => Housed(b.prior, store') /\ Housed(b.built, store'),
           Housed(index', store'), UNCHANGED mounted
    PROVE  Stored'
<1>1. job'[i] = b /\ \A k \in Ingests \ {i} : job'[k] = job[k]
  BY DEF TypeOK
<1>2. \A k \in Ingests \ {i} : job'[k] # None => Housed(job'[k].prior, store') /\ Housed(job'[k].built, store')
  BY <1>1, HousedGrows DEF Stored
<1>3. \A k \in Ingests : job'[k] # None => Housed(job'[k].prior, store') /\ Housed(job'[k].built, store')
  BY <1>1, <1>2
<1>4. Housed(mounted', store')
  BY HousedGrows DEF Stored
<1> QED BY <1>3, <1>4 DEF Stored

LEMMA RestlessKept ==
    ASSUME TypeOK, Restless, NEW i \in Ingests, job'[i] # None
    PROVE  job[i] # None /\ job'[i].prior = job[i].prior /\ job'[i].built = job[i].built /\ ~job'[i].clean
BY DEF Restless, TypeOK, Jobs

LEMMA NextStored == ASSUME TypeOK, Stored, [Next]_vars PROVE Stored'
<1>1. CASE Restless
  BY <1>1, RestlessKept DEF Restless, Stored
<1>2. CASE Mount
  BY <1>2 DEF Mount, Stored, corpus
<1>3. ASSUME NEW i \in Ingests, StartIngest(i) PROVE Stored'
  <2> DEFINE b == [prior |-> index, left |-> Docs, built |-> Empty, clean |-> TRUE]
  <2>1. Housed(Empty, store)
    BY DEF Housed, Empty
  <2>2. Housed(b.prior, store) /\ Housed(b.built, store)
    BY <2>1 DEF Stored
  <2>3. job' = [job EXCEPT ![i] = b]
    BY <1>3 DEF StartIngest
  <2> HIDE DEF b
  <2> QED BY <1>3, <2>2, <2>3, StoredSet DEF StartIngest, Stored
<1>4. ASSUME NEW i \in Ingests, NEW d \in Docs, Ingest(i, d) PROVE Stored'
  <2>1. PICK b \in Jobs :
          /\ b.prior = job[i].prior
          /\ b.built = [job[i].built EXCEPT ![d] = Entered(i, d)]
          /\ job' = [job EXCEPT ![i] = b]
    BY <1>4, IngestShape
  <2>2. Housed(job[i].prior, store) /\ Housed(job[i].built, store)
    BY <1>4 DEF Ingest, Stored
  <2>3. store \subseteq store' /\ UNCHANGED <<index, mounted>>
    BY <1>4 DEF Ingest
  <2>4. Entered(i, d) # None /\ Entered(i, d).content \notin Unreadable => <<d, Entered(i, d).content>> \in store'
    <3>1. CASE disk[d] = None
      BY <3>1 DEF Entered
    <3>2. CASE disk[d] # None /\ Reused(i, d)
      BY <2>2, <2>3, <3>2 DEF Entered, Housed
    <3>3. CASE disk[d] # None /\ ~Reused(i, d)
      <4>1. Entered(i, d) = [content |-> disk[d], detector |-> detector]
        BY <3>3 DEF Entered
      <4>2. disk[d] \notin Unreadable => <<d, disk[d]>> \in store'
        BY <1>4, <3>3 DEF Ingest, Reused
      <4> QED BY <4>1, <4>2
    <3> QED BY <3>1, <3>2, <3>3
  <2>5. job[i].built \in [Docs -> Entries \cup {None}]
    BY <1>4, IngestShape DEF Jobs, Indexes
  <2>6. Housed(b.built, store')
    BY <2>1, <2>2, <2>3, <2>4, <2>5 DEF Housed
  <2>7. Housed(b.prior, store') /\ Housed(index', store')
    BY <2>1, <2>2, <2>3, HousedGrows DEF Stored
  <2> QED BY <2>1, <2>3, <2>6, <2>7, StoredSet
<1>5. ASSUME NEW i \in Ingests, FinishIngest(i) PROVE Stored'
  BY <1>5, StoredSet DEF FinishIngest, Stored
<1>6. ASSUME NEW i \in Ingests, IngestDies(i) PROVE Stored'
  BY <1>6, StoredSet DEF IngestDies, Stored
<1>7. CASE UNCHANGED <<corpus, mounted>>
  BY <1>7 DEF corpus, Stored
<1> QED BY <1>1, <1>2, <1>3, <1>4, <1>5, <1>6, <1>7, BesideCorpus DEF Edit, Upgrade

LEMMA CurrentStays == ASSUME NEW d, UNCHANGED <<disk, detector>> PROVE Current(d)' = Current(d)
BY DEF Current

\* A run moves on to b, and the documents stay.
LEMMA UndisturbedSet ==
    ASSUME TypeOK, Undisturbed, NEW i \in Ingests, NEW b, job' = [job EXCEPT ![i] = b],
           UNCHANGED <<disk, detector>>,
           b # None /\ b.clean => \A d \in Docs \ b.left : b.built[d] = Current(d),
           settled'.ingested => \A d \in Docs : index'[d] = Current(d)
    PROVE  Undisturbed'
<1>1. job'[i] = b /\ \A k \in Ingests \ {i} : job'[k] = job[k]
  BY DEF TypeOK
<1>2. \A k \in Ingests : job'[k] # None /\ job'[k].clean =>
          \A d \in Docs \ job'[k].left : job'[k].built[d] = Current(d)
  BY <1>1 DEF Undisturbed
<1> QED BY <1>2, CurrentStays DEF Undisturbed

LEMMA NextUndisturbed == ASSUME TypeOK, Undisturbed, [Next]_vars PROVE Undisturbed'
<1>1. CASE Restless
  <2>1. ~settled'.ingested
    BY <1>1 DEF Restless, Changed, TypeOK
  <2> QED BY <1>1, <2>1, RestlessKept DEF Undisturbed
<1>2. CASE Mount
  BY <1>2, CurrentStays DEF Mount, Undisturbed, corpus
<1>3. ASSUME NEW i \in Ingests, StartIngest(i) PROVE Undisturbed'
  <2> DEFINE b == [prior |-> index, left |-> Docs, built |-> Empty, clean |-> TRUE]
  <2>1. b.left = Docs
    OBVIOUS
  <2>2. job' = [job EXCEPT ![i] = b]
    BY <1>3 DEF StartIngest
  <2> HIDE DEF b
  <2>3. UNCHANGED <<disk, detector, index, settled>>
    BY <1>3 DEF StartIngest
  <2>4. \A d \in Docs \ b.left : b.built[d] = Current(d)
    BY <2>1
  <2>5. settled'.ingested => \A d \in Docs : index'[d] = Current(d)
    BY <2>3 DEF Undisturbed
  <2> QED BY <2>2, <2>3, <2>4, <2>5, UndisturbedSet
<1>4. ASSUME NEW i \in Ingests, NEW d \in Docs, Ingest(i, d) PROVE Undisturbed'
  <2>1. PICK b \in Jobs :
          /\ b.left = job[i].left \ {d}
          /\ b.built = [job[i].built EXCEPT ![d] = Entered(i, d)]
          /\ b.clean = job[i].clean
          /\ job' = [job EXCEPT ![i] = b]
    BY <1>4, IngestShape
  <2>2. Entered(i, d) = Current(d) /\ job[i].built \in [Docs -> Entries \cup {None}]
    BY <1>4, IngestShape DEF Jobs, Indexes
  <2>3. b.clean => \A e \in Docs \ b.left : b.built[e] = Current(e)
    <3>1. job[i] # None
      BY <1>4 DEF Ingest
    <3>2. b.clean => \A e \in Docs \ job[i].left : job[i].built[e] = Current(e)
      BY <2>1, <3>1 DEF Undisturbed
    <3>3. b.built[d] = Current(d)
      BY <2>1, <2>2
    <3>4. \A e \in Docs \ {d} : b.built[e] = job[i].built[e]
      BY <2>1, <2>2
    <3> QED BY <2>1, <3>2, <3>3, <3>4
  <2>4. UNCHANGED <<disk, detector, index, settled>>
    BY <1>4 DEF Ingest
  <2> QED BY <2>1, <2>3, <2>4, UndisturbedSet DEF Undisturbed
<1>5. ASSUME NEW i \in Ingests, FinishIngest(i) PROVE Undisturbed'
  <2>1. settled'.ingested = job[i].clean
    BY <1>5 DEF FinishIngest, TypeOK
  <2>2. job[i].clean => \A d \in Docs : index'[d] = Current(d)
    BY <1>5 DEF FinishIngest, Undisturbed
  <2> QED BY <1>5, <2>1, <2>2, UndisturbedSet DEF FinishIngest
<1>6. ASSUME NEW i \in Ingests, IngestDies(i) PROVE Undisturbed'
  BY <1>6, UndisturbedSet DEF IngestDies, Undisturbed
<1>7. CASE UNCHANGED corpus /\ settled'.ingested = settled.ingested
  BY <1>7, CurrentStays DEF corpus, Undisturbed
<1> QED BY <1>1, <1>2, <1>3, <1>4, <1>5, <1>6, <1>7, BesideCorpus DEF Edit, Upgrade

\* The index, and the older one that the server mounted, never names a readable
\* document whose text is not in the store, wherever an ingest died; and after
\* an ingest that nothing disturbed, the index is that of the documents as they
\* are: the text is stored before the index is written, and an entry is kept
\* only when hash and detector both are those of now (runIngest).
THEOREM IndexFollows == Spec => []IndexCurrent
<1>1. Init => Stored /\ Undisturbed
  BY DEF Init, Stored, Housed, Empty, Undisturbed
<1>2. TypeOK /\ [Next]_vars => TypeOK'
  BY NextTyped
<1>3. TypeOK /\ Stored /\ [Next]_vars => Stored'
  BY NextStored
<1>4. TypeOK /\ Undisturbed /\ [Next]_vars => Undisturbed'
  BY NextUndisturbed
<1>5. Stored /\ Undisturbed => IndexCurrent
  BY DEF Stored, Housed, Undisturbed, Current, IndexCurrent
<1> QED BY <1>1, <1>2, <1>3, <1>4, <1>5, InitTyped, PTL DEF Spec

-----------------------------------------------------------------------------
(* The versions of the codex. *)

\* Emissions and the loss of the state file aside, versions stay.
LEMMA BesideCodex ==
    ASSUME TypeOK, [Next]_vars
    PROVE  \/ Lose
           \/ \E e \in Emitters : FinishEmission(e)
           \/ UNCHANGED <<codex, issued>> /\ settled'.versioned = settled.versioned
<1>1. CASE Restless
  <2>1. settled' = [settled EXCEPT !.ingested = FALSE] /\ UNCHANGED <<codex, issued>>
    BY <1>1 DEF Restless, Changed
  <2> QED BY <2>1 DEF TypeOK
<1>2. ASSUME NEW i \in Ingests, NEW d \in Docs, Ingest(i, d) PROVE UNCHANGED <<codex, issued, settled>>
  BY <1>2 DEF Ingest
<1>3. ASSUME NEW i \in Ingests, StartIngest(i) \/ IngestDies(i) PROVE UNCHANGED <<codex, issued, settled>>
  BY <1>3 DEF StartIngest, IngestDies
<1>4. ASSUME NEW i \in Ingests, FinishIngest(i)
      PROVE  UNCHANGED <<codex, issued>> /\ settled'.versioned = settled.versioned
  BY <1>4 DEF FinishIngest, TypeOK
<1>5. ASSUME NEW id \in Identities, NEW t \in Topics, Ask(id, t) PROVE UNCHANGED <<codex, issued, settled>>
  BY <1>5 DEF Ask
<1>6. CASE Mine \/ Mount
  BY <1>6 DEF Mine, Mount
<1>7. ASSUME NEW e \in Emitters, StartEmission(e) PROVE UNCHANGED <<codex, issued, settled>>
  BY <1>7 DEF StartEmission
<1>8. CASE UNCHANGED vars
  BY <1>8 DEF vars
<1> QED BY <1>1, <1>2, <1>3, <1>4, <1>5, <1>6, <1>7, <1>8 DEF Next, Emit, Edit, Upgrade

LEMMA NextNumbered == ASSUME TypeOK, Numbered, [Next]_vars PROVE Numbered'
<1>1. CASE Lose
  <2>1. ~settled'.versioned
    BY <1>1 DEF Lose, Changed, TypeOK
  <2> QED BY <2>1 DEF Numbered
<1>2. ASSUME NEW e \in Emitters, FinishEmission(e) PROVE Numbered'
  <2>1. PICK prior \in States \cup {None}, content \in Views :
          /\ codex' = IF prior = State(prior, content) THEN codex ELSE State(prior, content)
          /\ issued' = issued \cup {State(prior, content)}
          /\ settled' = [settled EXCEPT !.versioned = @ /\ codex = prior]
    BY <1>2, EmissionShape
  <2> DEFINE new == State(prior, content)
  <2>2. /\ new \in States /\ new # None
        /\ prior = None => new.version = 1
        /\ prior # None => new = prior \/ new.version = prior.version + 1
    BY StateType
  <2> HIDE DEF new
  <2>3. issued' = issued \cup {new} /\ codex' = (IF prior = new THEN codex ELSE new)
    BY <2>1 DEF new
  <2>4. \A x \in issued \cup {new, codex} : x # None => x.version \in Nat
    BY <2>2 DEF TypeOK, States
  <2> SUFFICES ASSUME settled'.versioned PROVE Numbered'
    BY DEF Numbered
  <2>5. settled.versioned /\ codex = prior
    BY <2>1 DEF TypeOK
  <2>6. codex' = new
    BY <2>3, <2>5
  <2>7. \A x \in issued : x = new \/ x.version < new.version
    <3>1. CASE prior = None
      BY <2>5, <3>1 DEF Numbered
    <3>2. CASE prior # None
      BY <2>2, <2>4, <2>5, <3>2, LibraryAssumption DEF Numbered, TypeOK
    <3> QED BY <3>1, <3>2
  <2>8. \A x, y \in issued' : x.version = y.version => x = y
    BY <2>2, <2>3, <2>4, <2>5, <2>7, LibraryAssumption DEF Numbered, TypeOK
  <2> QED BY <2>2, <2>3, <2>6, <2>7, <2>8 DEF Numbered
<1>3. CASE UNCHANGED <<codex, issued>> /\ settled'.versioned = settled.versioned
  BY <1>3 DEF Numbered
<1> QED BY <1>1, <1>2, <1>3, BesideCodex

\* A version names one content, and whoever asks with a block that is not the
\* current one is told so, as long as the state file is not lost and no two
\* processes emit at once: an emission takes the next number exactly when what
\* it saw is not what the state it read was rendered from (emitCodex).
THEOREM VersionsNameContents == Spec => []VersionNamesContent
<1>1. Init => Numbered
  BY DEF Init, Numbered
<1>2. TypeOK /\ [Next]_vars => TypeOK'
  BY NextTyped
<1>3. TypeOK /\ Numbered /\ [Next]_vars => Numbered'
  BY NextNumbered
<1>4. TypeOK /\ Numbered => VersionNamesContent
  BY DEF TypeOK, Numbered, VersionNamesContent, StaleCodexNotice, States
<1> QED BY <1>1, <1>2, <1>3, <1>4, InitTyped, PTL DEF Spec

-----------------------------------------------------------------------------
(* What has graduated. *)

\* The asks of a trail about a topic, and who asked them.
AboutIn(trail, topic) == {k \in DOMAIN trail : trail[k].topic = topic}
AskersIn(trail, topic) == {trail[k].of : k \in AboutIn(trail, topic)}

LEMMA GraduatesBy ==
    ASSUME NEW t
    PROVE  Graduates(t) <=> /\ Cardinality(AboutIn(asked, t)) >= MinOccurrences
                            /\ Cardinality(AskersIn(asked, t)) >= MinSessions
BY DEF Graduates, Bucket, Touched, AboutIn, AskersIn

LEMMA AboutGrows ==
    ASSUME NEW Asks, NEW trail \in Seq(Asks), NEW ask \in Asks, NEW t
    PROVE  /\ Cardinality(AboutIn(trail, t)) <= Cardinality(AboutIn(Append(trail, ask), t))
           /\ Cardinality(AskersIn(trail, t)) <= Cardinality(AskersIn(Append(trail, ask), t))
           /\ Cardinality(AboutIn(trail, t)) \in Nat
           /\ Cardinality(AboutIn(Append(trail, ask), t)) \in Nat
           /\ Cardinality(AskersIn(trail, t)) \in Nat
           /\ Cardinality(AskersIn(Append(trail, ask), t)) \in Nat
<1> DEFINE longer == Append(trail, ask)
<1>1. /\ DOMAIN trail = 1..Len(trail) /\ DOMAIN longer = 1..(Len(trail) + 1) /\ Len(trail) \in Nat
      /\ \A k \in 1..Len(trail) : longer[k] = trail[k]
  OBVIOUS
<1> HIDE DEF longer
<1>2. IsFiniteSet(1..(Len(trail) + 1))
  <2> DEFINE n == Len(trail) + 1
  <2>1. n \in Int
    BY <1>1
  <2> HIDE DEF n
  <2>2. IsFiniteSet(1..n)
    BY <2>1, FS_Interval
  <2> QED BY <2>2 DEF n
<1>3. AboutIn(trail, t) \subseteq AboutIn(longer, t) /\ AboutIn(longer, t) \subseteq 1..(Len(trail) + 1)
  BY <1>1 DEF AboutIn
<1>4. AskersIn(trail, t) \subseteq AskersIn(longer, t)
  BY <1>1, <1>3 DEF AskersIn, AboutIn
<1>5. IsFiniteSet(AboutIn(longer, t))
  BY <1>2, <1>3, FS_Subset
<1>6. IsFiniteSet(AskersIn(longer, t))
  <2> DEFINE asker == [k \in AboutIn(longer, t) |-> longer[k].of]
  <2>1. asker \in Surjection(AboutIn(longer, t), AskersIn(longer, t))
    BY DEF Surjection, AskersIn
  <2> HIDE DEF asker
  <2> QED BY <1>5, <2>1, FS_Surjection
<1>7. IsFiniteSet(AboutIn(trail, t)) /\ IsFiniteSet(AskersIn(trail, t))
  BY <1>3, <1>4, <1>5, <1>6, FS_Subset
<1>8. /\ Cardinality(AboutIn(trail, t)) <= Cardinality(AboutIn(longer, t))
      /\ Cardinality(AskersIn(trail, t)) <= Cardinality(AskersIn(longer, t))
  BY <1>3, <1>4, <1>5, <1>6, FS_Subset
<1>9. /\ Cardinality(AboutIn(trail, t)) \in Nat /\ Cardinality(AboutIn(longer, t)) \in Nat
      /\ Cardinality(AskersIn(trail, t)) \in Nat /\ Cardinality(AskersIn(longer, t)) \in Nat
  BY <1>5, <1>6, <1>7, FS_CardinalityType
<1> QED BY <1>8, <1>9 DEF longer

LEMMA NextRecurrent == ASSUME TypeOK, Recurrent, [Next]_vars PROVE Recurrent' /\ graduated \subseteq graduated'
<1>1. CASE UNCHANGED <<asked, graduated>>
  BY <1>1 DEF Recurrent, Graduates, Bucket, Touched
<1>2. ASSUME NEW id \in Identities, NEW topic \in Topics, Ask(id, topic)
      PROVE  Recurrent' /\ graduated \subseteq graduated'
  <2> DEFINE ask == [of |-> id, topic |-> topic]
             Asks == [of : Identities, topic : Topics]
  <2>1. asked' = Append(asked, ask) /\ UNCHANGED graduated
    BY <1>2 DEF Ask
  <2>2. asked \in Seq(Asks) /\ ask \in Asks
    BY DEF TypeOK
  <2> HIDE DEF ask, Asks
  <2>3. ASSUME NEW t \in graduated PROVE Graduates(t)'
    <3>1. /\ Cardinality(AboutIn(asked, t)) >= MinOccurrences
          /\ Cardinality(AskersIn(asked, t)) >= MinSessions
      BY GraduatesBy DEF Recurrent
    <3>2. /\ Cardinality(AboutIn(asked', t)) >= MinOccurrences
          /\ Cardinality(AskersIn(asked', t)) >= MinSessions
      BY <2>1, <2>2, <3>1, AboutGrows DEF MinOccurrences, MinSessions
    <3> QED BY <3>2 DEF Graduates, Bucket, Touched, AboutIn, AskersIn
  <2> QED BY <2>1, <2>3 DEF Recurrent
<1>3. CASE Mine
  <2>1. graduated' = {t \in Topics : Graduates(t)} /\ UNCHANGED asked
    BY <1>3 DEF Mine
  <2>2. graduated \subseteq graduated'
    BY <2>1 DEF Recurrent, TypeOK
  <2>3. \A t \in graduated' : Graduates(t)'
    BY <2>1 DEF Graduates, Bucket, Touched
  <2> QED BY <2>2, <2>3 DEF Recurrent
<1>4. CASE Restless \/ Lose \/ Mount \/ UNCHANGED vars
  BY <1>1, <1>4 DEF Restless, Lose, Mount, vars
<1>5. ASSUME NEW i \in Ingests, NEW d \in Docs, Ingest(i, d) PROVE UNCHANGED <<asked, graduated>>
  BY <1>5 DEF Ingest
<1>6. ASSUME NEW i \in Ingests, StartIngest(i) \/ FinishIngest(i) \/ IngestDies(i) PROVE UNCHANGED <<asked, graduated>>
  BY <1>6 DEF StartIngest, FinishIngest, IngestDies
<1>7. ASSUME NEW e \in Emitters, Emit(e) PROVE UNCHANGED <<asked, graduated>>
  BY <1>7 DEF Emit, StartEmission, FinishEmission
<1> QED BY <1>1, <1>2, <1>3, <1>4, <1>5, <1>6, <1>7 DEF Next, Edit, Upgrade

\* What has graduated stays graduated, however much is asked and mined
\* afterwards: the whole trail is read each time, and it only grows (mineVault).
THEOREM GraduatesForGood == Spec => GraduatedStays
<1>1. Init => Recurrent
  BY DEF Init, Recurrent
<1>2. TypeOK /\ [Next]_vars => TypeOK'
  BY NextTyped
<1>3. TypeOK /\ Recurrent /\ [Next]_vars => Recurrent'
  BY NextRecurrent
<1>4. TypeOK /\ Recurrent /\ [Next]_vars => [graduated \subseteq graduated']_graduated
  BY NextRecurrent
<1> QED BY <1>1, <1>2, <1>3, <1>4, InitTyped, PTL DEF Spec, GraduatedStays

(***************************************************************************)
(* An exploration.                                                         *)
(***************************************************************************)
-----------------------------------------------------------------------------
(* Sequences and smallest elements. *)

LEMMA SeqSet ==
    ASSUME NEW s, IsSeq(s)
    PROVE  /\ Len(s) \in Nat /\ DOMAIN s = 1..Len(s) /\ IsFiniteSet(DOMAIN s)
           /\ IsFiniteSet(ToSet(s)) /\ \A i \in DOMAIN s : s[i] \in ToSet(s)
<1>1. Len(s) \in Nat /\ DOMAIN s = 1..Len(s)
  BY DEF IsSeq
<1>2. IsFiniteSet(DOMAIN s)
  BY <1>1, FS_Interval
<1>3. \A i \in DOMAIN s : s[i] \in ToSet(s)
  BY DEF ToSet
<1>4. s \in Surjection(DOMAIN s, ToSet(s))
  BY <1>1, <1>3 DEF ToSet, IsSeq, Surjection
<1>5. IsFiniteSet(ToSet(s))
  BY <1>2, <1>4, FS_Surjection
<1> QED BY <1>1, <1>2, <1>3, <1>5

LEMMA MinOfTwo ==
    ASSUME NEW a \in Int, NEW b \in Int
    PROVE  Min({a, b}) = IF a <= b THEN a ELSE b
<1> DEFINE m == IF a <= b THEN a ELSE b
<1>1. m \in {a, b} /\ \A y \in {a, b} : m <= y
  OBVIOUS
<1>2. \A x \in {a, b} : (\A y \in {a, b} : x <= y) => x = m
  OBVIOUS
<1> QED BY <1>1, <1>2 DEF Min

LEMMA MaxBounded ==
    ASSUME NEW n \in Nat, NEW S, S \subseteq 0..n, S # {}
    PROVE  Max(S) \in S /\ \A y \in S : y <= Max(S)
<1>1. \E x \in S : \A y \in S : x >= y
  BY Greatest
<1> QED BY <1>1 DEF Max

-----------------------------------------------------------------------------
(* Scores and standings are numbers. *)

LEMMA HitsNat == ASSUME NEW line, IsSeq(line.words), NEW k PROVE Hits(line, k) \in Nat
<1>1. {i \in DOMAIN line.words : line.words[i] \in k} \in SUBSET DOMAIN line.words
  OBVIOUS
<1>2. IsFiniteSet({i \in DOMAIN line.words : line.words[i] \in k})
  BY <1>1, SeqSet, FS_Subset
<1> QED BY <1>2, FS_CardinalityType DEF Hits

LEMMA BodyNat ==
    ASSUME NEW map, Mapped(map), NEW s \in ToSet(map.sections), NEW ask
    PROVE  s.start \in Nat /\ BodyHits(SectionText(map.lines, s), ask) \in Nat
<1> DEFINE lines == map.lines
<1>1. /\ Len(lines) \in Nat /\ DOMAIN lines = 1..Len(lines)
      /\ \A i \in 1..Len(lines) : lines[i] \in ToSet(lines)
  BY SeqSet DEF Mapped
<1>2. s.start \in 1..Len(lines) /\ s.end \in 1..Len(lines)
  BY <1>1 DEF Mapped
<1>3. Min({s.end, Len(lines)}) = s.end
  BY <1>1, <1>2, MinOfTwo
<1> DEFINE body == SubSeq(lines, s.start, s.end)
<1>4. SectionText(lines, s) = body
  BY <1>3 DEF SectionText
<1>5. lines \in Seq(ToSet(lines))
  BY DEF Mapped, IsSeq
<1>6. /\ DOMAIN body = 1..(s.end - s.start + 1)
      /\ \A i \in DOMAIN body : body[i] = lines[i + s.start - 1]
  BY <1>1, <1>2, <1>5
<1>7. ASSUME NEW i \in DOMAIN body PROVE IsSeq(body[i].words)
  <2>1. i + s.start - 1 \in 1..Len(lines)
    BY <1>1, <1>2, <1>6, SMTT(30)
  <2> QED BY <1>1, <1>6, <2>1 DEF Mapped
<1> HIDE DEF body
<1> DEFINE f == [i \in DOMAIN body |-> Hits(body[i], Keywords(ask))]
<1>8. \A i \in DOMAIN body : f[i] \in Nat
  BY <1>7, HitsNat
<1>9. IsFiniteSet(DOMAIN body)
  BY <1>2, <1>6, FS_Interval
<1>10. SumOf(f, DOMAIN body) \in Nat
  <2> HIDE DEF f
  <2> QED BY <1>8, <1>9, SumNat
<1>11. BodyHits(body, ask) = SumOf(f, DOMAIN body)
  BY DEF BodyHits, SumFunction, SumOf
<1> QED BY <1>2, <1>4, <1>10, <1>11

LEMMA TierRanks ==
    /\ TierRank["ref"] = 4 /\ TierRank["exact"] = 3 /\ TierRank["strong"] = 2
    /\ TierRank["partial"] = 1 /\ TierRank["none"] = 0
  BY DEF TierRank

LEMMA HeadingMatches ==
    ASSUME NEW title, NEW ask
    PROVE  HeadingMatch(title, ask) \in {"exact", "strong", "partial", "none"}
  BY DEF HeadingMatch

\* A section's score.
Scored(map, y) ==
    /\ y.section \in ToSet(map.sections) /\ y.section.start \in Nat
    /\ y.tier \in 0..4 /\ y.refRank \in 0..2 /\ y.body \in Nat

LEMMA ScoreTypes ==
    ASSUME NEW map, Mapped(map), NEW ask
    PROVE  /\ IsFiniteSet(Scores(map, ask))
           /\ \A y \in Scores(map, ask) : Scored(map, y)
<1> DEFINE res == Resolutions(map.sections, ask)
<1> DEFINE S == ToSet(map.sections)
<1> DEFINE f == [s \in S |-> Score(map, s, ask, res)]
<1>1. Scores(map, ask) = {Score(map, s, ask, res) : s \in S}
  BY DEF Scores, ScoresOf
<1>2. f \in Surjection(S, Scores(map, ask))
  BY <1>1 DEF Surjection
<1>3. IsFiniteSet(S)
  BY SeqSet DEF Mapped
<1>4. IsFiniteSet(Scores(map, ask))
  BY <1>2, <1>3, FS_Surjection
<1>5. ASSUME NEW s \in S PROVE Scored(map, Score(map, s, ask, res))
  <2> DEFINE y == Score(map, s, ask, res)
  <2>1. y.section = s /\ y.body = BodyHits(SectionText(map.lines, s), ask)
    BY DEF Score
  <2>2. y.refRank \in 0..2
    BY DEF Score
  <2>3. y.tier = TierRank[IF \E r \in res : s \in r.candidates THEN "ref" ELSE HeadingMatch(s.title, ask)]
    BY DEF Score
  <2>4. y.tier \in 0..4
    BY <2>3, TierRanks, HeadingMatches
  <2> QED BY <2>1, <2>2, <2>4, BodyNat DEF Scored
<1> QED BY <1>1, <1>4, <1>5

-----------------------------------------------------------------------------
(* The best section of a document, and the best document of a library.      *)

Comes(S) == {p \in S \X S : \/ Above(p[1], p[2])
                            \/ ~ Above(p[2], p[1]) /\ p[1].section.start < p[2].section.start}

LEMMA ComesStrict ==
    ASSUME NEW map, NEW S, \A y \in S : Scored(map, y)
    PROVE  Strict(Comes(S), S)
<1>1. \A y \in S : y.section.start \in Nat /\ y.tier \in Nat /\ y.refRank \in Nat /\ y.body \in Nat
  BY DEF Scored
<1>2. ASSUME NEW x \in S PROVE <<x, x>> \notin Comes(S)
  BY <1>1 DEF Comes, Above
<1>3. ASSUME NEW x \in S, NEW y \in S, NEW z \in S, <<x, y>> \in Comes(S), <<y, z>> \in Comes(S)
      PROVE  <<x, z>> \in Comes(S)
  BY <1>1, <1>3 DEF Comes, Above
<1> QED BY <1>2, <1>3 DEF Strict

\* The best matched section of a document is one of its best tier.
LEMMA BestHasBest ==
    ASSUME NEW map, NEW S, IsFiniteSet(S), \A y \in S : Scored(map, y),
           NEW t \in S, t.tier > 0
    PROVE  \E y \in Best(S) : y \in S /\ y.tier >= t.tier
<1> DEFINE T == {x \in S : x.tier > 0}
<1> DEFINE order == Ranked(T)
<1>1. t \in T /\ T \in SUBSET S /\ T # {} /\ \A y \in T : Scored(map, y)
  OBVIOUS
<1>2. IsFiniteSet(T)
  BY <1>1, FS_Subset
<1>3. Cardinality(T) \in Nat /\ Cardinality(T) # 0
  BY <1>1, <1>2, FS_CardinalityType, FS_EmptySet
<1> HIDE DEF T
<1>4. Strict(Comes(T), T)
  BY <1>1, ComesStrict
<1> DEFINE Nth(n, x) ==
      Cardinality({y \in T : Above(y, x) \/ (~ Above(x, y) /\ y.section.start < x.section.start)}) = n - 1
<1>5. order = [n \in 1..Cardinality(T) |-> CHOOSE x \in T : Nth(n, x)]
  BY DEF Ranked, InOrder
<1>6. ASSUME NEW x \in T PROVE Nth(1, x) <=> Cardinality(Before(Comes(T), T, x)) = 0
  <2>1. {y \in T : Above(y, x) \/ (~ Above(x, y) /\ y.section.start < x.section.start)} = Before(Comes(T), T, x)
    BY DEF Before, Comes
  <2>2. Nth(1, x) <=> Cardinality(Before(Comes(T), T, x)) = 1 - 1
    BY ONLY <2>1 DEF Nth
  <2> HIDE DEF Nth
  <2> QED BY <2>2
<1> HIDE DEF Nth
<1>7. PICK x \in T : Cardinality(Before(Comes(T), T, x)) = 0
  BY <1>1, <1>2, <1>4, FirstExists
<1>8. order[1] \in T /\ Cardinality(Before(Comes(T), T, order[1])) = 0
  <2>1. order[1] = CHOOSE z \in T : Nth(1, z)
    BY <1>3, <1>5
  <2> HIDE DEF order
  <2>2. order[1] \in T /\ Nth(1, order[1])
    BY <1>6, <1>7, <2>1
  <2> QED BY <1>6, <2>2
<1>9. <<t, order[1]>> \notin Comes(T)
  BY <1>1, <1>2, <1>8, FirstIsBest
<1>10. order[1].tier >= t.tier
  <2>1. ~ Above(t, order[1])
    BY <1>1, <1>8, <1>9 DEF Comes
  <2> HIDE DEF order
  <2> QED BY <1>1, <1>8, <2>1 DEF Above, Scored
<1>11. order[1] \in Best(S)
  <2>1. Len(order) = Cardinality(T)
    BY <1>3, <1>5
  <2>2. 1 \in 1..Min({2, Len(order)})
    BY <1>3, <2>1, MinOfTwo
  <2> QED BY <2>2 DEF Best, T
<1> HIDE DEF order
<1> QED BY <1>1, <1>8, <1>10, <1>11

Keyed(x) ==
    /\ x.doc \in Nat /\ DOMAIN x.key = 1..4
    /\ x.key[1] \in Nat /\ x.key[2] \in Nat /\ x.key[3] \in Nat /\ x.key[4] \in Nat
    /\ x.key = <<x.key[1], x.key[2], x.key[3], x.key[4]>>

MappedAll(library) == IsSeq(library) /\ \A d \in DOMAIN library : Mapped(library[d])

LEMMA StandingTypes ==
    ASSUME NEW library, MappedAll(library), NEW ask, NEW d \in DOMAIN library, NEW x,
           x = StandingOf(library, d, ask)
    PROVE  /\ Keyed(x) /\ x.doc = d /\ x.scores = Scores(library[d], ask)
           /\ Tier(x) \in 0..4
           /\ \A y \in x.scores : y.tier <= Tier(x)
           /\ Tier(x) > 0 => \E y \in x.scores : y.tier = Tier(x)
<1> DEFINE scores == Scores(library[d], ask)
<1> DEFINE hits == SectionHits(library[d], ask)
<1> DEFINE tiers == {0} \cup {y.tier : y \in scores}
<1> DEFINE bodies == [y \in scores |-> y.body]
<1>0. Mapped(library[d]) /\ d \in Nat
  BY SeqSet DEF MappedAll
<1>1. IsFiniteSet(scores) /\ \A y \in scores : Scored(library[d], y)
  BY <1>0, ScoreTypes
<1>2. x = [doc |-> d, scores |-> scores, hits |-> hits,
           key |-> <<Max(tiers), Cardinality({y \in scores : y.refRank = 2}), Cardinality(hits),
                     SumFunction(bodies)>>]
  BY DEF StandingOf, Standing
<1>3. Max(tiers) \in tiers /\ \A n \in tiers : n <= Max(tiers)
  <2>1. tiers \subseteq 0..4 /\ tiers # {}
    BY <1>1 DEF Scored
  <2> HIDE DEF tiers
  <2> QED BY <2>1, MaxBounded
<1>4. Max(tiers) \in 0..4
  BY <1>1, <1>3 DEF Scored
<1>5. Cardinality({y \in scores : y.refRank = 2}) \in Nat
  <2>1. {y \in scores : y.refRank = 2} \in SUBSET scores
    OBVIOUS
  <2> QED BY <1>1, <2>1, FS_Subset, FS_CardinalityType
<1>6. Cardinality(hits) \in Nat
  <2>1. hits \in SUBSET (ToSet(library[d].sections) \X DOMAIN library[d].lines)
    BY DEF SectionHits
  <2>2. IsFiniteSet(ToSet(library[d].sections)) /\ IsFiniteSet(DOMAIN library[d].lines)
    BY <1>0, SeqSet DEF Mapped
  <2>3. IsFiniteSet(ToSet(library[d].sections) \X DOMAIN library[d].lines)
    BY <2>2, FS_Product
  <2> QED BY <2>1, <2>3, FS_Subset, FS_CardinalityType
<1>7. SumFunction(bodies) \in Nat
  <2>1. SumFunction(bodies) = SumOf(bodies, scores)
    BY DEF SumFunction, SumOf
  <2>2. \A y \in scores : bodies[y] \in Nat
    BY <1>1 DEF Scored
  <2> HIDE DEF bodies
  <2> QED BY <1>1, <2>1, <2>2, SumNat
<1>8. /\ x.doc = d /\ x.scores = scores /\ Tier(x) = Max(tiers)
      /\ Keyed(x)
  <2> DEFINE a1 == Max(tiers)
  <2> DEFINE a2 == Cardinality({y \in scores : y.refRank = 2})
  <2> DEFINE a3 == Cardinality(hits)
  <2> DEFINE a4 == SumFunction(bodies)
  <2>1. a1 \in Nat /\ a2 \in Nat /\ a3 \in Nat /\ a4 \in Nat
    BY <1>4, <1>5, <1>6, <1>7
  <2>2. x.doc = d /\ x.scores = scores /\ x.key = <<a1, a2, a3, a4>>
    BY <1>2
  <2> HIDE DEF a1, a2, a3, a4
  <2>3. Keyed(x) /\ x.key[1] = a1
    BY <1>0, <2>1, <2>2 DEF Keyed
  <2> QED BY <2>2, <2>3 DEF Tier, a1
<1>9. \A y \in scores : y.tier \in tiers
  OBVIOUS
<1>10. ASSUME Tier(x) > 0 PROVE \E y \in scores : y.tier = Tier(x)
  <2> HIDE DEF tiers
  <2>1. Max(tiers) \in tiers /\ Max(tiers) # 0
    BY <1>3, <1>4, <1>8, <1>10
  <2>2. \E y \in scores : y.tier = Max(tiers)
    <3> DEFINE m == Max(tiers)
    <3>1. m \in tiers /\ m # 0
      BY <2>1
    <3> HIDE DEF m
    <3>2. \E y \in scores : y.tier = m
      BY <3>1 DEF tiers
    <3> QED BY <3>2 DEF m
  <2> QED BY <1>8, <2>2
<1> QED BY <1>3, <1>4, <1>8, <1>9, <1>10

LEMMA PrecedesIs ==
    ASSUME NEW a, NEW b, Keyed(a), Keyed(b)
    PROVE  Precedes(a, b) <=>
             \/ a.key[1] > b.key[1]
             \/ a.key[1] = b.key[1] /\ a.key[2] > b.key[2]
             \/ a.key[1] = b.key[1] /\ a.key[2] = b.key[2] /\ a.key[3] > b.key[3]
             \/ a.key[1] = b.key[1] /\ a.key[2] = b.key[2] /\ a.key[3] = b.key[3] /\ a.key[4] > b.key[4]
             \/ /\ a.key[1] = b.key[1] /\ a.key[2] = b.key[2] /\ a.key[3] = b.key[3] /\ a.key[4] = b.key[4]
                /\ a.doc < b.doc
<1>1. DOMAIN a.key = {1, 2, 3, 4}
  BY DEF Keyed
<1>2. a.key = b.key <=> /\ a.key[1] = b.key[1] /\ a.key[2] = b.key[2]
                        /\ a.key[3] = b.key[3] /\ a.key[4] = b.key[4]
  BY DEF Keyed
<1> DEFINE Leads(i) == a.key[i] > b.key[i] /\ \A j \in 1..(i - 1) : a.key[j] = b.key[j]
<1>3. 1..(1-1) = {} /\ 1..(2-1) = {1} /\ 1..(3-1) = {1, 2} /\ 1..(4-1) = {1, 2, 3}
  OBVIOUS
<1>4. /\ Leads(1) <=> a.key[1] > b.key[1]
      /\ Leads(2) <=> a.key[1] = b.key[1] /\ a.key[2] > b.key[2]
      /\ Leads(3) <=> a.key[1] = b.key[1] /\ a.key[2] = b.key[2] /\ a.key[3] > b.key[3]
      /\ Leads(4) <=> a.key[1] = b.key[1] /\ a.key[2] = b.key[2] /\ a.key[3] = b.key[3] /\ a.key[4] > b.key[4]
  BY <1>3
<1>5. Precedes(a, b) <=> (\E i \in {1, 2, 3, 4} : Leads(i)) \/ (a.key = b.key /\ a.doc < b.doc)
  BY <1>1 DEF Precedes
<1> HIDE DEF Leads
<1> QED BY <1>2, <1>4, <1>5

\* The standings of the documents that are ranked.
Standings(library, stored, ask) ==
    {x \in {StandingOf(library, d, ask) : d \in DOMAIN library \cap stored} : x.hits # {} \/ Tier(x) > 0}
Leads(S) == {p \in S \X S : Precedes(p[1], p[2])}

LEMMA RankedDocuments ==
    ASSUME NEW library, MappedAll(library), NEW stored, NEW ask
    PROVE  LET S == Standings(library, stored, ask)
               ranked == RankDocuments(library, stored, ask)
           IN /\ IsFiniteSet(S) /\ Cardinality(S) \in Nat
              /\ ranked \in [1..Cardinality(S) -> S]
              /\ \A x \in S : x.doc \in DOMAIN library /\ x = StandingOf(library, x.doc, ask)
              /\ \A x \in S : Cardinality(S) > 0 /\ Tier(x) <= Tier(ranked[1])
<1> DEFINE D == DOMAIN library \cap stored
<1> DEFINE All == {StandingOf(library, d, ask) : d \in D}
<1> DEFINE S == Standings(library, stored, ask)
<1> DEFINE ranked == RankDocuments(library, stored, ask)
<1>1. IsFiniteSet(S)
  <2> DEFINE f == [d \in D |-> StandingOf(library, d, ask)]
  <2>1. f \in Surjection(D, All)
    BY DEF Surjection
  <2>2. D \in SUBSET DOMAIN library /\ IsFiniteSet(DOMAIN library)
    BY SeqSet DEF MappedAll
  <2>3. IsFiniteSet(D)
    BY <2>2, FS_Subset
  <2>4. IsFiniteSet(All)
    BY <2>1, <2>3, FS_Surjection
  <2>5. S \in SUBSET All
    BY DEF Standings
  <2> QED BY <2>4, <2>5, FS_Subset
<1>2. ASSUME NEW x \in S
      PROVE  Keyed(x) /\ x.doc \in DOMAIN library /\ x = StandingOf(library, x.doc, ask) /\ Tier(x) \in 0..4
  <2>1. PICK d \in DOMAIN library : x = StandingOf(library, d, ask)
    BY DEF Standings
  <2>2. Keyed(x) /\ x.doc = d /\ Tier(x) \in 0..4
    BY <2>1, StandingTypes
  <2> QED BY <2>1, <2>2
<1> HIDE DEF S
<1>3. StrictTotal(Leads(S), S)
  <2>1. \A x \in S : Keyed(x)
    BY <1>2
  <2>2. ASSUME NEW x \in S PROVE <<x, x>> \notin Leads(S)
    <3>1. Keyed(x)
      BY <2>1
    <3>2. ~ Precedes(x, x)
      BY <3>1, PrecedesIs DEF Keyed
    <3> QED BY <3>2 DEF Leads
  <2>3. ASSUME NEW x \in S, NEW y \in S, NEW z \in S, <<x, y>> \in Leads(S), <<y, z>> \in Leads(S)
        PROVE  <<x, z>> \in Leads(S)
    <3>1. Keyed(x) /\ Keyed(y) /\ Keyed(z)
      BY <2>1
    <3>2. Precedes(x, y) /\ Precedes(y, z)
      BY <2>3 DEF Leads
    <3>3. Precedes(x, z)
      BY <3>1, <3>2, PrecedesIs DEF Keyed
    <3> QED BY <3>3 DEF Leads
  <2>4. ASSUME NEW x \in S, NEW y \in S PROVE x = y \/ <<x, y>> \in Leads(S) \/ <<y, x>> \in Leads(S)
    <3>1. Keyed(x) /\ Keyed(y)
      BY <2>1
    <3>2. CASE x.doc = y.doc
      BY <1>2, <3>2
    <3>3. CASE x.doc # y.doc
      <4>1. Precedes(x, y) \/ Precedes(y, x)
        BY <3>1, <3>3, PrecedesIs DEF Keyed
      <4> QED BY <4>1 DEF Leads
    <3> QED BY <3>2, <3>3
  <2> QED BY <2>2, <2>3, <2>4 DEF StrictTotal, Strict
<1> DEFINE Nth(n, x) == Cardinality({y \in S : Precedes(y, x)}) = n - 1
<1>4. ranked = [n \in 1..Cardinality(S) |-> CHOOSE x \in S : Nth(n, x)]
  BY DEF RankDocuments, InOrder, S, Standings
<1>5. ASSUME NEW n \in Nat, NEW x \in S PROVE Nth(n, x) <=> Cardinality(Before(Leads(S), S, x)) = n - 1
  <2>1. {y \in S : Precedes(y, x)} = Before(Leads(S), S, x)
    BY DEF Before, Leads
  <2> QED BY ONLY <2>1 DEF Nth
<1> HIDE DEF Nth, ranked
<1>6. Cardinality(S) \in Nat /\ \A n \in 1..Cardinality(S) : \E x \in S : Nth(n, x)
  BY <1>1, <1>3, <1>5, Places
<1>7. \A n \in 1..Cardinality(S) : ranked[n] \in S /\ Nth(n, ranked[n])
  BY <1>4, <1>6
<1>8. ranked \in [1..Cardinality(S) -> S]
  BY <1>4, <1>7
<1>9. ASSUME NEW x \in S PROVE Cardinality(S) > 0 /\ Tier(x) <= Tier(ranked[1])
  <2>1. Cardinality(S) > 0
    BY <1>1, <1>6, FS_EmptySet
  <2>2. ranked[1] \in S /\ Cardinality(Before(Leads(S), S, ranked[1])) = 1 - 1
    BY <1>5, <1>6, <1>7, <2>1
  <2>3. <<x, ranked[1]>> \notin Leads(S)
    BY <1>1, <2>2, FirstIsBest
  <2>4. ~ Precedes(x, ranked[1])
    BY <2>2, <2>3 DEF Leads
  <2>5. Keyed(x) /\ Keyed(ranked[1])
    BY <1>2, <2>2
  <2>6. x.key[1] <= ranked[1].key[1]
    BY <2>4, <2>5, PrecedesIs DEF Keyed
  <2> QED BY <2>1, <2>6 DEF Tier
<1> QED BY <1>1, <1>2, <1>6, <1>8, <1>9 DEF S, ranked

-----------------------------------------------------------------------------
(* The files of a sweep. *)

LEMMA HitsFound ==
    ASSUME NEW walk \in Seq(Nat), NEW n \in 0..Len(walk)
    PROVE  /\ IsFiniteSet(HitsOf(walk, n))
           /\ \A f \in HitsOf(walk, n) : f = <<f[1], f[2]>> /\ f[1] \in Nat /\ f[2] \in Nat
           /\ \A f, g \in HitsOf(walk, n) : f[1] = g[1] => f = g
<1> DEFINE Earlier(i) == SumFunctionOnSet(walk, 1..(i - 1))
<1> DEFINE Taken(i) == IF Earlier(i) >= MaxHits THEN 0 ELSE Min({walk[i], MaxHits - Earlier(i)})
<1> DEFINE T == {j \in 1..n : Taken(j) > 0}
<1>1. HitsOf(walk, n) = {<<i, Taken(i)>> : i \in T}
  BY DEF HitsOf
<1>2. ASSUME NEW i \in 1..n PROVE Taken(i) \in Nat
  <2>1. Earlier(i) \in Nat
    <3>1. IsFiniteSet(1..(i - 1))
      BY FS_Interval
    <3>2. \A j \in 1..(i - 1) : walk[j] \in Nat
      OBVIOUS
    <3> QED BY <3>1, <3>2, SumNat DEF SumOf
  <2> HIDE DEF Earlier
  <2>2. walk[i] \in Nat /\ MaxHits \in Nat
    BY ExploreAssumption
  <2>3. CASE Earlier(i) >= MaxHits
    BY <2>3
  <2>4. CASE ~ (Earlier(i) >= MaxHits)
    <3> DEFINE m == MaxHits - Earlier(i)
    <3>1. m \in Nat
      BY <2>1, <2>2, <2>4
    <3> HIDE DEF m
    <3>2. Min({walk[i], m}) \in Nat
      BY <2>2, <3>1, MinOfTwo
    <3> QED BY <2>4, <3>2 DEF m
  <2> QED BY <2>3, <2>4
<1> HIDE DEF Taken
<1>3. IsFiniteSet(T)
  <2>1. T \in SUBSET (1..n)
    OBVIOUS
  <2> HIDE DEF T
  <2>2. IsFiniteSet(1..n)
    BY FS_Interval
  <2> QED BY <2>1, <2>2, FS_Subset
<1> DEFINE h == [i \in T |-> <<i, Taken(i)>>]
<1>4. h \in Surjection(T, HitsOf(walk, n))
  BY <1>1 DEF Surjection
<1>5. IsFiniteSet(HitsOf(walk, n))
  BY <1>3, <1>4, FS_Surjection
<1>6. ASSUME NEW f \in HitsOf(walk, n)
      PROVE  f = <<f[1], f[2]>> /\ f[1] \in Nat /\ f[2] \in Nat /\ f[2] = Taken(f[1])
  <2>1. PICK i \in T : f = <<i, Taken(i)>>
    BY <1>1
  <2> QED BY <1>2, <2>1
<1>7. ASSUME NEW f \in HitsOf(walk, n), NEW g \in HitsOf(walk, n), f[1] = g[1] PROVE f = g
  BY <1>6, <1>7
<1> QED BY <1>5, <1>6, <1>7

\* Each file found has its place in the order they are read in.
LEMMA ReadingOrder ==
    ASSUME NEW S, IsFiniteSet(S),
           \A f \in S : f = <<f[1], f[2]>> /\ f[1] \in Nat /\ f[2] \in Nat,
           \A f, g \in S : f[1] = g[1] => f = g
    PROVE  LET ranked == InOrder(S, MostHits)
           IN /\ Cardinality(S) \in Nat /\ ranked \in [1..Cardinality(S) -> S]
              /\ \A f \in S : \E n \in 1..Cardinality(S) : ranked[n] = f
<1> DEFINE R == {p \in S \X S : MostHits(p[1], p[2])}
<1> DEFINE ranked == InOrder(S, MostHits)
<1>1. ASSUME NEW f \in S, NEW g \in S PROVE <<f, g>> \in R <=> MostHits(f, g)
  OBVIOUS
<1>3. StrictTotal(R, S)
  <2>1. \A f \in S : <<f, f>> \notin R
    BY <1>1 DEF MostHits
  <2>2. ASSUME NEW x \in S, NEW y \in S, NEW z \in S, <<x, y>> \in R, <<y, z>> \in R PROVE <<x, z>> \in R
    <3>1. MostHits(x, y) /\ MostHits(y, z)
      BY <1>1, <2>2
    <3>2. MostHits(x, z)
      BY <3>1 DEF MostHits
    <3> QED BY <1>1, <3>2
  <2>3. ASSUME NEW x \in S, NEW y \in S PROVE x = y \/ <<x, y>> \in R \/ <<y, x>> \in R
    <3>1. CASE x[1] = y[1]
      BY <3>1
    <3>2. CASE x[1] # y[1]
      <4>1. MostHits(x, y) \/ MostHits(y, x)
        BY <3>2 DEF MostHits
      <4> QED BY <1>1, <4>1
    <3> QED BY <3>1, <3>2
  <2> HIDE DEF R
  <2> QED BY <2>1, <2>2, <2>3 DEF StrictTotal, Strict
<1> DEFINE Nth(n, f) == Cardinality({g \in S : MostHits(g, f)}) = n - 1
<1>4. ranked = [n \in 1..Cardinality(S) |-> CHOOSE f \in S : Nth(n, f)]
  BY DEF InOrder
<1>5. ASSUME NEW n \in Nat, NEW f \in S PROVE Nth(n, f) <=> Cardinality(Before(R, S, f)) = n - 1
  <2>1. {g \in S : MostHits(g, f)} = Before(R, S, f)
    BY <1>1 DEF Before
  <2> QED BY ONLY <2>1 DEF Nth
<1> HIDE DEF Nth, ranked, R
<1>6. Cardinality(S) \in Nat /\ \A n \in 1..Cardinality(S) : \E f \in S : Nth(n, f)
  BY <1>3, <1>5, Places
<1>7. \A n \in 1..Cardinality(S) : ranked[n] \in S /\ Nth(n, ranked[n])
  BY <1>4, <1>6
<1>8. Ordered(ranked, R, S)
  <2>1. ranked \in [1..Cardinality(S) -> S]
    BY <1>4, <1>7
  <2>2. \A n \in 1..Cardinality(S) : Cardinality(Before(R, S, ranked[n])) = n - 1
    BY <1>5, <1>6, <1>7
  <2> QED BY <2>1, <2>2 DEF Ordered
<1>9. \A f \in S : \E n \in 1..Cardinality(S) : ranked[n] = f
  BY <1>3, <1>8, OrderedOnto
<1> QED BY <1>6, <1>8, <1>9 DEF Ordered, ranked

-----------------------------------------------------------------------------
(* The invariant. *)

\* The standings that the ranking orders.
RankedHere == Standings(Libraries[request.library], request.stored, Question)

\* The steps taken, and those still to come, stay under the cap of the request.
StepsKept ==
    /\ phase \in {"idle", "rank", "serve", "sweep", "read", "done"}
    /\ phase # "idle" => request \in Requests
    /\ steps \in Nat
    /\ phase \in {"idle", "rank"} => steps = 0
    /\ phase = "serve" => toServe \in Seq(RankedHere) /\ steps + Len(toServe) + 1 <= request.cap
    /\ phase = "sweep" => steps + 1 <= request.cap
    /\ phase = "read" => toRead \in Seq(found) /\ steps + Len(toRead) <= request.cap
    /\ phase = "done" => steps <= request.cap

\* What is found is read, is still to be read, or need not be.
FoundKept ==
    phase = "read" /\ ~ (Cardinality(found) > chosen) =>
      \A f \in found : \/ f \in ToSet(toRead)
                       \/ f[1] \in read \cup request.unreadable
                       \/ toRead = << >> /\ Cardinality(evidence) >= EnoughEvidence
ReadAll ==
    phase = "done" /\ incomplete = "none" =>
      \A f \in found : \/ f[1] \in read \cup request.unreadable
                       \/ Cardinality(evidence) >= EnoughEvidence

\* The best sections of the document that ranks first are quoted.
BestQuoted ==
    /\ phase \in {"idle", "rank"} => ranking = << >>
    /\ ranking # << >> =>
         /\ ranking = RankDocuments(Libraries[request.library], request.stored, Question)
         /\ Tier(ranking[1]) > 0 =>
              \A y \in Best(ranking[1].scores) : <<1, ranking[1].doc, y.section.start>> \in evidence

EInv == StepsKept /\ FoundKept /\ ReadAll /\ BestQuoted

Unhurried == <<request, phase, steps, ranking, toServe, evidence, found, chosen, toRead, read, incomplete>>

LEMMA RequestTypes ==
    ASSUME EInv, phase # "idle"
    PROVE  /\ request.cap \in Nat /\ request.cap >= 2 /\ request.files \in Seq(Nat)
           /\ MappedAll(Libraries[request.library])
<1>1. request \in Requests
  BY DEF EInv, StepsKept
<1> QED BY <1>1, ExploreAssumption DEF MappedAll

LEMMA MinIsIn ==
    ASSUME NEW S, S \subseteq Nat, S # {}
    PROVE  Min(S) \in S /\ \A y \in S : Min(S) <= y
<1>1. \E x \in S : \A y \in S : x <= y
  BY Least
<1> QED BY <1>1 DEF Min

\* A step is left for the sweep.
LEMMA Budgets ==
    ASSUME NEW ranked, Len(ranked) \in Nat, NEW taken \in {0, 1},
           request.cap \in Nat, request.cap >= 2
    PROVE  /\ DocBudget(ranked, taken) \in 0..Len(ranked)
           /\ taken + DocBudget(ranked, taken) + 1 <= request.cap
<1> DEFINE rest == Max({0, request.cap - taken - 2})
<1>1. rest = IF request.cap - taken - 2 >= 0 THEN request.cap - taken - 2 ELSE 0
  <2> DEFINE n == request.cap - taken - 2
  <2>1. n \in Int
    OBVIOUS
  <2> HIDE DEF n
  <2> DEFINE m == IF n >= 0 THEN n ELSE 0
  <2>2. m \in {0, n} /\ \A y \in {0, n} : m >= y
    BY <2>1
  <2>3. \A x \in {0, n} : (\A y \in {0, n} : x >= y) => x = m
    BY <2>1
  <2>4. Max({0, n}) = m
    BY <2>2, <2>3 DEF Max
  <2> QED BY <2>4 DEF n
<1>2. rest \in Nat /\ taken + rest + 1 <= request.cap
  BY <1>1
<1>3. DocBudget(ranked, taken) = Min({Len(ranked), Served, rest})
  BY DEF DocBudget
<1> HIDE DEF rest
<1>4. Served \in Nat
  BY ExploreAssumption
<1> DEFINE S == {Len(ranked), Served, rest}
<1>5. S \subseteq Nat /\ S # {} /\ Len(ranked) \in S /\ rest \in S
  BY <1>2, <1>4
<1>6. DocBudget(ranked, taken) \in S /\ \A y \in S : DocBudget(ranked, taken) <= y
  BY <1>3, <1>5, MinIsIn
<1> HIDE DEF S
<1> DEFINE m == DocBudget(ranked, taken)
<1>7. m \in Nat /\ m <= rest /\ m <= Len(ranked)
  BY <1>5, <1>6
<1> HIDE DEF m
<1>8. m \in 0..Len(ranked) /\ taken + m + 1 <= request.cap
  BY <1>2, <1>7
<1> QED BY <1>8 DEF m

LEMMA EInvInit == ASSUME ExploreInit PROVE EInv
  BY DEF ExploreInit, EInv, StepsKept, FoundKept, ReadAll, BestQuoted

LEMMA UnhurriedKeeps == ASSUME EInv, UNCHANGED Unhurried PROVE EInv'
  BY DEF Unhurried, EInv, StepsKept, FoundKept, ReadAll, BestQuoted, RankedHere, Question

LEMMA PoseKeeps == ASSUME EInv, NEW r \in Requests, Pose(r) PROVE EInv'
<1>1. steps' = 0 /\ ranking' = << >> /\ request' \in Requests /\ phase' \in {"done", "rank"}
  BY DEF Pose, EInv, StepsKept, BestQuoted
<1>2. 0 <= request'.cap
  BY <1>1, ExploreAssumption
<1>3. phase' = "done" => incomplete' # "none"
  BY DEF Pose
<1> QED BY <1>1, <1>2, <1>3 DEF EInv, StepsKept, FoundKept, ReadAll, BestQuoted

LEMMA RankKeeps == ASSUME EInv, Rank PROVE EInv'
<1> DEFINE S == RankedHere
<1> DEFINE c == Cardinality(S)
<1>1. phase = "rank" /\ steps = 0 /\ request \in Requests
  BY DEF Rank, EInv, StepsKept
<1>2. /\ request.cap \in Nat /\ request.cap >= 2 /\ MappedAll(Libraries[request.library])
  BY <1>1, RequestTypes
<1>3. /\ UNCHANGED request /\ phase' = "serve" /\ steps' \in {0, 1}
      /\ ranking' = RankDocuments(Libraries[request.library], request.stored, Question)
      /\ toServe' = SubSeq(ranking', 1, DocBudget(ranking', steps'))
      /\ evidence' = UNION {{<<1, x.doc, i>> : i \in Quoted(x)} :
                              x \in ToSet(SubSeq(ranking', 1, Min({Len(ranking'), Served})))}
  BY <1>1 DEF Rank
<1>4. c \in Nat /\ ranking' \in [1..c -> S]
  BY <1>2, <1>3, RankedDocuments DEF RankedHere
<1> HIDE DEF S, c
<1>5. ranking' \in Seq(S) /\ Len(ranking') = c
  BY <1>4
<1>6. DocBudget(ranking', steps') \in 0..c /\ steps' + DocBudget(ranking', steps') + 1 <= request.cap
  BY <1>2, <1>3, <1>4, <1>5, Budgets
<1>7. toServe' \in Seq(S) /\ steps' + Len(toServe') + 1 <= request.cap
  <2> DEFINE m == DocBudget(ranking', steps')
  <2>1. m \in 0..c /\ steps' + m + 1 <= request.cap /\ toServe' = SubSeq(ranking', 1, m)
    BY <1>3, <1>6
  <2> HIDE DEF m
  <2>2. toServe' \in Seq(S) /\ Len(toServe') = m
    BY <1>4, <1>5, <2>1
  <2> QED BY <2>1, <2>2
<1>8. StepsKept'
  <2>1. S = RankedHere'
    BY <1>3 DEF S, RankedHere, Question
  <2> QED BY <1>1, <1>3, <1>7, <2>1 DEF StepsKept
<1>9. ASSUME ranking' # << >>, Tier(ranking'[1]) > 0, NEW y \in Best(ranking'[1].scores)
      PROVE  <<1, ranking'[1].doc, y.section.start>> \in evidence'
  <2>1. c >= 1
    <3>1. c = 0 => ranking' = << >>
      BY <1>5
    <3> QED BY <1>4, <1>9, <3>1
  <2> DEFINE m == Min({Len(ranking'), Served})
  <2>2. m \in 1..c
    BY <1>4, <1>5, <2>1, ExploreAssumption, MinOfTwo
  <2> HIDE DEF m
  <2> DEFINE first == SubSeq(ranking', 1, m)
  <2>3. 1 \in DOMAIN first /\ first[1] = ranking'[1]
    BY <1>5, <2>1, <2>2
  <2>4. ranking'[1] \in ToSet(first)
    BY <2>3 DEF ToSet
  <2>5. y.section.start \in Quoted(ranking'[1])
    BY <1>9 DEF Quoted
  <2> QED BY <1>3, <2>4, <2>5 DEF m
<1> QED BY <1>3, <1>8, <1>9 DEF EInv, FoundKept, ReadAll, BestQuoted, Question

LEMMA ServeKeeps == ASSUME EInv, ServeDocument PROVE EInv'
<1>1. /\ phase = "serve" /\ steps \in Nat /\ request \in Requests /\ toServe \in Seq(RankedHere)
      /\ steps + Len(toServe) + 1 <= request.cap
  BY DEF ServeDocument, EInv, StepsKept
<1>2. UNCHANGED <<request, ranking, evidence, found, chosen, toRead, read, incomplete>>
  BY DEF ServeDocument
<1>3. request.cap \in Nat
  BY <1>1, RequestTypes
<1>4. RankedHere' = RankedHere
  BY <1>2 DEF RankedHere, Question
<1>5. StepsKept'
  <2> DEFINE S == RankedHere
  <2>1. CASE toServe = << >> \/ late
    <3>1. phase' = "sweep" /\ steps' = steps
      BY <2>1 DEF ServeDocument
    <3>2. steps + 1 <= request.cap
      <4>1. Len(toServe) \in Nat
        BY <1>1
      <4> QED BY <1>1, <1>3, <4>1
    <3> QED BY <1>1, <1>2, <3>1, <3>2 DEF StepsKept
  <2>2. CASE ~(toServe = << >> \/ late)
    <3>1. phase' = "serve" /\ steps' = steps + 1 /\ toServe' = Tail(toServe) /\ toServe # << >>
      BY <1>1, <2>2 DEF ServeDocument
    <3> HIDE DEF S
    <3>2. toServe \in Seq(S)
      BY <1>1 DEF S
    <3>3. toServe' \in Seq(S) /\ Len(toServe') = Len(toServe) - 1 /\ Len(toServe) \in Nat
      BY <3>1, <3>2
    <3>4. steps' + Len(toServe') + 1 <= request.cap
      BY <1>1, <1>3, <3>1, <3>3
    <3>5. toServe' \in Seq(RankedHere')
      BY <1>4, <3>3 DEF S
    <3> QED BY <1>1, <1>2, <3>1, <3>4, <3>5 DEF StepsKept
  <2> QED BY <2>1, <2>2
<1>6. phase' \in {"serve", "sweep"}
  BY <1>1 DEF ServeDocument
<1> QED BY <1>1, <1>2, <1>5, <1>6 DEF EInv, FoundKept, ReadAll, BestQuoted, Question

LEMMA SweepKeeps == ASSUME EInv, Sweep PROVE EInv'
<1>1. phase = "sweep" /\ steps \in Nat /\ request \in Requests /\ steps + 1 <= request.cap
  BY DEF Sweep, EInv, StepsKept
<1>2. request.cap \in Nat /\ request.files \in Seq(Nat)
  BY <1>1, RequestTypes
<1>3. UNCHANGED <<request, ranking, toServe, evidence, read>> /\ steps' = steps + 1
  BY DEF Sweep
<1>4. PICK n \in 0..Len(request.files) : found' = HitsOf(request.files, n)
  <2> DEFINE all == IF Keywords(Question) = {} THEN 0 ELSE Len(request.files)
  <2>1. \E n \in (IF late THEN {0} ELSE 0..all) : found' = HitsOf(request.files, n)
    BY DEF Sweep
  <2>2. Len(request.files) \in Nat /\ all \in 0..Len(request.files)
    BY <1>2
  <2> HIDE DEF all
  <2> QED BY <2>1, <2>2
<1> DEFINE S == found'
<1> DEFINE ranked == InOrder(S, MostHits)
<1> DEFINE c == Cardinality(S)
<1> DEFINE budget == ReadBudget(steps + 1)
<1>5. /\ c \in Nat /\ ranked \in [1..c -> S]
      /\ \A f \in S : \E k \in 1..c : ranked[k] = f
  <2>1. /\ IsFiniteSet(S)
        /\ \A f \in S : f = <<f[1], f[2]>> /\ f[1] \in Nat /\ f[2] \in Nat
        /\ \A f, g \in S : f[1] = g[1] => f = g
    BY <1>2, <1>4, HitsFound
  <2> HIDE DEF S
  <2> QED BY <2>1, ReadingOrder
<1>6. \/ phase' = "done" /\ incomplete' = "no hits"
      \/ /\ phase' = "read" /\ chosen' = Min({Len(ranked), budget})
         /\ toRead' = SubSeq(ranked, 1, chosen')
  BY DEF Sweep
<1>7. budget \in Nat /\ steps + 1 + budget <= request.cap
  BY <1>1, <1>2 DEF ReadBudget
<1>0. steps' \in Nat /\ steps' <= request'.cap /\ request' \in Requests
  BY <1>1, <1>3
<1>8. CASE phase' = "done" /\ incomplete' = "no hits"
  <2>1. StepsKept'
    BY <1>0, <1>8 DEF StepsKept
  <2> QED BY <1>1, <1>3, <1>8, <2>1 DEF EInv, FoundKept, ReadAll, BestQuoted, Question
<1>9. CASE /\ phase' = "read" /\ chosen' = Min({Len(ranked), budget})
           /\ toRead' = SubSeq(ranked, 1, chosen')
  <2> HIDE DEF S, ranked, c, budget
  <2>1. ranked \in Seq(S) /\ Len(ranked) = c
    BY <1>5
  <2>2. chosen' \in 0..c /\ chosen' <= budget /\ (c <= chosen' => chosen' = c)
    BY <1>5, <1>7, <1>9, <2>1, MinOfTwo
  <2>3. /\ toRead' \in Seq(S) /\ Len(toRead') = chosen'
        /\ \A k \in 1..chosen' : k \in DOMAIN toRead' /\ toRead'[k] = ranked[k]
    <3> DEFINE m == chosen'
    <3>1. m \in 0..c /\ toRead' = SubSeq(ranked, 1, m)
      BY <1>9, <2>2
    <3> HIDE DEF m
    <3>2. toRead' \in Seq(S) /\ Len(toRead') = m /\ \A k \in 1..m : toRead'[k] = ranked[k]
      BY <1>5, <2>1, <3>1
    <3>3. DOMAIN toRead' = 1..m
      BY <3>2
    <3> QED BY <3>2, <3>3 DEF m
  <2>4. steps' + Len(toRead') <= request.cap
    BY <1>1, <1>2, <1>3, <1>7, <2>2, <2>3
  <2>5. toRead' \in Seq(found')
    BY <2>3 DEF S
  <2>6. StepsKept'
    BY <1>0, <1>3, <1>9, <2>4, <2>5 DEF StepsKept
  <2>7. ASSUME ~ (Cardinality(found') > chosen'), NEW f \in found' PROVE f \in ToSet(toRead')
    <3>0. ~ (c > chosen')
      BY <2>7 DEF S, c
    <3>1. f \in S /\ chosen' = c
      BY <1>5, <2>2, <3>0 DEF S
    <3>2. PICK k \in 1..c : ranked[k] = f
      BY <1>5, <3>1
    <3>3. k \in DOMAIN toRead' /\ toRead'[k] = f
      BY <2>3, <3>1, <3>2
    <3> QED BY <3>3 DEF ToSet
  <2> QED BY <1>1, <1>3, <1>9, <2>6, <2>7 DEF EInv, FoundKept, ReadAll, BestQuoted, Question
<1> QED BY <1>6, <1>8, <1>9

LEMMA HeadAndTail ==
    ASSUME NEW S, NEW s \in Seq(S), s # << >>
    PROVE  /\ Tail(s) \in Seq(S) /\ Len(s) \in Nat /\ Len(Tail(s)) = Len(s) - 1
           /\ \A x \in ToSet(s) : x = Head(s) \/ x \in ToSet(Tail(s))
<1>1. Tail(s) \in Seq(S) /\ Len(s) \in Nat /\ Len(Tail(s)) = Len(s) - 1
  OBVIOUS
<1>2. ASSUME NEW x \in ToSet(s) PROVE x = Head(s) \/ x \in ToSet(Tail(s))
  <2>1. PICK i \in 1..Len(s) : s[i] = x
    BY DEF ToSet
  <2>2. CASE i = 1
    BY <2>1, <2>2
  <2>3. CASE i # 1
    <3>1. i - 1 \in DOMAIN Tail(s) /\ Tail(s)[i - 1] = x
      BY <2>1, <2>3
    <3> QED BY <3>1 DEF ToSet
  <2> QED BY <2>2, <2>3
<1> QED BY <1>1, <1>2

LEMMA ReadFileKeeps == ASSUME EInv, ReadFile PROVE EInv'
<1>1. /\ phase = "read" /\ steps \in Nat /\ request \in Requests /\ toRead \in Seq(found)
      /\ steps + Len(toRead) <= request.cap /\ toRead # << >>
  BY DEF ReadFile, EInv, StepsKept
<1>2. UNCHANGED <<request, phase, ranking, toServe, found, chosen, incomplete>>
  BY DEF ReadFile
<1>3. request.cap \in Nat
  BY <1>1, RequestTypes
<1>4. /\ Tail(toRead) \in Seq(found) /\ Len(toRead) \in Nat /\ Len(Tail(toRead)) = Len(toRead) - 1
      /\ \A f \in ToSet(toRead) : f = Head(toRead) \/ f \in ToSet(Tail(toRead))
  BY <1>1, HeadAndTail
<1>5. /\ steps' \in {steps, steps + 1} /\ toRead' \in {<< >>, Tail(toRead)}
      /\ evidence \subseteq evidence' /\ read \subseteq read'
      /\ Head(toRead)[1] \in read' \cup request.unreadable
      /\ toRead' = Tail(toRead) \/ (toRead' = << >> /\ Cardinality(evidence') >= EnoughEvidence)
  BY DEF ReadFile
<1>6. << >> \in Seq(found) /\ Len(<< >>) = 0
  OBVIOUS
<1>7. StepsKept'
  <2>1. toRead' \in Seq(found) /\ Len(toRead') \in Nat /\ Len(toRead') <= Len(toRead) - 1
    <3>1. CASE toRead' = << >>
      <4>1. Len(toRead) # 0
        BY <1>1
      <4> QED BY <1>4, <1>6, <3>1, <4>1
    <3>2. CASE toRead' = Tail(toRead)
      <4>1. Len(Tail(toRead)) \in Nat
        BY <1>4
      <4> QED BY <1>4, <3>2, <4>1
    <3> QED BY <1>5, <3>1, <3>2
  <2>2. steps' \in Nat /\ steps' + Len(toRead') <= request.cap
    BY <1>1, <1>3, <1>4, <1>5, <2>1
  <2> QED BY <1>1, <1>2, <2>1, <2>2 DEF StepsKept
<1>8. FoundKept'
  <2>1. SUFFICES ASSUME ~ (Cardinality(found) > chosen), NEW f \in found
                 PROVE  \/ f \in ToSet(toRead')
                        \/ f[1] \in read' \cup request.unreadable
                        \/ toRead' = << >> /\ Cardinality(evidence') >= EnoughEvidence
    BY <1>2 DEF FoundKept
  <2>2. f \in ToSet(toRead) \/ f[1] \in read \cup request.unreadable
    BY <1>1, <2>1 DEF EInv, FoundKept
  <2> QED BY <1>4, <1>5, <2>2
<1> QED BY <1>1, <1>2, <1>5, <1>7, <1>8 DEF EInv, ReadAll, BestQuoted, Question

LEMMA ConcludeKeeps == ASSUME EInv, Conclude PROVE EInv'
<1>1. /\ phase = "read" /\ steps \in Nat /\ request \in Requests /\ toRead \in Seq(found)
      /\ steps + Len(toRead) <= request.cap
  BY DEF Conclude, EInv, StepsKept
<1>2. request.cap \in Nat /\ Len(toRead) \in Nat
  BY <1>1, RequestTypes
<1>3. /\ UNCHANGED <<request, steps, ranking, toServe, evidence, found, chosen, toRead, read>>
      /\ phase' = "done"
  BY DEF Conclude
<1>4. StepsKept'
  BY <1>1, <1>2, <1>3 DEF StepsKept
<1>5. ReadAll'
  <2>1. SUFFICES ASSUME incomplete' = "none", NEW f \in found
                 PROVE  f[1] \in read \cup request.unreadable \/ Cardinality(evidence) >= EnoughEvidence
    BY <1>3 DEF ReadAll
  <2>2. toRead = << >> /\ ~(Cardinality(found) > chosen)
    BY <2>1 DEF Conclude
  <2>3. ToSet(toRead) = {}
    BY <2>2 DEF ToSet
  <2> QED BY <1>1, <2>2, <2>3 DEF EInv, FoundKept
<1> QED BY <1>1, <1>3, <1>4, <1>5 DEF EInv, FoundKept, BestQuoted, Question

LEMMA EInvNext == ASSUME EInv, [ExploreNext]_exploreVars PROVE EInv'
<1>1. Expire \/ UNCHANGED exploreVars => UNCHANGED Unhurried
  BY DEF Expire, exploreVars, Unhurried
<1> QED BY <1>1, UnhurriedKeeps, PoseKeeps, RankKeeps, ServeKeeps, SweepKeeps, ReadFileKeeps,
           ConcludeKeeps DEF ExploreNext

\* An exploration stays within its steps, and reads what its sweep found or says
\* that it did not, whenever the deadline falls (explore.ts).
THEOREM ExploreBudgeted == ExploreSpec => []WithinBudget
<1>1. ExploreInit => EInv
  BY EInvInit
<1>2. EInv /\ [ExploreNext]_exploreVars => EInv'
  BY EInvNext
<1>3. EInv => WithinBudget
  <2> SUFFICES ASSUME EInv PROVE WithinBudget
    OBVIOUS
  <2>1. phase # "idle" => steps <= request.cap
    <3>1. CASE phase \in {"rank", "sweep", "done"}
      BY <3>1, RequestTypes DEF EInv, StepsKept
    <3>2. CASE phase = "serve"
      <4>1. Len(toServe) \in Nat
        BY <3>2 DEF EInv, StepsKept
      <4> QED BY <3>2, <4>1, RequestTypes DEF EInv, StepsKept
    <3>3. CASE phase = "read"
      <4>1. Len(toRead) \in Nat
        BY <3>3 DEF EInv, StepsKept
      <4> QED BY <3>3, <4>1, RequestTypes DEF EInv, StepsKept
    <3> QED BY <3>1, <3>2, <3>3 DEF EInv, StepsKept
  <2> QED BY <2>1 DEF WithinBudget, EInv, ReadAll
<1> QED BY <1>1, <1>2, <1>3, PTL DEF ExploreSpec

\* A band of high needs all that the dossier can show.
LEMMA HighNeeds ==
    ASSUME Band = "high"
    PROVE  /\ incomplete = "none" /\ evidence # {}
           /\ Refs = {} => BestTier >= 2
           /\ Refs # {} => Resolved # {}
<1>1. incomplete = "none" /\ Disclosed(Shown(Anchored, HalfCovered)) = "high"
  BY DEF Band, Cut
<1>2. Shown(Anchored, HalfCovered) = "high"
  BY <1>1 DEF Disclosed
<1>3. evidence # {} /\ (Refs = {} \/ Resolved # {}) /\ Anchored
  BY <1>2 DEF Shown
<1>4. Refs = {} => Resolved = {}
  BY DEF Resolved
<1> QED BY <1>1, <1>3, <1>4 DEF Anchored

\* The tier of a section says how the question named it.
LEMMA TierNames ==
    ASSUME NEW map, NEW ask, NEW y \in Scores(map, ask)
    PROVE  /\ y.tier >= 4 => \E r \in SectionRefs(ask) : Matches(y.section, r)
           /\ SectionRefs(ask) = {} /\ y.tier >= 2 =>
                HeadingMatch(y.section.title, ask) \in {"exact", "strong"}
<1> DEFINE res == Resolutions(map.sections, ask)
<1>1. PICK s \in ToSet(map.sections) : y = Score(map, s, ask, res)
  BY DEF Scores, ScoresOf
<1>2. /\ y.section = s
      /\ y.tier = TierRank[IF \E r \in res : s \in r.candidates THEN "ref" ELSE HeadingMatch(s.title, ask)]
  BY <1>1 DEF Score
<1>3. ASSUME NEW q \in res, s \in q.candidates PROVE \E r \in SectionRefs(ask) : Matches(s, r)
  <2>1. PICK r \in SectionRefs(ask) :
          q = Resolve(Candidates(map.sections, r), BestAgreed(Candidates(map.sections, r), ask, r), r)
    BY DEF Resolutions
  <2>2. s \in Candidates(map.sections, r)
    BY <1>3, <2>1 DEF Resolve
  <2> QED BY <2>2 DEF Candidates
<1>4. CASE \E r \in res : s \in r.candidates
  <2>1. \E r \in SectionRefs(ask) : Matches(s, r)
    BY <1>3, <1>4
  <2> QED BY <1>2, <2>1
<1>5. CASE ~ (\E r \in res : s \in r.candidates)
  <2>1. y.tier = TierRank[HeadingMatch(s.title, ask)]
    BY <1>2, <1>5
  <2>2. HeadingMatch(s.title, ask) \in {"exact", "strong", "partial", "none"}
    BY HeadingMatches
  <2> QED BY <1>2, <2>1, <2>2, TierRanks
<1> QED BY <1>4, <1>5

\* A section that a reference matches has the tier of a reference.
LEMMA RefTier ==
    ASSUME NEW map, NEW ask, NEW s \in ToSet(map.sections),
           NEW r \in SectionRefs(ask), Matches(s, r)
    PROVE  \E y \in Scores(map, ask) : y.tier = 4
<1> DEFINE res == Resolutions(map.sections, ask)
<1> DEFINE here == Candidates(map.sections, r)
<1> DEFINE q == Resolve(here, BestAgreed(here, ask, r), r)
<1>1. s \in here
  BY DEF Candidates
<1>2. q \in res /\ q.candidates = here
  <2>1. here # {}
    BY <1>1
  <2>2. q \in res
    BY <2>1 DEF Resolutions
  <2>3. q.candidates = here
    BY DEF Resolve
  <2> QED BY <2>2, <2>3
<1> DEFINE y == Score(map, s, ask, res)
<1>3. y.tier = TierRank["ref"]
  BY <1>1, <1>2 DEF Score
<1>4. y \in Scores(map, ask)
  BY DEF Scores, ScoresOf
<1> QED BY <1>3, <1>4, TierRanks

\* "High" is said of what the question named, and of that alone
\* (vault/confidence.ts), whatever the documents, the question and the deadline.
THEOREM HighShown == ExploreSpec => []HighIsShown
<1>1. ExploreInit => EInv
  BY EInvInit
<1>2. EInv /\ [ExploreNext]_exploreVars => EInv'
  BY EInvNext
<1>3. EInv => HighIsShown
  <2> SUFFICES ASSUME EInv, Answered, Band = "high" PROVE HighIsShown
    BY DEF HighIsShown
  <2> DEFINE library == Libraries[request.library]
  <2> DEFINE first == ranking[1]
  <2>1. /\ incomplete = "none"
        /\ Refs = {} => BestTier >= 2
        /\ Refs # {} => Resolved # {}
    BY HighNeeds
  <2>2. MappedAll(library)
    BY RequestTypes DEF Answered
  <2>3. ranking # << >>
    <3>1. CASE Refs = {}
      BY <2>1, <3>1 DEF BestTier
    <3>2. CASE Refs # {}
      BY <2>1, <3>2 DEF Resolved, ToSet
    <3> QED BY <3>1, <3>2
  <2> DEFINE S == RankedHere
  <2> DEFINE c == Cardinality(S)
  <2>4. /\ c \in Nat /\ ranking \in [1..c -> S]
        /\ \A x \in S : x.doc \in DOMAIN library /\ x = StandingOf(library, x.doc, Question)
        /\ \A x \in S : Tier(x) <= Tier(first)
    <3>1. ranking = RankDocuments(library, request.stored, Question)
      BY <2>3 DEF EInv, BestQuoted
    <3> QED BY <2>2, <3>1, RankedDocuments DEF RankedHere
  <2> HIDE DEF S, c
  <2>5. first \in S
    <3>1. c = 0 => ranking = << >>
      BY <2>4
    <3>2. 1 \in 1..c
      BY <2>3, <2>4, <3>1
    <3> QED BY <2>4, <3>2
  <2> HIDE DEF library, first
  <2>6. /\ first.doc \in DOMAIN library /\ first.scores = Scores(library[first.doc], Question)
        /\ Tier(first) \in 0..4
        /\ Tier(first) > 0 => \E y \in first.scores : y.tier = Tier(first)
    <3> DEFINE d == first.doc
    <3>1. d \in DOMAIN library /\ first = StandingOf(library, d, Question)
      BY <2>4, <2>5
    <3> HIDE DEF d
    <3> QED BY <2>2, <3>1, StandingTypes DEF d
  <2>7. Refs # {} => Tier(first) = 4
    <3>1. SUFFICES ASSUME Refs # {} PROVE Tier(first) = 4
      OBVIOUS
    <3>2. PICK r \in Refs, x \in ToSet(ranking) : \E s \in SectionsOf(x.doc) : Matches(s, r)
      BY <2>1, <3>1 DEF Resolved
    <3>3. PICK s \in SectionsOf(x.doc) : Matches(s, r)
      BY <3>2
    <3>4. x \in S
      BY <2>4, <3>2 DEF ToSet
    <3>5. \E y \in Scores(library[x.doc], Question) : y.tier = 4
      BY <3>2, <3>3, RefTier DEF SectionsOf, Artifact, Refs, library
    <3>6. 4 <= Tier(x) /\ Tier(x) \in 0..4
      <4>1. x.doc \in DOMAIN library /\ x = StandingOf(library, x.doc, Question)
        BY <2>4, <3>4
      <4> DEFINE d == x.doc
      <4>2. d \in DOMAIN library /\ x = StandingOf(library, d, Question)
        BY <4>1
      <4> HIDE DEF d
      <4>3. /\ x.scores = Scores(library[d], Question) /\ Tier(x) \in 0..4
            /\ \A y \in x.scores : y.tier <= Tier(x)
        BY <2>2, <4>2, StandingTypes
      <4> QED BY <3>5, <4>3 DEF d
    <3>7. Tier(x) <= Tier(first)
      BY <2>4, <3>4
    <3> QED BY <2>6, <3>6, <3>7
  <2>8. Refs = {} => Tier(first) >= 2
    BY <2>1, <2>3 DEF BestTier, first
  <2>9. Tier(first) >= 2
    BY <2>6, <2>7, <2>8
  <2>10. PICK t \in first.scores : t.tier = Tier(first)
    BY <2>6, <2>9
  <2>11. PICK y \in Best(first.scores) : y \in first.scores /\ y.tier >= Tier(first)
    <3>1. Mapped(library[first.doc])
      BY <2>2, <2>6 DEF MappedAll
    <3>2. IsFiniteSet(first.scores) /\ \A z \in first.scores : Scored(library[first.doc], z)
      BY <2>6, <3>1, ScoreTypes
    <3>3. t.tier > 0
      BY <2>6, <2>9, <2>10
    <3> QED BY <2>10, <3>2, <3>3, BestHasBest
  <2>12. <<1, first.doc, y.section.start>> \in evidence
    <3>1. Tier(first) > 0
      BY <2>6, <2>9
    <3> QED BY <2>3, <2>11, <3>1 DEF EInv, BestQuoted, first
  <2>13. y.section \in SectionsOf(first.doc) /\ y.tier \in 0..4
    <3>1. Mapped(library[first.doc])
      BY <2>2, <2>6 DEF MappedAll
    <3>2. Scored(library[first.doc], y)
      BY <2>6, <2>11, <3>1, ScoreTypes
    <3> QED BY <3>2 DEF Scored, SectionsOf, Artifact, library
  <2>14. \/ \E r \in Refs : Matches(y.section, r)
         \/ Refs = {} /\ HeadingMatch(y.section.title, Question) \in {"exact", "strong"}
    <3>1. y \in Scores(library[first.doc], Question)
      BY <2>6, <2>11
    <3>2. CASE Refs # {}
      <4>1. y.tier >= 4
        BY <2>7, <2>11, <2>13, <3>2
      <4> QED BY <3>1, <4>1, TierNames DEF Refs
    <3>3. CASE Refs = {}
      <4>1. y.tier >= 2
        BY <2>6, <2>9, <2>11, <2>13
      <4> QED BY <3>1, <3>3, <4>1, TierNames DEF Refs
    <3> QED BY <3>2, <3>3
  <2> DEFINE e == <<1, first.doc, y.section.start>>
  <2>15. e[1] = 1 /\ e[2] = first.doc /\ e[3] = y.section.start /\ e \in evidence
    BY <2>12
  <2> HIDE DEF e
  <2> QED BY <2>1, <2>13, <2>14, <2>15 DEF HighIsShown
<1> QED BY <1>1, <1>2, <1>3, PTL DEF ExploreSpec

(***************************************************************************)
(* The opening of a session.                                               *)
(***************************************************************************)
-----------------------------------------------------------------------------
(* The walk. *)

RepoEntries == [dir : BOOLEAN, size : Nat]
Walks == [files : Nat, bytes : Nat, dirs : Nat, capped : BOOLEAN]

LEMMA VisitTyped == ASSUME NEW w \in Walks, NEW entry \in RepoEntries PROVE Visit(w, entry) \in Walks
<1>2. CASE w.capped
  BY <1>2 DEF Visit
<1>3. CASE ~ w.capped /\ entry.dir
  <2> DEFINE b == w.dirs + 1 > DirCap
  <2>1. b \in BOOLEAN
    OBVIOUS
  <2>2. Visit(w, entry) = [w EXCEPT !.dirs = @ + 1, !.capped = b]
    BY <1>3 DEF Visit
  <2> HIDE DEF b
  <2> DEFINE v == [w EXCEPT !.dirs = @ + 1]
  <2>3. v \in Walks
    BY DEF Walks
  <2>4. Visit(w, entry) = [v EXCEPT !.capped = b]
    BY <2>2
  <2> HIDE DEF v
  <2> QED BY <2>1, <2>3, <2>4 DEF Walks
<1>4. CASE ~ w.capped /\ ~ entry.dir
  <2> DEFINE b == w.files + 1 > LightFiles \/ w.bytes + entry.size > LightBytes
  <2>1. b \in BOOLEAN
    OBVIOUS
  <2>2. Visit(w, entry) = [w EXCEPT !.files = @ + 1, !.bytes = @ + entry.size, !.capped = b]
    BY <1>4 DEF Visit
  <2>3. entry.size \in Nat
    BY DEF RepoEntries
  <2> HIDE DEF b
  <2> DEFINE v == [w EXCEPT !.files = @ + 1]
  <2> DEFINE u == [v EXCEPT !.bytes = w.bytes + entry.size]
  <2>4. v \in Walks /\ v.bytes = w.bytes
    BY DEF Walks
  <2>5. Visit(w, entry) = [u EXCEPT !.capped = b]
    BY <2>2, <2>4
  <2> HIDE DEF v
  <2>6. u \in Walks
    BY <2>3, <2>4 DEF Walks
  <2> HIDE DEF u
  <2> QED BY <2>1, <2>5, <2>6 DEF Walks
<1> QED BY <1>2, <1>3, <1>4

\* Walked is where the loop of its visits ends.
LEMMA WalkRuns ==
    ASSUME NEW entries \in Seq(RepoEntries)
    PROVE  \E w \in [0..Len(entries) -> Walks] :
             /\ w[0] = Nothing /\ \A n \in 1..Len(entries) : w[n] = Visit(w[n - 1], entries[n])
             /\ Walked(entries) = w[Len(entries)]
<1> DEFINE N == Len(entries)
<1> DEFINE Eq(g) == g = [n \in 0..N |-> IF n = 0 THEN Nothing ELSE Visit(g[n - 1], entries[n])]
<1> DEFINE step == [p \in (1..N) \X Walks |-> Visit(p[2], entries[p[1]])]
<1> DEFINE h == CHOOSE g : Eq(g)
<1>0. N \in Nat /\ \A n \in 1..N : entries[n] \in RepoEntries
  OBVIOUS
<1>1. step \in [(1..N) \X Walks -> Walks]
  BY <1>0, VisitTyped
<1>2. Nothing \in Walks
  BY DEF Nothing, Walks
<1>3. PICK f \in [0..N -> Walks] : f[0] = Nothing /\ \A n \in 1..N : f[n] = step[<<n, f[n - 1]>>]
  <2>1. N \in Nat
    BY <1>0
  <2> HIDE DEF step, N, h, Eq
  <2>2. \E f \in [0..N -> Walks] : Loops(f, N, Nothing, step)
    BY <1>1, <1>2, <2>1, LoopRuns
  <2> QED BY <2>2 DEF Loops
<1>4. \A n \in 1..N : f[n] = Visit(f[n - 1], entries[n])
  <2>1. SUFFICES ASSUME NEW n \in 1..N PROVE f[n] = Visit(f[n - 1], entries[n])
    OBVIOUS
  <2>2. <<n, f[n - 1]>> \in (1..N) \X Walks
    BY <1>0
  <2>3. step[<<n, f[n - 1]>>] = Visit(f[n - 1], entries[n])
    BY <2>2
  <2> QED BY <1>3, <2>3
<1> HIDE DEF step
<1>5. Eq(f)
  <2> HIDE DEF N
  <2> QED BY <1>0, <1>3, <1>4
<1>6. Eq(h)
  BY <1>5
<1>7. Walked(entries) = h[N]
  BY DEF Walked
<1> HIDE DEF h, N
<1>8. h[0] = Nothing /\ \A n \in 1..N : h[n] = Visit(h[n - 1], entries[n])
  BY <1>0, <1>6
<1> DEFINE P == {n \in 0..N : h[n] \in Walks}
<1>9. 0 \in P
  BY <1>0, <1>2, <1>8
<1>10. ASSUME NEW n \in 1..N, n - 1 \in P PROVE n \in P
  BY <1>0, <1>8, <1>10, VisitTyped
<1>11. \A n \in 0..N : n \in P
  <2> HIDE DEF P
  <2> QED BY <1>0, <1>9, <1>10, StepByStep
<1>12. h \in [0..N -> Walks]
  BY <1>6, <1>11
<1> QED BY <1>7, <1>8, <1>12 DEF N

\* A walk that did not give up has counted every source file.
Sources(entries, n) == {i \in 1..n : ~ entries[i].dir}
LEMMA WalkCounts ==
    ASSUME NEW entries \in Seq(RepoEntries)
    PROVE  LET w == Walked(entries)
               sizes == [i \in 1..Len(entries) |-> entries[i].size]
               all == Sources(entries, Len(entries))
           IN /\ w \in Walks
              /\ w.capped => w.dirs > DirCap \/ w.files > LightFiles \/ w.bytes > LightBytes
              /\ ~ w.capped => w.files = Cardinality(all) /\ w.bytes = SumOf(sizes, all)
<1> DEFINE N == Len(entries)
<1> DEFINE sizes == [i \in 1..N |-> entries[i].size]
<1> DEFINE S(n) == Sources(entries, n)
<1>0. N \in Nat /\ (\A n \in 1..N : entries[n] \in RepoEntries) /\ {DirCap, LightFiles, LightBytes} \subseteq Nat
  BY OpeningAssumption
<1>1. PICK w \in [0..N -> Walks] :
         /\ w[0] = Nothing /\ \A n \in 1..N : w[n] = Visit(w[n - 1], entries[n])
         /\ Walked(entries) = w[N]
  BY WalkRuns
<1> HIDE DEF N
<1>2. \A i \in 1..N : sizes[i] \in Nat
  BY <1>0 DEF RepoEntries
<1>3. ASSUME NEW n \in 0..N
      PROVE  IsFiniteSet(S(n)) /\ Cardinality(S(n)) \in Nat /\ Integral(sizes, S(n))
  <2>1. IsFiniteSet(1..n)
    BY <1>0, FS_Interval
  <2>2. S(n) \in SUBSET (1..n) /\ S(n) \subseteq 1..N
    BY <1>0 DEF Sources
  <2>3. IsFiniteSet(S(n))
    BY <2>1, <2>2, FS_Subset
  <2>4. \A i \in S(n) : sizes[i] \in Int
    BY <1>2, <2>2
  <2> HIDE DEF sizes, S
  <2> QED BY <2>3, <2>4, FS_CardinalityType DEF Integral
<1> HIDE DEF sizes
<1> DEFINE Counted(n) ==
      /\ w[n].capped => w[n].dirs > DirCap \/ w[n].files > LightFiles \/ w[n].bytes > LightBytes
      /\ ~ w[n].capped => w[n].files = Cardinality(S(n)) /\ w[n].bytes = SumOf(sizes, S(n))
<1> DEFINE P == {n \in 0..N : Counted(n)}
<1>4. 0 \in P
  <2>1. S(0) = {}
    BY DEF Sources
  <2>2. Cardinality(S(0)) = 0 /\ SumOf(sizes, S(0)) = 0
    BY <2>1, FS_EmptySet, SumEmpty
  <2>3. Counted(0)
    BY <1>1, <2>2 DEF Nothing
  <2> QED BY <1>0, <2>3
<1>5. ASSUME NEW n \in 1..N, n - 1 \in P PROVE n \in P
  <2> DEFINE v == w[n - 1]
  <2> DEFINE e == entries[n]
  <2>0. n - 1 \in 0..N /\ n \in 0..N /\ Counted(n - 1) /\ w[n] = Visit(v, e) /\ v \in Walks /\ e \in RepoEntries
    BY <1>0, <1>1, <1>5
  <2>1. CASE v.capped
    <3>1. w[n] = v
      BY <2>0, <2>1 DEF Visit
    <3> QED BY <2>0, <2>1, <3>1
  <2>2. CASE ~ v.capped /\ e.dir
    <3>1. S(n) = S(n - 1)
      BY <1>0, <2>2 DEF Sources
    <3>2. /\ w[n].files = v.files /\ w[n].bytes = v.bytes
          /\ w[n].capped => w[n].dirs > DirCap
      BY <2>0, <2>2 DEF Visit, Walks
    <3> QED BY <2>0, <2>2, <3>1, <3>2
  <2>3. CASE ~ v.capped /\ ~ e.dir
    <3>1. n \in S(n) /\ S(n) \ {n} = S(n - 1)
      BY <1>0, <2>3 DEF Sources
    <3>2. Cardinality(S(n)) = Cardinality(S(n - 1)) + 1
      BY <1>3, <2>0, <3>1, SmallerSet
    <3>3. SumOf(sizes, S(n)) = sizes[n] + SumOf(sizes, S(n - 1))
      <4> HIDE DEF S
      <4> QED BY <1>3, <2>0, <3>1, SumRemove, SMTT(30)
    <3>4. sizes[n] = e.size /\ SumOf(sizes, S(n - 1)) \in Int /\ e.size \in Nat
      <4>1. sizes[n] = e.size /\ e.size \in Nat
        BY <2>0 DEF sizes, RepoEntries
      <4> QED BY <1>3, <2>0, <4>1, SumType
    <3>5. /\ w[n].files = v.files + 1 /\ w[n].bytes = v.bytes + e.size
          /\ w[n].capped => w[n].files > LightFiles \/ w[n].bytes > LightBytes
      BY <2>0, <2>3 DEF Visit, Walks, RepoEntries
    <3> HIDE DEF S, v, e
    <3>6. v.files = Cardinality(S(n - 1)) /\ v.bytes = SumOf(sizes, S(n - 1))
      BY <2>0, <2>3 DEF v
    <3>7. Counted(n)
      BY <3>2, <3>3, <3>4, <3>5, <3>6
    <3> QED BY <2>0, <3>7
  <2> QED BY <2>0, <2>1, <2>2, <2>3 DEF Walks
<1>6. Counted(N)
  <2>1. \A n \in 0..N : n \in P
    <3> HIDE DEF P
    <3> QED BY <1>0, <1>4, <1>5, StepByStep
  <2> QED BY <1>0, <2>1
<1>7. w[N] \in Walks
  BY <1>0, <1>1
<1> QED BY <1>1, <1>6, <1>7 DEF N, sizes

-----------------------------------------------------------------------------
(* Learned entries. *)

LearnedEntries == [confidence : Nat, size : Nat]

LEMMA SortedLearned ==
    ASSUME NEW learned \in Seq(LearnedEntries)
    PROVE  LET by == ByConfidence(learned)
               N == Len(learned)
           IN /\ by \in [1..N -> ToSet(learned)]
              /\ \A x \in ToSet(learned) : \E n \in 1..N : by[n] = x
              /\ \A k, m \in 1..N : k < m => by[m].confidence <= by[k].confidence
<1> DEFINE N == Len(learned)
<1> DEFINE D == DOMAIN learned
<1> DEFINE More(i, j) == MoreSure(learned, i, j)
<1> DEFINE R == {p \in D \X D : More(p[1], p[2])}
<1> DEFINE Nth(n, i) == Cardinality({j \in D : More(j, i)}) = n - 1
<1> DEFINE order == [n \in 1..Cardinality(D) |-> CHOOSE i \in D : Nth(n, i)]
<1>1. /\ N \in Nat /\ D = 1..N /\ IsFiniteSet(D) /\ Cardinality(D) = N
      /\ \A i \in D : learned[i] \in LearnedEntries /\ learned[i].confidence \in Nat /\ i \in Nat
  <2>1. N \in Nat /\ D = 1..N
    OBVIOUS
  <2>2. \A i \in D : learned[i] \in LearnedEntries /\ i \in Nat
    BY <2>1
  <2>4. \A i \in D : learned[i].confidence \in Nat
    <3> HIDE DEF D
    <3> QED BY <2>2 DEF LearnedEntries
  <2> HIDE DEF N, D
  <2>3. IsFiniteSet(1..N) /\ Cardinality(1..N) = N
    BY <2>1, FS_Interval
  <2> QED BY <2>1, <2>2, <2>3, <2>4
<1>2. ByConfidence(learned) = [n \in D |-> learned[order[n]]]
  BY DEF ByConfidence, InOrder
<1> HIDE DEF N, D, Nth, order
<1>3. ASSUME NEW i \in D, NEW j \in D PROVE <<i, j>> \in R <=> More(i, j)
  OBVIOUS
<1>4. StrictTotal(R, D)
  <2>0. ASSUME NEW i \in D, NEW j \in D
        PROVE  /\ learned[i].confidence \in Nat /\ learned[j].confidence \in Nat /\ i \in Nat /\ j \in Nat
               /\ More(i, j) <=> \/ learned[i].confidence > learned[j].confidence
                                 \/ learned[i].confidence = learned[j].confidence /\ i < j
    BY <1>1 DEF MoreSure
  <2>1. \A i \in D : <<i, i>> \notin R
    BY <1>3, <2>0
  <2>2. ASSUME NEW i \in D, NEW j \in D, NEW k \in D, <<i, j>> \in R, <<j, k>> \in R PROVE <<i, k>> \in R
    <3>1. More(i, j) /\ More(j, k)
      BY <1>3, <2>2
    <3>2. More(i, k)
      <4> HIDE DEF More
      <4> QED BY <2>0, <3>1
    <3> QED BY <1>3, <3>2
  <2>3. ASSUME NEW i \in D, NEW j \in D PROVE i = j \/ <<i, j>> \in R \/ <<j, i>> \in R
    <3>1. i = j \/ More(i, j) \/ More(j, i)
      <4> HIDE DEF More
      <4>1. /\ learned[i].confidence \in Nat /\ learned[j].confidence \in Nat /\ i \in Nat /\ j \in Nat
            /\ More(i, j) <=> \/ learned[i].confidence > learned[j].confidence
                              \/ learned[i].confidence = learned[j].confidence /\ i < j
            /\ More(j, i) <=> \/ learned[j].confidence > learned[i].confidence
                              \/ learned[j].confidence = learned[i].confidence /\ j < i
        BY <2>0
      <4> QED BY <4>1
    <3> QED BY <1>3, <3>1
  <2> HIDE DEF R
  <2> QED BY <2>1, <2>2, <2>3 DEF StrictTotal, Strict
<1>5. order = [n \in 1..Cardinality(D) |-> CHOOSE i \in D : Nth(n, i)]
  BY DEF order
<1>6. ASSUME NEW n \in Nat, NEW i \in D PROVE Nth(n, i) <=> Cardinality(Before(R, D, i)) = n - 1
  <2>1. {j \in D : More(j, i)} = Before(R, D, i)
    BY <1>3 DEF Before
  <2> QED BY ONLY <2>1 DEF Nth
<1> HIDE DEF R
<1>7. \A n \in 1..N : \E i \in D : Nth(n, i)
  <2>1. \A n \in 1..N : \E i \in D : Cardinality(Before(R, D, i)) = n - 1
    <3>1. \A n \in 1..Cardinality(D) : \E i \in D : Cardinality(Before(R, D, i)) = n - 1
      BY <1>1, <1>4, Places
    <3> QED BY <1>1, <3>1
  <2> QED BY <1>1, <1>6, <2>1
<1>8. \A n \in 1..N : order[n] \in D /\ Nth(n, order[n])
  BY <1>1, <1>5, <1>7
<1>9. Ordered(order, R, D)
  <2>1. order \in [1..Cardinality(D) -> D]
    BY <1>1, <1>5, <1>8
  <2>2. \A n \in 1..Cardinality(D) : Cardinality(Before(R, D, order[n])) = n - 1
    BY <1>1, <1>6, <1>8
  <2> QED BY <2>1, <2>2 DEF Ordered
<1> DEFINE by == ByConfidence(learned)
<1>10. \A n \in 1..N : by[n] = learned[order[n]] /\ by[n] \in ToSet(learned)
  BY <1>1, <1>2, <1>8 DEF ToSet, D
<1>11. by \in [1..N -> ToSet(learned)]
  BY <1>1, <1>2, <1>10
<1>12. ASSUME NEW x \in ToSet(learned) PROVE \E n \in 1..N : by[n] = x
  <2>1. PICK i \in D : learned[i] = x
    BY DEF ToSet, D
  <2>2. PICK n \in 1..Cardinality(D) : order[n] = i
    BY <1>1, <1>4, <1>9, <2>1, OrderedOnto
  <2> QED BY <1>1, <1>10, <2>1, <2>2
<1>13. ASSUME NEW k \in 1..N, NEW m \in 1..N, k < m PROVE by[m].confidence <= by[k].confidence
  <2>1. order[k] \in D /\ order[m] \in D
    BY <1>8
  <2>2. /\ Cardinality(Before(R, D, order[k])) = k - 1
        /\ Cardinality(Before(R, D, order[m])) = m - 1
    BY <1>1, <1>9 DEF Ordered
  <2>3. <<order[m], order[k]>> \notin R
    <3>1. SUFFICES ASSUME <<order[m], order[k]>> \in R PROVE FALSE
      OBVIOUS
    <3>2. m - 1 < k - 1
      BY <1>1, <1>4, <2>1, <2>2, <3>1, BeforeGrows DEF StrictTotal
    <3> QED BY <1>1, <1>13, <3>2
  <2>4. ~ More(order[m], order[k])
    BY <1>3, <2>1, <2>3
  <2>5. learned[order[m]].confidence <= learned[order[k]].confidence
    <3>1. learned[order[m]].confidence \in Nat /\ learned[order[k]].confidence \in Nat
      BY <1>1, <2>1
    <3> QED BY <2>4, <3>1 DEF MoreSure
  <2> QED BY <1>10, <2>5
<1> HIDE DEF by
<1> QED BY <1>11, <1>12, <1>13 DEF by, N

LEMMA TotalNat ==
    ASSUME NEW n \in Nat, NEW entries, DOMAIN entries = 1..n, \A i \in 1..n : entries[i].size \in Nat
    PROVE  Total(entries) \in Nat
<1> DEFINE f == [i \in 1..n |-> entries[i].size]
<1>1. Total(entries) = SumOf(f, 1..n)
  BY DEF Total, SumFunction, SumOf
<1>2. IsFiniteSet(1..n) /\ \A i \in 1..n : f[i] \in Nat
  BY FS_Interval
<1> HIDE DEF f
<1> QED BY <1>1, <1>2, SumNat

\* The learned entries that fit are the first of them by confidence.
LEMMA KeptLearned ==
    ASSUME NEW learned \in Seq(LearnedEntries)
    PROVE  /\ Total(Kept(learned)) \in Nat
           /\ \A out \in ToSet(learned) \ ToSet(Kept(learned)) : \A in \in ToSet(Kept(learned)) :
                out.confidence <= in.confidence
<1> DEFINE by == ByConfidence(learned)
<1> DEFINE N == Len(learned)
<1> DEFINE m == Max(Fitting(learned))
<1> DEFINE kept == Kept(learned)
<1>0. N \in Nat /\ \A x \in ToSet(learned) : x \in LearnedEntries
  BY DEF ToSet
<1>1. /\ by \in [1..N -> ToSet(learned)]
      /\ \A x \in ToSet(learned) : \E n \in 1..N : by[n] = x
      /\ \A k, l \in 1..N : k < l => by[l].confidence <= by[k].confidence
  BY SortedLearned
<1>2. m \in 0..N
  <2>1. Fitting(learned) \subseteq 0..N /\ 0 \in Fitting(learned)
    BY <1>0 DEF Fitting
  <2> HIDE DEF N
  <2>2. \E x \in Fitting(learned) : \A y \in Fitting(learned) : x >= y
    BY <1>0, <2>1, Greatest
  <2>3. m \in Fitting(learned)
    BY <2>2 DEF Max
  <2> QED BY <2>1, <2>3
<1>3. kept = SubSeq(by, 1, m)
  BY DEF Kept
<1> HIDE DEF by, N, m, kept
<1>4. by \in Seq(ToSet(learned)) /\ Len(by) = N
  BY <1>0, <1>1
<1>5. DOMAIN kept = 1..m /\ \A n \in 1..m : kept[n] = by[n]
  <2>1. kept \in Seq(ToSet(learned)) /\ Len(kept) = m /\ \A n \in 1..m : kept[n] = by[n]
    BY <1>0, <1>2, <1>3, <1>4
  <2> QED BY <2>1
<1>6. Total(kept) \in Nat
  <2>1. ASSUME NEW i \in 1..m PROVE kept[i].size \in Nat
    <3>1. i \in 1..N
      BY <1>0, <1>2
    <3>2. kept[i] \in LearnedEntries
      BY <1>0, <1>1, <1>5, <3>1
    <3> QED BY <3>2 DEF LearnedEntries
  <2>2. m \in Nat
    BY <1>0, <1>2
  <2> QED BY <1>5, <2>1, <2>2, TotalNat
<1>7. ASSUME NEW out \in ToSet(learned) \ ToSet(kept), NEW in \in ToSet(kept)
      PROVE  out.confidence <= in.confidence
  <2>1. PICK k \in 1..m : kept[k] = in
    BY <1>5 DEF ToSet
  <2>2. PICK l \in 1..N : by[l] = out
    BY <1>1
  <2>3. l \notin 1..m
    BY <1>5, <2>2 DEF ToSet
  <2>4. k \in 1..N /\ k < l
    BY <1>0, <1>2, <2>1, <2>2, <2>3
  <2>5. by[k] = in
    BY <1>5, <2>1
  <2> QED BY <1>1, <2>2, <2>4, <2>5
<1> QED BY <1>6, <1>7 DEF kept

-----------------------------------------------------------------------------
(* Tokens. *)

Room(book, posture) == [s \in Carried(book, posture) |-> SizeOf(book, s)]
Notes(book, dropped) ==
    (IF Len(Kept(book.learned)) < Len(book.learned) /\ "learned" \notin dropped THEN 1 ELSE 0)
    + (IF dropped = {} THEN 0 ELSE 1)

LEMMA SectionNames ==
    /\ Len(DegradeOrder) = 6 /\ ToSet(DegradeOrder) = {DegradeOrder[i] : i \in 1..6}
    /\ \A i \in 1..5 : DegradeOrder[i] # "keySymbols"
  BY DEF DegradeOrder, ToSet

LEMMA RoomNat ==
    ASSUME NEW book \in Codexes, NEW posture
    PROVE  LET all == Carried(book, posture)
               room == Room(book, posture)
           IN /\ IsFiniteSet(all) /\ \A s \in all : room[s] \in Nat
              /\ \A s \in all : s # "keySymbols" => room[s] > 0
<1> DEFINE all == Carried(book, posture)
<1>1. IsFiniteSet(all)
  <2> DEFINE n == Len(DegradeOrder)
  <2> DEFINE order == [i \in 1..n |-> DegradeOrder[i]]
  <2>1. n \in Nat /\ order \in Surjection(1..n, ToSet(DegradeOrder))
    BY SectionNames DEF Surjection
  <2> HIDE DEF order, n
  <2>2. IsFiniteSet(1..n)
    BY <2>1, FS_Interval
  <2>3. IsFiniteSet(ToSet(DegradeOrder))
    BY <2>1, <2>2, FS_Surjection
  <2>4. all \in SUBSET ToSet(DegradeOrder)
    BY DEF Carried
  <2> QED BY <2>3, <2>4, FS_Subset
<1>2. ASSUME NEW s \in all PROVE SizeOf(book, s) \in Nat /\ (s # "keySymbols" => SizeOf(book, s) > 0)
  <2>1. CASE s = "learned"
    <3>1. book.learned \in Seq(LearnedEntries)
      BY OpeningAssumption DEF LearnedEntries
    <3>2. Total(Kept(book.learned)) \in Nat
      BY <3>1, KeptLearned
    <3> QED BY <2>1, <3>2 DEF SizeOf
  <2>2. CASE s # "learned"
    <3>1. s \in DOMAIN book.sizes
      BY <2>2 DEF Carried
    <3> QED BY <2>2, <3>1, OpeningAssumption DEF SizeOf
  <2> QED BY <2>1, <2>2
<1> QED BY <1>1, <1>2 DEF Room

LEMMA TokensAre ==
    ASSUME NEW book \in Codexes, NEW posture, NEW dropped
    PROVE  /\ SumOf(Room(book, posture), Carried(book, posture) \ dropped) \in Nat
           /\ Notes(book, dropped) \in Nat /\ book.base \in Nat
           /\ Tokens(book, posture, dropped) =
                book.base + Notes(book, dropped)
                + SumOf(Room(book, posture), Carried(book, posture) \ dropped)
           /\ Tokens(book, posture, dropped) \in Nat
<1> DEFINE T == Carried(book, posture) \ dropped
<1> DEFINE room == Room(book, posture)
<1> DEFINE own == [s \in T |-> SizeOf(book, s)]
<1>1. IsFiniteSet(T) /\ \A s \in T : room[s] \in Nat /\ own[s] = room[s]
  <2>1. T \in SUBSET Carried(book, posture)
    OBVIOUS
  <2>2. IsFiniteSet(T)
    BY <2>1, RoomNat, FS_Subset
  <2> QED BY <2>2, RoomNat DEF Room
<1>2. SumOf(own, T) = SumOf(room, T) /\ SumOf(room, T) \in Nat
  <2> HIDE DEF T, room, own
  <2>1. Integral(room, T) /\ Integral(own, T)
    BY <1>1 DEF Integral
  <2> QED BY <1>1, <2>1, SumSame, SumNat
<1>3. Tokens(book, posture, dropped) = book.base + Notes(book, dropped) + SumOf(own, T)
  BY DEF Tokens, Notes, SumFunction, SumOf
<1>4. book.base \in Nat /\ Notes(book, dropped) \in Nat
  BY OpeningAssumption DEF Notes
<1> HIDE DEF T, room, own
<1> QED BY <1>2, <1>3, <1>4 DEF T, room

\* The fewer sections are dropped the longer the text, though a note may go.
LEMMA TokensGrow ==
    ASSUME NEW book \in Codexes, NEW posture, NEW B, B \subseteq Carried(book, posture),
           NEW A, A \subseteq B, \A s \in B \ A : s # "keySymbols"
    PROVE  Tokens(book, posture, B) <= Tokens(book, posture, A)
<1> DEFINE all == Carried(book, posture)
<1> DEFINE room == Room(book, posture)
<1> DEFINE SA == SumOf(room, all \ A)
<1> DEFINE SB == SumOf(room, all \ B)
<1> DEFINE NA == Notes(book, A)
<1> DEFINE NB == Notes(book, B)
<1>1. /\ SA \in Nat /\ SB \in Nat /\ NA \in Nat /\ NB \in Nat /\ book.base \in Nat
      /\ Tokens(book, posture, A) = book.base + NA + SA
      /\ Tokens(book, posture, B) = book.base + NB + SB
  BY TokensAre
<1>2. CASE A = B
  BY <1>1, <1>2
<1>3. CASE A # B
  <2>1. PICK x \in B \ A : TRUE
    BY <1>3
  <2>2. /\ all \ B \subseteq all \ A /\ x \in (all \ A) \ (all \ B) /\ x \in all
        /\ all \ A \in SUBSET all /\ B # {}
    BY <2>1
  <2>3. room[x] \in Nat /\ room[x] > 0
    BY <2>1, <2>2, RoomNat
  <2>4. SB + room[x] <= SA
    <3>1. IsFiniteSet(all \ A) /\ \A s \in all \ A : room[s] \in Nat
      BY <2>2, RoomNat, FS_Subset
    <3> HIDE DEF all, room
    <3> QED BY <2>2, <3>1, SumGrows
  <2>5. NB <= NA + 1
    BY <2>2 DEF Notes
  <2> HIDE DEF SA, SB, NA, NB, room
  <2> QED BY <1>1, <2>3, <2>4, <2>5
<1> QED BY <1>2, <1>3

-----------------------------------------------------------------------------
(* Dropping, and giving back. *)

FitsOrAll(book, posture, dropped) ==
    Tokens(book, posture, dropped) <= Budget \/ dropped = Carried(book, posture)

LEMMA DegradedFits ==
    ASSUME NEW book \in Codexes, NEW posture
    PROVE  /\ Degraded(book, posture) \subseteq Carried(book, posture)
           /\ FitsOrAll(book, posture, Degraded(book, posture))
<1> DEFINE fits == {n \in 0..6 : Tokens(book, posture, First(book, posture, n)) <= Budget}
<1>1. Degraded(book, posture) = First(book, posture, IF fits = {} THEN 6 ELSE Min(fits))
  BY SectionNames DEF Degraded
<1>2. \A n : First(book, posture, n) \subseteq Carried(book, posture)
  BY DEF First
<1>3. CASE fits = {}
  <2>1. First(book, posture, 6) = Carried(book, posture)
    BY SectionNames DEF First, Carried
  <2> QED BY <1>1, <1>3, <2>1 DEF FitsOrAll
<1>4. CASE fits # {}
  <2>1. Min(fits) \in fits
    <3>1. fits \subseteq Nat
      OBVIOUS
    <3> HIDE DEF fits
    <3>2. \E x \in fits : \A y \in fits : x <= y
      BY <1>4, <3>1, Least
    <3> QED BY <3>2 DEF Min
  <2>2. Tokens(book, posture, First(book, posture, Min(fits))) <= Budget
    <3> DEFINE n == Min(fits)
    <3>1. n \in fits
      BY <2>1
    <3> HIDE DEF n
    <3> QED BY <3>1 DEF n
  <2> QED BY <1>1, <1>2, <1>4, <2>2 DEF FitsOrAll
<1> QED BY <1>3, <1>4

\* Restored is where the loop of GivenBack ends.
LEMMA RestoreRuns ==
    ASSUME NEW book \in Codexes, NEW posture
    PROVE  \E left \in [0..6 -> SUBSET Carried(book, posture)] :
             /\ left[0] = Degraded(book, posture)
             /\ \A n \in 1..6 : left[n] = GivenBack(book, posture, left[n - 1], DegradeOrder[7 - n])
             /\ Restored(book, posture) = left[6]
<1> DEFINE V == SUBSET Carried(book, posture)
<1> DEFINE start == Degraded(book, posture)
<1> DEFINE Eq(g) == g = [n \in 0..6 |-> IF n = 0 THEN start
                                       ELSE GivenBack(book, posture, g[n - 1], DegradeOrder[6 + 1 - n])]
<1> DEFINE step == [p \in (1..6) \X V |-> GivenBack(book, posture, p[2], DegradeOrder[7 - p[1]])]
<1> DEFINE h == CHOOSE g : Eq(g)
<1>1. step \in [(1..6) \X V -> V]
  BY DEF GivenBack
<1>2. start \in V
  BY DegradedFits
<1>3. PICK f \in [0..6 -> V] : Loops(f, 6, start, step)
  <2> HIDE DEF step, h, Eq, start, V
  <2>1. \E f \in [0..6 -> V] : Loops(f, 6, start, step)
    BY <1>1, <1>2, LoopRuns
  <2> QED BY <2>1
<1>4. f[0] = start /\ \A n \in 1..6 : f[n] = GivenBack(book, posture, f[n - 1], DegradeOrder[7 - n])
  <2>1. ASSUME NEW n \in 1..6 PROVE f[n] = GivenBack(book, posture, f[n - 1], DegradeOrder[7 - n])
    <3>1. f[n] = step[<<n, f[n - 1]>>]
      BY <1>3 DEF Loops
    <3>2. n - 1 \in 0..6
      OBVIOUS
    <3>3. <<n, f[n - 1]>> \in (1..6) \X V
      BY <3>2
    <3> QED BY <3>1, <3>3
  <2> QED BY <1>3, <2>1 DEF Loops
<1> HIDE DEF step
<1>5. \A n \in 1..6 : 6 + 1 - n = 7 - n /\ n - 1 \in 0..6
  OBVIOUS
<1>6. Eq(f)
  <2> HIDE DEF start
  <2> QED BY <1>4, <1>5
<1>7. Eq(h)
  BY <1>6
<1>8. Restored(book, posture) = h[6]
  BY SectionNames DEF Restored
<1> HIDE DEF h
<1>9. h[0] = start /\ \A n \in 1..6 : h[n] = GivenBack(book, posture, h[n - 1], DegradeOrder[7 - n])
  <2> HIDE DEF start
  <2> QED BY <1>5, <1>7
<1> DEFINE P == {n \in 0..6 : h[n] \in V}
<1>10. 0 \in P
  BY <1>2, <1>9
<1>11. ASSUME NEW n \in 1..6, n - 1 \in P PROVE n \in P
  BY <1>9, <1>11 DEF GivenBack
<1>12. \A n \in 0..6 : n \in P
  <2> HIDE DEF P
  <2> QED BY <1>10, <1>11, StepByStep
<1>13. h \in [0..6 -> V]
  BY <1>7, <1>12
<1> QED BY <1>8, <1>9, <1>13

\* What stays dropped does not fit, with what is given back after it either: the
\* text only grows.
LEMMA RestoredFits ==
    ASSUME NEW book \in Codexes, NEW posture
    PROVE  LET dropped == Restored(book, posture)
           IN /\ dropped \subseteq Carried(book, posture) /\ FitsOrAll(book, posture, dropped)
              /\ \A s \in dropped : Tokens(book, posture, dropped \ {s}) > Budget
<1> DEFINE all == Carried(book, posture)
<1> DEFINE Tok(d) == Tokens(book, posture, d)
<1>0. Budget \in Nat /\ \A d : Tok(d) \in Nat
  BY OpeningAssumption, TokensAre
<1>1. PICK left \in [0..6 -> SUBSET all] :
         /\ left[0] = Degraded(book, posture)
         /\ \A n \in 1..6 : left[n] = GivenBack(book, posture, left[n - 1], DegradeOrder[7 - n])
         /\ Restored(book, posture) = left[6]
  BY RestoreRuns
<1> DEFINE Tried(n) == \A j \in 1..n : DegradeOrder[7 - j] \in left[n] => Tok(left[n] \ {DegradeOrder[7 - j]}) > Budget
<1> DEFINE P == {n \in 0..6 : FitsOrAll(book, posture, left[n]) /\ Tried(n)}
<1>2. 0 \in P
  BY <1>1, DegradedFits
<1>3. ASSUME NEW n \in 1..6, n - 1 \in P PROVE n \in P
  <2> DEFINE s == DegradeOrder[7 - n]
  <2> DEFINE before == left[n - 1]
  <2>1. before \in SUBSET all /\ FitsOrAll(book, posture, before) /\ Tried(n - 1)
    <3>1. n - 1 \in 0..6
      OBVIOUS
    <3> QED BY <1>1, <1>3, <3>1
  <2>2. left[n] = GivenBack(book, posture, before, s)
    BY <1>1
  <2>3. CASE s \in before /\ Tok(before \ {s}) <= Budget
    <3>1. left[n] = before \ {s}
      BY <2>2, <2>3 DEF GivenBack
    <3>2. FitsOrAll(book, posture, left[n])
      BY <2>3, <3>1 DEF FitsOrAll
    <3>3. ASSUME NEW j \in 1..n, DegradeOrder[7 - j] \in left[n]
          PROVE  Tok(left[n] \ {DegradeOrder[7 - j]}) > Budget
      <4> DEFINE t == DegradeOrder[7 - j]
      <4>1. t # s
        BY <3>1, <3>3
      <4>2. j # n
        BY <4>1
      <4>3. j \in 1..(n - 1) /\ 7 - n \in 1..5
        BY <4>2
      <4>4. s # "keySymbols"
        BY <4>3, SectionNames
      <4>5. Tok(before \ {t}) > Budget
        BY <2>1, <3>1, <3>3, <4>3
      <4> DEFINE A == left[n] \ {t}
      <4> DEFINE B == before \ {t}
      <4>6. B \subseteq all /\ A \subseteq B /\ \A x \in B \ A : x # "keySymbols"
        BY <2>1, <3>1, <4>4
      <4> HIDE DEF A, B
      <4>7. Tok(B) <= Tok(A)
        BY <4>6, TokensGrow
      <4>8. Tok(B) > Budget
        BY <4>5 DEF B
      <4>9. Tok(A) \in Nat /\ Tok(B) \in Nat
        BY <1>0
      <4> HIDE DEF Tok
      <4>10. Tok(A) > Budget
        BY <1>0, <4>7, <4>8, <4>9
      <4> QED BY <4>10 DEF A
    <3> QED BY <3>2, <3>3
  <2>4. CASE ~ (s \in before /\ Tok(before \ {s}) <= Budget)
    <3>1. left[n] = before
      BY <2>2, <2>4 DEF GivenBack
    <3>2. ASSUME NEW j \in 1..n, DegradeOrder[7 - j] \in left[n]
          PROVE  Tok(left[n] \ {DegradeOrder[7 - j]}) > Budget
      <4>1. CASE j = n
        <5>1. s \in before /\ ~ (Tok(before \ {s}) <= Budget)
          BY <2>4, <3>1, <3>2, <4>1
        <5>2. Tok(before \ {s}) \in Nat
          BY <1>0
        <5>3. Tok(before \ {s}) > Budget
          <6> DEFINE k == Tok(before \ {s})
          <6>1. k \in Nat /\ ~ (k <= Budget)
            BY <5>1, <5>2
          <6> HIDE DEF k
          <6>2. k > Budget
            BY <1>0, <6>1
          <6> QED BY <6>2 DEF k
        <5> QED BY <3>1, <4>1, <5>3
      <4>2. CASE j # n
        <5>1. j \in 1..(n - 1)
          BY <4>2
        <5> QED BY <2>1, <3>1, <3>2, <5>1
      <4> QED BY <4>1, <4>2
    <3> QED BY <2>1, <3>1, <3>2
  <2> QED BY <2>3, <2>4
<1>4. FitsOrAll(book, posture, left[6]) /\ Tried(6)
  <2>1. \A n \in 0..6 : n \in P
    <3> HIDE DEF P
    <3> QED BY <1>2, <1>3, StepByStep
  <2>2. 6 \in P
    <3> HIDE DEF P
    <3> QED BY <2>1
  <2> HIDE DEF Tried
  <2> QED BY <2>2
<1>5. left[6] \subseteq all
  BY <1>1
<1>6. ASSUME NEW s \in left[6] PROVE Tok(left[6] \ {s}) > Budget
  <2>1. s \in ToSet(DegradeOrder)
    BY <1>5 DEF Carried
  <2>2. PICK i \in 1..6 : DegradeOrder[i] = s
    BY <2>1, SectionNames
  <2>3. 7 - i \in 1..6 /\ 7 - (7 - i) = i
    OBVIOUS
  <2>4. DegradeOrder[7 - (7 - i)] = s
    BY <2>2, <2>3
  <2> QED BY <1>4, <2>3, <2>4
<1> QED BY <1>1, <1>4, <1>5, <1>6

-----------------------------------------------------------------------------
(* The theorem. *)

\* What a session opened with is what its repository and its codex decide.
OpenedInv ==
    opened # Unopened =>
      \E r \in Repositories, c \in Codexes :
        LET posture == Posture(r, c)
        IN opened = [posture |-> posture, repository |-> r, codex |-> c,
                     injection |-> IF posture = "idle" THEN "none" ELSE BuildInjection(c, posture)]

LEMMA IdleDecided ==
    ASSUME NEW r \in Repositories, NEW c \in Codexes, Posture(r, c) = "idle", r.pinned = "none"
    PROVE  /\ Cardinality(SourceFiles(r)) <= IdleFiles
           /\ SumFunction([i \in SourceFiles(r) |-> r.entries[i].size]) <= IdleBytes
           /\ ~ Knows(c)
<1> DEFINE w == Walked(r.entries)
<1> DEFINE N == Len(r.entries)
<1> DEFINE sizes == [i \in 1..N |-> r.entries[i].size]
<1> DEFINE all == Sources(r.entries, N)
<1>0. /\ r.entries \in Seq(RepoEntries) /\ c.files \in Nat
      /\ {IdleFiles, IdleBytes, LightFiles, LightBytes} \subseteq Nat
  BY OpeningAssumption DEF RepoEntries
<1>1. /\ w \in Walks
      /\ w.capped => w.dirs > DirCap \/ w.files > LightFiles \/ w.bytes > LightBytes
      /\ ~ w.capped => w.files = Cardinality(all) /\ w.bytes = SumOf(sizes, all)
  BY <1>0, WalkCounts
<1> HIDE DEF w
<1>2. /\ ~ Aborted(w) /\ ~ (FilesOf(r, c) > LightFiles) /\ ~ (w.bytes > LightBytes)
      /\ ~ Knows(c) /\ FilesOf(r, c) <= IdleFiles /\ w.bytes <= IdleBytes
  BY DEF Posture, w
<1>3. w.files \in Nat /\ w.bytes \in Nat
  BY <1>1 DEF Walks
<1>4. FilesOf(r, c) \in Nat /\ w.files <= FilesOf(r, c)
  <2> DEFINE S == {c.files, w.files}
  <2> DEFINE n == IF c.files <= w.files THEN w.files ELSE c.files
  <2>1. n \in S /\ \A y \in S : n >= y
    BY <1>0, <1>3
  <2>2. S \subseteq Nat
    BY <1>0, <1>3
  <2> HIDE DEF S
  <2>3. Max(S) \in S /\ \A y \in S : Max(S) >= y
    BY <2>1 DEF Max
  <2>4. FilesOf(r, c) = Max(S) /\ w.files \in S
    BY DEF FilesOf, S, w
  <2> DEFINE m == Max(S)
  <2>5. m \in Nat /\ m >= w.files
    BY <2>2, <2>3, <2>4
  <2> HIDE DEF m
  <2>6. w.files <= m
    BY <1>3, <2>5
  <2> QED BY <2>4, <2>5, <2>6 DEF m
<1>5. ~ w.capped
  BY <1>0, <1>1, <1>2, <1>3, <1>4 DEF Aborted
<1>6. SourceFiles(r) = all
  BY <1>0 DEF SourceFiles, Sources
<1>7. SumFunction([i \in SourceFiles(r) |-> r.entries[i].size]) = SumOf(sizes, all)
  <2> DEFINE own == [i \in all |-> r.entries[i].size]
  <2>1. N \in Nat /\ \A i \in 1..N : r.entries[i] \in RepoEntries
    BY <1>0
  <2> HIDE DEF N
  <2>2. all \in SUBSET (1..N) /\ IsFiniteSet(1..N)
    <3>1. IsFiniteSet(1..N)
      BY <2>1, FS_Interval
    <3>2. all \subseteq 1..N
      BY DEF Sources
    <3> QED BY <3>1, <3>2
  <2>3. IsFiniteSet(all)
    BY <2>2, FS_Subset
  <2>4. \A i \in all : own[i] = sizes[i] /\ sizes[i] \in Int
    BY <2>1, <2>2 DEF RepoEntries
  <2>5. SumFunction([i \in SourceFiles(r) |-> r.entries[i].size]) = SumOf(own, all)
    BY <1>6 DEF SumFunction, SumOf
  <2> HIDE DEF own, sizes, all
  <2>6. Integral(own, all) /\ Integral(sizes, all)
    BY <2>3, <2>4 DEF Integral
  <2>7. SumOf(own, all) = SumOf(sizes, all)
    BY <2>4, <2>6, SumSame
  <2> QED BY <2>5, <2>7
<1> HIDE DEF all, sizes, N
<1>8. Cardinality(all) <= IdleFiles
  BY <1>0, <1>1, <1>2, <1>3, <1>4, <1>5
<1> QED BY <1>1, <1>2, <1>5, <1>6, <1>7, <1>8

\* A session opens idle by itself only where there is little to govern and
\* nothing to teach, and an injection keeps to its budget where it can and gives
\* up nothing that would fit (posture.ts, buildInjection in book.ts): for any
\* repository and book.
THEOREM OpensSo == OpeningSpec => []OpensInProportion
<1>1. OpeningInit => OpenedInv
  BY DEF OpeningInit, OpenedInv
<1>2. OpenedInv /\ [OpeningNext]_opened => OpenedInv'
  BY DEF OpeningNext, Open, OpenedInv
<1>3. OpenedInv => OpensInProportion
  <2> SUFFICES ASSUME OpenedInv PROVE IdleIsSmall /\ InjectionFits
    BY DEF OpensInProportion
  <2>1. CASE opened = Unopened
    BY <2>1 DEF Unopened, IdleIsSmall, InjectionFits
  <2>2. CASE opened # Unopened
    <3>1. PICK r \in Repositories, c \in Codexes :
            opened = [posture |-> Posture(r, c), repository |-> r, codex |-> c,
                      injection |-> IF Posture(r, c) = "idle" THEN "none"
                                    ELSE BuildInjection(c, Posture(r, c))]
      BY <2>2 DEF OpenedInv
    <3> DEFINE posture == Posture(r, c)
    <3>2. /\ opened.posture = posture /\ opened.repository = r /\ opened.codex = c
          /\ posture # "idle" => opened.injection = BuildInjection(c, posture)
      BY <3>1
    <3>3. IdleIsSmall
      <4> HIDE DEF posture
      <4> QED BY <3>2, IdleDecided DEF IdleIsSmall, posture
    <3>4. InjectionFits
      <4> HIDE DEF posture
      <4>1. SUFFICES ASSUME posture \in {"full", "light"}
                     PROVE  LET i == BuildInjection(c, posture)
                            IN /\ i.tokens <= Budget \/ i.dropped = Carried(c, posture)
                               /\ \A s \in i.dropped : Tokens(c, posture, i.dropped \ {s}) > Budget
                               /\ \A out \in i.excluded : \A kept \in ToSet(i.learned) :
                                    out.confidence <= kept.confidence
        BY <3>2 DEF InjectionFits
      <4> DEFINE i == BuildInjection(c, posture)
      <4>2. /\ i.dropped = Restored(c, posture)
            /\ i.tokens = Tokens(c, posture, Restored(c, posture))
            /\ i.excluded = ToSet(c.learned) \ ToSet(Kept(c.learned))
            /\ i.learned = << >> \/ i.learned = Kept(c.learned)
        BY DEF BuildInjection
      <4> HIDE DEF i
      <4>3. /\ FitsOrAll(c, posture, i.dropped)
            /\ \A s \in i.dropped : Tokens(c, posture, i.dropped \ {s}) > Budget
        BY <4>2, RestoredFits
      <4>4. ASSUME NEW out \in i.excluded, NEW kept \in ToSet(i.learned)
            PROVE  out.confidence <= kept.confidence
        <5>1. kept \in ToSet(Kept(c.learned))
          BY <4>2 DEF ToSet
        <5>2. c.learned \in Seq(LearnedEntries)
          BY OpeningAssumption DEF LearnedEntries
        <5> QED BY <4>2, <5>1, <5>2, KeptLearned
      <4> QED BY <4>2, <4>3, <4>4 DEF FitsOrAll, i
    <3> QED BY <3>3, <3>4
  <2> QED BY <2>1, <2>2
<1> QED BY <1>1, <1>2, <1>3, PTL DEF OpeningSpec

(***************************************************************************)
(* The installation.                                                       *)
(***************************************************************************)
FileStates == [user : Nat, ours : Nat]
Trees == [Managed -> FileStates]

Commands ==
    [name : {"idle", "copy", "write", "restore", "folders"}, left : SUBSET Managed,
     made : SUBSET Folders]
Manifests == [existed : SUBSET Managed, created : SUBSET Folders]

InstallTypeOK ==
    /\ files \in Trees
    /\ folders \in SUBSET Folders
    /\ backup \in Trees
    /\ manifest \in Manifests \cup {NoManifest}
    /\ command \in Commands
    /\ inits \in Nat /\ edits \in Nat
    /\ original \in [files : Trees, folders : SUBSET Folders]
    /\ pristine \in [files : BOOLEAN, run : BOOLEAN]

\* Which command can be at work with and without a manifest.
Stages ==
    /\ command.name \in {"write", "restore"} => manifest # NoManifest
    /\ command.name \in {"copy", "folders"} => manifest = NoManifest
    /\ command.name = "idle" => command = Idle
    /\ inits = 0 =>
         /\ command = Idle /\ manifest = NoManifest
         /\ pristine.files /\ pristine.run

\* Where no init has begun to write, or a remove is through, the files are the
\* original ones; a copy taken so far is of an original file; a remove at work
\* has put back what it is through with.
FilesKept ==
    /\ manifest = NoManifest => files = original.files
    /\ command.name = "copy" =>
         \A f \in Managed \ command.left : backup[f] = original.files[f]
    /\ manifest # NoManifest =>
         /\ backup = original.files
         /\ manifest.existed = {f \in Managed : original.files[f] # Absent}
    /\ command.name = "restore" =>
         \A f \in Managed \ command.left : files[f] = original.files[f]

\* The folders init made are those that were missing, and they are on record
\* until remove is through with them.
New == Folders \ original.folders
FoldersKept ==
    /\ manifest = NoManifest /\ command = Idle => folders = original.folders
    /\ manifest # NoManifest => folders = Folders /\ manifest.created = New
    /\ command.name \in {"copy", "restore", "folders"} => folders = Folders /\ command.made = New

\* A file that was there had its folder.
Sheltered == \A f \in Managed :
    original.files[f] # Absent => FolderOf[f] \in original.folders \cup {"none"}

InstallInv ==
    /\ Stages
    /\ Sheltered
    /\ pristine.files => FilesKept
    /\ pristine.files /\ pristine.run => FoldersKept

-----------------------------------------------------------------------------
(* Types. *)

LEMMA ManifestApart == NoManifest \notin Manifests
<1>1. ASSUME NEW m \in Manifests PROVE "created" \in DOMAIN m
  BY <1>1 DEF Manifests
<1>2. "created" \notin DOMAIN NoManifest
  BY DEF NoManifest
<1> QED BY <1>1, <1>2

LEMMA FolderType == ASSUME NEW f \in Managed PROVE {FolderOf[f]} \ {"none"} \subseteq Folders
BY InstallAssumption

LEMMA InstallInitTyped == InstallInit => InstallTypeOK
BY DEF InstallInit, InstallTypeOK, Trees, FileStates, Absent, Commands, Idle

LEMMA InstallNextTyped == ASSUME InstallTypeOK, [InstallNext]_installVars PROVE InstallTypeOK'
<1>1. Absent \in FileStates /\ Idle \in Commands
  BY DEF Absent, FileStates, Idle, Commands
<1>2. ASSUME NEW f \in Managed, EditFile(f) PROVE InstallTypeOK'
  <2>1. files' \in Trees
    <3>1. files[f] \in FileStates /\ edits + 2 \in Nat
      BY <1>2 DEF InstallTypeOK, Trees
    <3>2. [files[f] EXCEPT !.user = edits + 2] \in FileStates
      BY <3>1 DEF FileStates
    <3> QED BY <1>2, <3>2 DEF EditFile, InstallTypeOK, Trees
  <2>2. folders' \in SUBSET Folders
    BY <1>2, FolderType DEF EditFile, InstallTypeOK
  <2>3. /\ original' \in [files : Trees, folders : SUBSET Folders]
        /\ pristine' \in [files : BOOLEAN, run : BOOLEAN]
    <3>1. CASE inits = 0
      <4>1. original' = [files |-> files', folders |-> folders'] /\ pristine' = pristine
        BY <1>2, <3>1 DEF EditFile
      <4> QED BY <2>1, <2>2, <4>1 DEF InstallTypeOK
    <3>2. CASE inits # 0
      <4>1. original' = original /\ pristine' = [pristine EXCEPT !.files = FALSE]
        BY <1>2, <3>2 DEF EditFile
      <4> QED BY <4>1 DEF InstallTypeOK
    <3> QED BY <3>1, <3>2
  <2> QED BY <1>2, <2>1, <2>2, <2>3 DEF EditFile, InstallTypeOK
<1>3. CASE DeleteDcp
  <2>1. backup' \in Trees
    BY <1>1, <1>3 DEF DeleteDcp, Trees
  <2>2. pristine' \in [files : BOOLEAN, run : BOOLEAN]
    BY <1>3 DEF DeleteDcp, InstallTypeOK
  <2> QED BY <1>3, <2>1, <2>2 DEF DeleteDcp, InstallTypeOK
<1>4. CASE Die
  <2>1. pristine' \in [files : BOOLEAN, run : BOOLEAN]
    BY <1>4 DEF Die, InstallTypeOK
  <2> QED BY <1>1, <1>4, <2>1 DEF Die, InstallTypeOK
<1>5. CASE StartInit
  <2>1. command' \in Commands
    BY <1>5 DEF StartInit, InstallTypeOK, Commands
  <2> QED BY <1>5, <2>1 DEF StartInit, InstallTypeOK
<1>6. ASSUME NEW f \in Managed, Copy(f) PROVE InstallTypeOK'
  <2>1. backup' \in Trees
    BY <1>6 DEF Copy, InstallTypeOK, Trees
  <2>2. command' \in Commands
    BY <1>6 DEF Copy, InstallTypeOK, Commands
  <2> QED BY <1>6, <2>1, <2>2 DEF Copy, InstallTypeOK
<1>7. CASE Register
  <2>1. manifest' \in Manifests /\ command' \in Commands
    BY <1>7 DEF Register, InstallTypeOK, Commands, Manifests
  <2> QED BY <1>7, <2>1 DEF Register, InstallTypeOK
<1>8. ASSUME NEW f \in Managed, Write(f) PROVE InstallTypeOK'
  <2>1. Installed(f, files[f]) \in FileStates
    BY DEF Installed, InstallTypeOK, Trees, FileStates
  <2>2. files' \in Trees
    BY <1>8, <2>1 DEF Write, InstallTypeOK, Trees
  <2>3. folders' \in SUBSET Folders
    BY <1>8, FolderType DEF Write, InstallTypeOK
  <2>4. command' \in Commands
    BY <1>8 DEF Write, InstallTypeOK, Commands
  <2> QED BY <1>8, <2>2, <2>3, <2>4 DEF Write, InstallTypeOK
<1>9. CASE EndInit
  BY <1>1, <1>9 DEF EndInit, InstallTypeOK
<1>10. CASE StartRemove
  <2>1. manifest \in Manifests
    BY <1>10 DEF StartRemove, InstallTypeOK
  <2>2. command' \in Commands
    BY <1>10, <2>1 DEF StartRemove, Commands, Manifests
  <2> QED BY <1>10, <2>2 DEF StartRemove, InstallTypeOK
<1>11. ASSUME NEW f \in Managed, Restore(f) PROVE InstallTypeOK'
  <2>1. files' \in Trees
    BY <1>1, <1>11 DEF Restore, InstallTypeOK, Trees
  <2>2. command' \in Commands
    BY <1>11 DEF Restore, InstallTypeOK, Commands
  <2> QED BY <1>11, <2>1, <2>2 DEF Restore, InstallTypeOK
<1>12. CASE RemoveDcp
  <2>1. backup' \in Trees
    BY <1>1, <1>12 DEF RemoveDcp, Trees
  <2>2. command' \in Commands
    BY <1>12 DEF RemoveDcp, InstallTypeOK, Commands
  <2> QED BY <1>12, <2>1, <2>2 DEF RemoveDcp, InstallTypeOK
<1>13. CASE RemoveFolders
  BY <1>1, <1>13 DEF RemoveFolders, InstallTypeOK
<1>14. CASE UNCHANGED installVars
  BY <1>14 DEF installVars, InstallTypeOK
<1> QED BY <1>2, <1>3, <1>4, <1>5, <1>6, <1>7, <1>8, <1>9, <1>10, <1>11, <1>12, <1>13, <1>14
        DEF InstallNext

\* Every reachable state of the installer is well typed.
THEOREM InstallTyped == InstallSpec => []InstallTypeOK
<1>1. InstallTypeOK /\ [InstallNext]_installVars => InstallTypeOK'
  BY InstallNextTyped
<1> QED BY <1>1, InstallInitTyped, PTL DEF InstallSpec

-----------------------------------------------------------------------------
(* The invariant, one lemma per action. *)

LEMMA InitKept == ASSUME InstallInit PROVE InstallInv
<1>1. original.files = files /\ original.folders = folders
  BY DEF InstallInit
<1>2. Idle.name = "idle"
  BY DEF Idle
<1>3. command = Idle /\ manifest = NoManifest
  BY DEF InstallInit
<1> QED BY <1>1, <1>2, <1>3 DEF InstallInit, InstallInv, Stages, FilesKept, FoldersKept, Sheltered

LEMMA EditFileKeeps ==
  ASSUME InstallTypeOK, InstallInv, NEW f \in Managed, EditFile(f) PROVE InstallInv'
<1>1. CASE inits = 0
  <2>1. original'.files = files' /\ original'.folders = folders' /\ Idle.name = "idle"
    BY <1>1 DEF EditFile, Idle
  <2>2. command' = Idle /\ manifest' = NoManifest /\ pristine' = pristine /\ inits' = 0
        /\ pristine.files /\ pristine.run
    BY <1>1 DEF EditFile, InstallInv, Stages
  <2>3. Sheltered'
    <3>1. original.files = files /\ original.folders = folders
      BY <1>1 DEF InstallInv, Stages, FilesKept, FoldersKept
    <3> QED BY <2>1, <3>1 DEF Sheltered, InstallInv, EditFile, InstallTypeOK, Trees
  <2> QED BY <2>1, <2>2, <2>3 DEF InstallInv, Stages, FilesKept, FoldersKept
<1>2. CASE inits # 0
  <2>1. ~pristine'.files /\ original' = original /\ inits' = inits /\ command' = command
        /\ manifest' = manifest
    BY <1>2 DEF EditFile, InstallTypeOK
  <2> QED BY <1>2, <2>1 DEF InstallInv, Stages, Sheltered
<1> QED BY <1>1, <1>2

\* A step with a command at work, which an init has preceded, and that is no
\* accident: the ghosts stay, and each part of the invariant is left to show.
LEMMA WorkKeeps ==
  ASSUME InstallInv, UNCHANGED <<original, pristine>>,
         Stages',
         pristine.files /\ FilesKept => FilesKept',
         pristine.files /\ pristine.run /\ FilesKept /\ FoldersKept => FoldersKept'
  PROVE  InstallInv'
BY DEF InstallInv, Sheltered

LEMMA DeleteDcpKeeps == ASSUME InstallTypeOK, InstallInv, DeleteDcp PROVE InstallInv'
<1>1. ~pristine'.files /\ Idle.name = "idle"
  BY DEF DeleteDcp, InstallTypeOK, Idle
<1>2. Stages'
  BY <1>1 DEF DeleteDcp, InstallInv, Stages
<1> QED BY <1>1, <1>2 DEF DeleteDcp, InstallInv, Sheltered

LEMMA DieKeeps == ASSUME InstallTypeOK, InstallInv, Die PROVE InstallInv'
<1>1. ~pristine'.run /\ pristine'.files = pristine.files /\ Idle.name = "idle"
  BY DEF Die, InstallTypeOK, Idle
<1>2. Stages'
  BY <1>1 DEF Die, InstallInv, Stages
<1>3. FilesKept => FilesKept'
  BY <1>1 DEF Die, FilesKept
<1> QED BY <1>1, <1>2, <1>3 DEF Die, InstallInv, Sheltered

LEMMA StartInitKeeps == ASSUME InstallTypeOK, InstallInv, StartInit PROVE InstallInv'
<1> DEFINE next == [name |-> IF FirstInit THEN "copy" ELSE "write", left |-> Managed,
                    made |-> IF FirstInit THEN Folders \ folders ELSE {}]
<1>1. command' = next /\ next.left = Managed /\ next.name # "idle" /\ inits' # 0
  BY DEF StartInit, InstallTypeOK
<1>2. next.name \in {"copy", "write"} /\ (next.name = "copy" <=> manifest = NoManifest)
  BY DEF FirstInit
<1>3. next.name = "copy" => next.made = Folders \ folders
  BY DEF FirstInit
<1>4. Idle.name = "idle" /\ command = Idle
  BY DEF Idle, StartInit
<1> HIDE DEF next
<1>5. Stages'
  BY <1>1, <1>2 DEF StartInit, Stages
<1>6. FilesKept => FilesKept'
  BY <1>1, <1>2 DEF StartInit, FilesKept
<1>7. FoldersKept => FoldersKept'
  BY <1>1, <1>2, <1>3, <1>4 DEF StartInit, FoldersKept, New, FirstInit
<1> QED BY <1>5, <1>6, <1>7, WorkKeeps DEF StartInit

LEMMA CopyKeeps ==
  ASSUME InstallTypeOK, InstallInv, NEW f \in Managed, Copy(f) PROVE InstallInv'
<1>1. /\ command'.name = "copy" /\ command'.left = command.left \ {f}
      /\ command'.made = command.made /\ command' # Idle
  BY DEF Copy, InstallTypeOK, Commands, Idle
<1>2. backup'[f] = files[f] /\ \A g \in Managed \ {f} : backup'[g] = backup[g]
  BY DEF Copy, InstallTypeOK, Trees
<1>3. Stages'
  BY <1>1 DEF Copy, InstallInv, Stages, Idle
<1>4. FilesKept => FilesKept'
  <2>1. manifest = NoManifest
    BY DEF Copy, InstallInv, Stages
  <2> QED BY <1>1, <1>2, <2>1 DEF Copy, FilesKept
<1>5. FoldersKept => FoldersKept'
  BY <1>1 DEF Copy, FoldersKept, New
<1> QED BY <1>3, <1>4, <1>5, WorkKeeps DEF Copy

LEMMA RegisterKeeps == ASSUME InstallTypeOK, InstallInv, Register PROVE InstallInv'
<1>1. /\ command'.name = "write" /\ command' # Idle /\ manifest = NoManifest /\ command # Idle
  BY DEF Register, Idle, InstallInv, Stages
<1>2. manifest' # NoManifest
  <2>1. "created" \in DOMAIN manifest' /\ "created" \notin DOMAIN NoManifest
    BY DEF Register, NoManifest
  <2> QED BY <2>1
<1>3. Stages'
  BY <1>1, <1>2 DEF Register, InstallInv, Stages
<1>4. FilesKept => FilesKept'
  <2> SUFFICES ASSUME FilesKept PROVE FilesKept'
    OBVIOUS
  <2>1. files = original.files /\ \A f \in Managed : backup[f] = original.files[f]
    BY <1>1 DEF Register, FilesKept
  <2>2. backup = original.files
    BY <2>1 DEF InstallTypeOK, Trees
  <2> QED BY <1>1, <1>2, <2>1, <2>2 DEF Register, FilesKept
<1>5. FoldersKept => FoldersKept'
  BY <1>1, <1>2 DEF Register, FoldersKept, New
<1> QED BY <1>3, <1>4, <1>5, WorkKeeps DEF Register

LEMMA WriteKeeps ==
  ASSUME InstallTypeOK, InstallInv, NEW f \in Managed, Write(f) PROVE InstallInv'
<1>1. /\ command'.name = "write" /\ command' # Idle /\ manifest # NoManifest
  BY DEF Write, InstallTypeOK, Commands, Idle, InstallInv, Stages
<1>2. folders = Folders => folders' = Folders
  BY FolderType DEF Write
<1>3. Stages'
  BY <1>1 DEF Write, InstallInv, Stages, Idle
<1>4. FilesKept => FilesKept'
  BY <1>1 DEF Write, FilesKept
<1>5. FoldersKept => FoldersKept'
  BY <1>1, <1>2 DEF Write, FoldersKept, New
<1> QED BY <1>3, <1>4, <1>5, WorkKeeps DEF Write

LEMMA EndInitKeeps == ASSUME InstallTypeOK, InstallInv, EndInit PROVE InstallInv'
<1>1. Idle.name = "idle" /\ manifest # NoManifest
  BY DEF Idle, EndInit, InstallInv, Stages
<1>2. Stages'
  BY <1>1 DEF EndInit, InstallInv, Stages
<1>3. FilesKept => FilesKept'
  BY <1>1 DEF EndInit, FilesKept
<1>4. FoldersKept => FoldersKept'
  BY <1>1 DEF EndInit, FoldersKept, New
<1> QED BY <1>2, <1>3, <1>4, WorkKeeps DEF EndInit

LEMMA StartRemoveKeeps == ASSUME InstallTypeOK, InstallInv, StartRemove PROVE InstallInv'
<1>1. /\ command'.name = "restore" /\ command'.left = Managed /\ command'.made = manifest.created
      /\ command' # Idle /\ manifest # NoManifest
  BY DEF StartRemove, Idle
<1>2. Stages'
  BY <1>1 DEF StartRemove, InstallInv, Stages
<1>3. FilesKept => FilesKept'
  BY <1>1 DEF StartRemove, FilesKept
<1>4. FoldersKept => FoldersKept'
  BY <1>1 DEF StartRemove, FoldersKept, New
<1> QED BY <1>2, <1>3, <1>4, WorkKeeps DEF StartRemove

LEMMA RestoreKeeps ==
  ASSUME InstallTypeOK, InstallInv, NEW f \in Managed, Restore(f) PROVE InstallInv'
<1>1. /\ command'.name = "restore" /\ command'.left = command.left \ {f}
      /\ command'.made = command.made /\ command' # Idle /\ manifest # NoManifest
  BY DEF Restore, InstallTypeOK, Commands, Idle, InstallInv, Stages
<1>2. /\ files'[f] = IF f \in manifest.existed THEN backup[f] ELSE Absent
      /\ \A g \in Managed \ {f} : files'[g] = files[g]
  BY DEF Restore, InstallTypeOK, Trees
<1>3. Stages'
  BY <1>1 DEF Restore, InstallInv, Stages, Idle
<1>4. FilesKept => FilesKept'
  <2> SUFFICES ASSUME FilesKept PROVE FilesKept'
    OBVIOUS
  <2>1. files'[f] = original.files[f]
    BY <1>1, <1>2 DEF FilesKept
  <2> QED BY <1>1, <1>2, <2>1 DEF Restore, FilesKept
<1>5. FoldersKept => FoldersKept'
  BY <1>1 DEF Restore, FoldersKept, New
<1> QED BY <1>3, <1>4, <1>5, WorkKeeps DEF Restore

LEMMA RemoveDcpKeeps == ASSUME InstallTypeOK, InstallInv, RemoveDcp PROVE InstallInv'
<1>1. /\ command'.name = "folders" /\ command'.made = command.made /\ command' # Idle
      /\ manifest # NoManifest /\ manifest' = NoManifest
  BY DEF RemoveDcp, InstallTypeOK, Commands, Idle, InstallInv, Stages
<1>2. Stages'
  BY <1>1 DEF RemoveDcp, InstallInv, Stages, Idle
<1>3. FilesKept => FilesKept'
  <2> SUFFICES ASSUME FilesKept PROVE FilesKept'
    OBVIOUS
  <2>1. \A f \in Managed : files[f] = original.files[f]
    BY DEF RemoveDcp, FilesKept
  <2>2. files = original.files
    BY <2>1 DEF InstallTypeOK, Trees
  <2> QED BY <1>1, <2>2 DEF RemoveDcp, FilesKept
<1>4. FoldersKept => FoldersKept'
  BY <1>1 DEF RemoveDcp, FoldersKept, New
<1> QED BY <1>2, <1>3, <1>4, WorkKeeps DEF RemoveDcp

LEMMA RemoveFoldersKeeps == ASSUME InstallTypeOK, InstallInv, RemoveFolders PROVE InstallInv'
<1>1. Idle.name = "idle" /\ manifest = NoManifest
  BY DEF Idle, RemoveFolders, InstallInv, Stages
<1>2. Stages'
  BY <1>1 DEF RemoveFolders, InstallInv, Stages, Idle
<1>3. FilesKept => FilesKept'
  BY <1>1 DEF RemoveFolders, FilesKept
<1>4. FilesKept /\ FoldersKept => FoldersKept'
  <2> SUFFICES ASSUME FilesKept, FoldersKept PROVE folders' = original.folders
    BY <1>1 DEF RemoveFolders, FoldersKept
  <2>1. folders = Folders /\ command.made = New /\ files = original.files
    BY <1>1 DEF RemoveFolders, FoldersKept, FilesKept
  <2>2. \A d \in New : \A f \in Managed : FolderOf[f] = d => files[f] = Absent
    BY <2>1, InstallAssumption DEF New, InstallInv, Sheltered
  <2>3. folders' = Folders \ New
    BY <2>1, <2>2 DEF RemoveFolders
  <2> QED BY <2>3 DEF New, InstallTypeOK
<1> QED BY <1>2, <1>3, <1>4, WorkKeeps DEF RemoveFolders

LEMMA InstallInvariance == InstallSpec => []InstallInv
<1>1. InstallTypeOK /\ InstallInv /\ [InstallNext]_installVars => InstallInv'
  <2> SUFFICES ASSUME InstallTypeOK, InstallInv, [InstallNext]_installVars PROVE InstallInv'
    OBVIOUS
  <2>1. CASE UNCHANGED installVars
    BY <2>1 DEF installVars, InstallInv, Stages, FilesKept, FoldersKept, New, Sheltered
  <2> QED BY <2>1, EditFileKeeps, DeleteDcpKeeps, DieKeeps, StartInitKeeps, CopyKeeps,
             RegisterKeeps, WriteKeeps, EndInitKeeps, StartRemoveKeeps, RestoreKeeps,
             RemoveDcpKeeps, RemoveFoldersKeeps DEF InstallNext
<1> QED BY <1>1, InitKept, InstallTyped, PTL DEF InstallSpec

\* "remove reverts byte-identical from backups taken on first init"
\* (meter/installer.ts): however often init ran and wherever a command died,
\* once .dcp is gone the managed files are the original ones, if the user left
\* them and .dcp alone; and the folders, if no command died.
THEOREM Reversible == InstallSpec => []InstallReversible
<1>1. InstallInv => InstallReversible
  BY DEF InstallInv, FilesKept, FoldersKept, InstallReversible
<1> QED BY <1>1, InstallInvariance, PTL

(***************************************************************************)
(* The mapping of a document.                                              *)
(***************************************************************************)
-----------------------------------------------------------------------------
(* Lines in ascending order, and sequences. *)

LEMMA AscendingOf ==
    ASSUME NEW S, IsFiniteSet(S), \A x \in S : x \in Int
    PROVE  LET f == Ascending(S)
               c == Cardinality(S)
           IN /\ f \in [1..c -> S]
              /\ \A n \in 1..c : Cardinality({j \in S : j < f[n]}) = n - 1
              /\ \A x \in S : \E n \in 1..c : f[n] = x
              /\ \A k, m \in 1..c : k < m => f[k] < f[m]
<1> DEFINE c == Cardinality(S)
<1> DEFINE R == {p \in S \X S : p[1] < p[2]}
<1> DEFINE f == Ascending(S)
<1>1. c \in Nat
  BY FS_CardinalityType
<1>2. f = [n \in 1..c |-> CHOOSE x \in S : Cardinality({y \in S : y < x}) = n - 1]
  BY DEF Ascending, InOrder
<1>3. ASSUME NEW x \in S PROVE Before(R, S, x) = {y \in S : y < x}
  BY DEF Before
<1>4. StrictTotal(R, S)
  <2>1. \A x, y \in S : x \in Int /\ y \in Int /\ (<<x, y>> \in R <=> x < y)
    OBVIOUS
  <2> HIDE DEF R
  <2> QED BY <2>1 DEF StrictTotal, Strict
<1> HIDE DEF R, f
<1>5. \A n \in 1..c : \E x \in S : Cardinality({y \in S : y < x}) = n - 1
  <2>1. \A n \in 1..c : \E x \in S : Cardinality(Before(R, S, x)) = n - 1
    BY <1>4, Places
  <2> QED BY <1>3, <2>1
<1>6. \A n \in 1..c : f[n] \in S /\ Cardinality({y \in S : y < f[n]}) = n - 1
  BY <1>2, <1>5
<1>7. f \in [1..c -> S]
  BY <1>2, <1>6
<1>8. Ordered(f, R, S)
  BY <1>3, <1>6, <1>7 DEF Ordered
<1>9. \A x \in S : \E n \in 1..c : f[n] = x
  BY <1>4, <1>8, OrderedOnto
<1> HIDE DEF c
<1>10. ASSUME NEW k \in 1..c, NEW m \in 1..c, k < m PROVE f[k] < f[m]
  <2>1. f[k] \in Int /\ f[m] \in Int /\ k \in Int /\ m \in Int
    <3>1. f[k] \in S /\ f[m] \in S
      BY <1>6
    <3>2. f[k] \in Int /\ f[m] \in Int
      BY <3>1
    <3>3. k \in Int /\ m \in Int
      BY <1>1
    <3> QED BY <3>2, <3>3
  <2>2. SUFFICES ASSUME f[m] <= f[k] PROVE FALSE
    BY <2>1
  <2> DEFINE A == {y \in S : y < f[m]}
  <2> DEFINE B == {y \in S : y < f[k]}
  <2>3. A \subseteq B
    BY <2>1, <2>2
  <2>4. IsFiniteSet(B)
    BY FS_Subset
  <2>5. Cardinality(A) = m - 1 /\ Cardinality(B) = k - 1
    BY <1>6
  <2> HIDE DEF A, B
  <2>6. Cardinality(A) <= Cardinality(B)
    BY <2>3, <2>4, FS_Subset
  <2> QED BY <1>10, <2>1, <2>5, <2>6
<1> QED BY <1>6, <1>7, <1>9, <1>10 DEF f, c

LEMMA AscendingIs ==
    ASSUME NEW N \in Nat, NEW S, S \subseteq 1..N
    PROVE  LET f == Ascending(S)
               c == Cardinality(S)
           IN /\ c \in 0..N /\ f \in [1..c -> S]
              /\ \A n \in 1..c : Cardinality({j \in S : j < f[n]}) = n - 1
              /\ \A x \in S : \E n \in 1..c : f[n] = x
              /\ \A k, m \in 1..c : k < m => f[k] < f[m]
<1>1. IsFiniteSet(1..N) /\ Cardinality(1..N) = N
  BY FS_Interval
<1>2. IsFiniteSet(S) /\ Cardinality(S) <= N
  BY <1>1, FS_Subset
<1>3. Cardinality(S) \in 0..N
  BY <1>2, FS_CardinalityType
<1>4. \A x \in S : x \in Int
  OBVIOUS
<1> QED BY <1>2, <1>3, <1>4, AscendingOf

LEMMA AllInOrder == ASSUME NEW N \in Nat PROVE Ascending(1..N) = [n \in 1..N |-> n]
<1> DEFINE S == 1..N
<1> DEFINE f == Ascending(S)
<1>1. Cardinality(S) = N
  BY FS_Interval
<1>2. /\ f \in [1..N -> S]
      /\ \A n \in 1..N : Cardinality({j \in S : j < f[n]}) = n - 1
  <2>1. S \subseteq 1..N
    OBVIOUS
  <2> HIDE DEF S
  <2> QED BY <1>1, <2>1, AscendingIs
<1> HIDE DEF f
<1>3. ASSUME NEW n \in 1..N PROVE f[n] = n
  <2> DEFINE x == f[n]
  <2>1. x \in 1..N
    BY <1>2
  <2>2. {j \in S : j < x} = 1..(x - 1)
    BY <2>1
  <2>3. Cardinality(1..(x - 1)) = x - 1
    <3> DEFINE y == x - 1
    <3>1. y \in Int /\ y >= 0
      BY <2>1
    <3> HIDE DEF y
    <3>2. Cardinality(1..y) = y
      BY <3>1, FS_Interval
    <3> QED BY <3>2 DEF y
  <2>4. x - 1 = n - 1
    BY <1>2, <2>2, <2>3
  <2> QED BY <2>1, <2>4
<1> QED BY <1>2, <1>3 DEF f

-----------------------------------------------------------------------------
(* Redaction leaves no secret, and does nothing where there is none. *)

KeptLines(lines) == {i \in DOMAIN lines : ~ lines[i].secret \/ i = 1 \/ ~ lines[i - 1].secret}
Clear(lines) == \A i \in DOMAIN lines : ~ lines[i].secret

LEMMA OneWord == ASSUME NEW W, NEW w \in W PROVE <<w>> \in Seq(W) /\ Len(<<w>>) = 1
  OBVIOUS

LEMMA FunctionSeq ==
    ASSUME NEW n \in Nat, NEW W, NEW f \in [1..n -> W]
    PROVE  f \in Seq(W) /\ Len(f) = n /\ (f = << >> <=> n = 0)
<1>1. f \in Seq(W) /\ Len(f) = n
  OBVIOUS
<1>2. DOMAIN f = 1..n
  OBVIOUS
<1>3. ASSUME n = 0 PROVE f = << >>
  BY <1>1, <1>3
<1>4. ASSUME f = << >> PROVE n = 0
  BY <1>1, <1>4
<1> QED BY <1>1, <1>3, <1>4

LEMMA Joined ==
    ASSUME NEW W, NEW s \in Seq(W), NEW t \in Seq(W)
    PROVE  /\ s \o t \in [1..(Len(s) + Len(t)) -> W]
           /\ \A i \in 1..(Len(s) + Len(t)) : (s \o t)[i] = IF i <= Len(s) THEN s[i] ELSE t[i - Len(s)]
<1>1. s \o t \in Seq(W) /\ Len(s \o t) = Len(s) + Len(t)
  BY ConcatProperties
<1>2. s \o t \in [1..Len(s \o t) -> W]
  BY <1>1, LenProperties
<1> QED BY <1>1, <1>2, ConcatProperties

LEMMA RedactedIs ==
    ASSUME NEW lines \in Seq(Lines)
    PROVE  /\ Redacted(lines) \in Seq(Lines)
           /\ Len(Redacted(lines)) <= Len(lines)
           /\ Clear(Redacted(lines))
<1> DEFINE N == Len(lines)
<1> DEFINE kept == Ascending(KeptLines(lines))
<1> DEFINE c == Cardinality(KeptLines(lines))
<1> DEFINE Line(i) == IF lines[i].secret
                      THEN [lines[i] EXCEPT !.secret = FALSE, !.shape = "plain", !.mark = "",
                                            !.words = <<"redacted">>]
                      ELSE lines[i]
<1>1. N \in Nat /\ DOMAIN lines = 1..N
  OBVIOUS
<1>2. KeptLines(lines) \subseteq 1..N
  BY DEF KeptLines
<1>3. c \in 0..N /\ kept \in [1..c -> KeptLines(lines)]
  BY <1>1, <1>2, AscendingIs
<1>4. Redacted(lines) = [n \in DOMAIN kept |-> Line(kept[n])]
  BY DEF Redacted, KeptLines
<1>5. ASSUME NEW i \in 1..N PROVE Line(i) \in Lines /\ ~ Line(i).secret
  <2>1. lines[i] \in Lines
    OBVIOUS
  <2>2. CASE lines[i].secret
    <3>0. "" \in Spellings /\ "plain" \in Spellings /\ "redacted" \in Spellings
      BY MappingAssumption
    <3>1. <<"redacted">> \in Seq(Spellings)
      BY <3>0, OneWord
    <3>2. [lines[i] EXCEPT !.secret = FALSE, !.shape = "plain", !.mark = "", !.words = <<"redacted">>] \in Lines
      BY <2>1, <3>0, <3>1 DEF Lines
    <3>3. ~ [lines[i] EXCEPT !.secret = FALSE, !.shape = "plain", !.mark = "",
                             !.words = <<"redacted">>].secret
      BY <2>1 DEF Lines
    <3> QED BY <2>2, <3>2, <3>3
  <2>3. CASE ~ lines[i].secret
    BY <2>1, <2>3
  <2> QED BY <2>2, <2>3
<1> HIDE DEF kept, c, Line
<1>6. DOMAIN kept = 1..c /\ \A n \in 1..c : kept[n] \in 1..N
  BY <1>2, <1>3
<1>7. \A n \in 1..c : Line(kept[n]) \in Lines /\ ~ Line(kept[n]).secret
  BY <1>5, <1>6
<1> DEFINE r == [n \in 1..c |-> Line(kept[n])]
<1>8. Redacted(lines) = r
  BY <1>4, <1>6
<1>9. r \in [1..c -> Lines] /\ \A n \in 1..c : ~ r[n].secret
  BY <1>7
<1> HIDE DEF r
<1>10. r \in Seq(Lines) /\ Len(r) = c /\ DOMAIN r = 1..c
  BY <1>1, <1>3, <1>9
<1> QED BY <1>1, <1>3, <1>8, <1>9, <1>10 DEF Clear

LEMMA RedactedAgain ==
    ASSUME NEW L, NEW lines \in Seq(L), Clear(lines)
    PROVE  Redacted(lines) = lines
<1> DEFINE N == Len(lines)
<1>1. N \in Nat /\ DOMAIN lines = 1..N
  OBVIOUS
<1>2. {i \in DOMAIN lines : ~ lines[i].secret \/ i = 1 \/ ~ lines[i - 1].secret} = 1..N
  BY <1>1 DEF Clear
<1>3. Ascending(1..N) = [n \in 1..N |-> n]
  BY <1>1, AllInOrder
<1> DEFINE Line(i) == IF lines[i].secret
                      THEN [lines[i] EXCEPT !.secret = FALSE, !.shape = "plain", !.mark = "",
                                            !.words = <<"redacted">>]
                      ELSE lines[i]
<1>4. \A i \in 1..N : Line(i) = lines[i]
  BY <1>1 DEF Clear
<1> DEFINE all == [m \in 1..N |-> m]
<1>5. DOMAIN all = 1..N /\ \A n \in 1..N : all[n] = n
  OBVIOUS
<1>6. Redacted(lines) = [n \in 1..N |-> lines[n]]
  <2>1. Redacted(lines) = [n \in DOMAIN Ascending(1..N) |-> Line(Ascending(1..N)[n])]
    BY <1>2 DEF Redacted
  <2>2. Ascending(1..N) = all
    BY <1>3
  <2> HIDE DEF Line, all
  <2>3. Redacted(lines) = [n \in 1..N |-> Line(all[n])]
    BY <1>5, <2>1, <2>2
  <2>4. \A n \in 1..N : Line(all[n]) = lines[n]
    BY <1>4, <1>5
  <2> QED BY <2>3, <2>4, Zenon
<1> HIDE DEF Line, all
<1>7. lines = [n \in 1..N |-> lines[n]]
  BY <1>1
<1> QED BY <1>6, <1>7

-----------------------------------------------------------------------------
(* Where sections start and end. *)

\* A document whose headings say something.
Legible(doc) ==
    /\ doc.lines \in Seq(Lines) /\ HeadingLines(doc) \subseteq DOMAIN doc.lines
    /\ \A i \in HeadingLines(doc) : Heading(doc, i) \in Lines /\ ~ Blank(Heading(doc, i))

\* Each start is on a line, after those before it.
Rising(starts, c, N) ==
    /\ starts \in [1..c -> 1..N]
    /\ \A k, m \in 1..c : k < m => starts[k] < starts[m]

LEMMA StartsRise ==
    ASSUME NEW doc, Legible(doc)
    PROVE  LET N == Len(doc.lines)
               starts == Starts(doc)
           IN \E c \in 0..(N + 1) :
                /\ Rising(starts, c, N)
                /\ \A i \in Told(doc.lines) : \E n \in 1..c : starts[n] <= i
<1> DEFINE N == Len(doc.lines)
<1> DEFINE H == HeadingLines(doc)
<1> DEFINE heads == Ascending(H)
<1> DEFINE c == Cardinality(H)
<1> DEFINE first == IF heads = << >> THEN N + 1 ELSE heads[1]
<1> DEFINE preamble == \E i \in 1..(first - 1) : ~ Blank(doc.lines[i])
<1>1. N \in Nat /\ DOMAIN doc.lines = 1..N /\ Told(doc.lines) \subseteq 1..N
  BY DEF Legible, Told
<1>2. H \subseteq 1..N
  BY <1>1 DEF Legible
<1>3. /\ c \in 0..N /\ heads \in [1..c -> H]
      /\ \A k, m \in 1..c : k < m => heads[k] < heads[m]
  BY <1>1, <1>2, AscendingIs
<1>4. Starts(doc) = IF preamble THEN <<1>> \o heads ELSE heads
  BY DEF Starts
<1> HIDE DEF N, H, heads, c
<1>5. \A n \in 1..c : heads[n] \in 1..N
  BY <1>2, <1>3
<1>6. heads \in [1..c -> 1..N]
  BY <1>3, <1>5
<1>7. /\ heads = << >> <=> c = 0
      /\ heads \in Seq(1..N) /\ Len(heads) = c
  <2>1. c \in Nat
    BY <1>1, <1>3
  <2> QED BY <1>6, <2>1, FunctionSeq
<1>8. first \in 1..(N + 1)
  BY <1>1, <1>3, <1>5, <1>7
<1>9. \A i \in Told(doc.lines) : i \in 1..N /\ ~ Blank(doc.lines[i])
  BY <1>1 DEF Told
<1>10. CASE preamble
  <2> DEFINE starts == <<1>> \o heads
  <2>1. first > 1 /\ N >= 1
    BY <1>1, <1>5, <1>7, <1>8, <1>10
  <2>2. /\ starts \in [1..(c + 1) -> 1..N]
        /\ \A n \in 1..(c + 1) : starts[n] = IF n = 1 THEN 1 ELSE heads[n - 1]
    <3>1. 1 \in 1..N
      BY <1>1, <2>1
    <3> DEFINE one == <<1>>
    <3>2. one \in Seq(1..N) /\ Len(one) = 1 /\ one[1] = 1
      BY <3>1, OneWord
    <3>3. /\ starts \in [1..(1 + c) -> 1..N]
          /\ \A i \in 1..(1 + c) : starts[i] = IF i <= 1 THEN one[i] ELSE heads[i - 1]
      <4> DEFINE joined == one \o heads
      <4>1. /\ joined \in [1..(Len(one) + Len(heads)) -> 1..N]
            /\ \A i \in 1..(Len(one) + Len(heads)) :
                 joined[i] = IF i <= Len(one) THEN one[i] ELSE heads[i - Len(one)]
        <5> HIDE DEF one
        <5> QED BY <1>7, <3>2, Joined
      <4>2. starts = joined
        OBVIOUS
      <4> HIDE DEF one, joined, starts
      <4> QED BY <1>7, <3>2, <4>1, <4>2
    <3>4. 1 + c = c + 1 /\ \A i \in 1..(c + 1) : i <= 1 <=> i = 1
      BY <1>3
    <3> HIDE DEF starts, one
    <3> QED BY <3>2, <3>3, <3>4
  <2>3. \A n \in 1..(c + 1) : starts[n] = IF n = 1 THEN 1 ELSE heads[n - 1]
    BY <2>2
  <2> HIDE DEF starts
  <2>4. ASSUME NEW k \in 1..(c + 1), NEW m \in 1..(c + 1), k < m PROVE starts[k] < starts[m]
    <3>1. m - 1 \in 1..c /\ starts[m] = heads[m - 1] /\ heads[m - 1] \in 1..N
      BY <1>3, <1>5, <2>3, <2>4
    <3>2. CASE k = 1
      <4>1. starts[k] = 1 /\ 1 \in 1..c /\ heads[1] \in 1..N /\ heads[1] > 1
        BY <1>3, <1>5, <1>7, <2>1, <2>3, <3>1, <3>2
      <4>2. m - 1 = 1 \/ heads[1] < heads[m - 1]
        BY <1>3, <3>1, <4>1
      <4> QED BY <3>1, <4>1, <4>2
    <3>3. CASE k # 1
      <4>1. k - 1 \in 1..c /\ k - 1 < m - 1 /\ starts[k] = heads[k - 1]
        BY <1>3, <2>3, <2>4, <3>3
      <4> QED BY <1>3, <3>1, <4>1
    <3> QED BY <3>2, <3>3
  <2>5. \A i \in Told(doc.lines) : \E n \in 1..(c + 1) : starts[n] <= i
    <3>1. 1 \in 1..(c + 1) /\ starts[1] = 1
      BY <1>3, <2>3
    <3> QED BY <1>9, <3>1
  <2>6. Rising(starts, c + 1, N) /\ c + 1 \in 0..(N + 1)
    BY <1>1, <1>3, <2>2, <2>4 DEF Rising
  <2>7. Starts(doc) = starts
    BY <1>4, <1>10 DEF starts
  <2> QED BY <2>5, <2>6, <2>7 DEF N
<1>11. CASE ~ preamble
  <2>1. ASSUME NEW i \in Told(doc.lines) PROVE \E n \in 1..c : heads[n] <= i
    <3>1. i \in 1..N /\ ~ Blank(doc.lines[i])
      BY <1>9
    <3>2. ~ i \in 1..(first - 1)
      BY <1>11, <3>1
    <3>3. first <= i
      BY <1>1, <1>8, <3>1, <3>2
    <3>4. c # 0 /\ first = heads[1] /\ 1 \in 1..c
      BY <1>1, <1>3, <1>7, <3>1, <3>3
    <3> QED BY <3>3, <3>4
  <2>2. Rising(heads, c, N) /\ c \in 0..(N + 1)
    BY <1>1, <1>3, <1>6 DEF Rising
  <2>3. Starts(doc) = heads
    BY <1>4, <1>11
  <2> QED BY <2>1, <2>2, <2>3 DEF N
<1> QED BY <1>10, <1>11

LEMMA SectionEnds ==
    ASSUME NEW N \in Nat, NEW doc, Len(doc.lines) = N, NEW c \in Nat, NEW starts, Rising(starts, c, N),
           NEW bases, NEW n \in 1..c
    PROVE  LET s == Section(doc, starts, bases, n)
               next == NextStart(doc, starts, n)
           IN /\ next = IF n = c THEN N + 1 ELSE starts[n + 1]
              /\ next \in (starts[n] + 1)..(N + 1)
              /\ s.id = Unique(bases, n) /\ s.start = starts[n] /\ s.end \in starts[n]..(next - 1)
              /\ \A i \in Saying(doc, starts, n) : i <= s.end
<1> DEFINE s == Section(doc, starts, bases, n)
<1> DEFINE next == NextStart(doc, starts, n)
<1> DEFINE S == {starts[n]} \cup Saying(doc, starts, n)
<1>1. s.id = Unique(bases, n) /\ s.start = starts[n] /\ s.end = Max(S)
  BY DEF Section
<1>2. starts[n] \in 1..N
  BY DEF Rising
<1>3. next = IF n = c THEN N + 1 ELSE starts[n + 1]
  <2>1. Len(starts) = c
    BY FunctionSeq DEF Rising
  <2> QED BY <2>1 DEF NextStart
<1>4. next \in (starts[n] + 1)..(N + 1)
  <2>1. CASE n = c
    BY <1>2, <1>3, <2>1
  <2>2. CASE n # c
    <3>1. n + 1 \in 1..c
      BY <2>2
    <3>2. starts[n + 1] \in 1..N /\ starts[n] < starts[n + 1]
      BY <3>1 DEF Rising
    <3> QED BY <1>2, <1>3, <2>2, <3>2
  <2> QED BY <2>1, <2>2
<1>5. Saying(doc, starts, n) \subseteq starts[n]..(next - 1)
  BY DEF Saying
<1> HIDE DEF next, s
<1>6. S \subseteq starts[n]..(next - 1) /\ S \subseteq 0..N /\ starts[n] \in S
  BY <1>2, <1>4, <1>5
<1> HIDE DEF S
<1>7. Max(S) \in S /\ \A i \in S : i <= Max(S)
  BY <1>6, MaxBounded
<1>8. s.end \in starts[n]..(next - 1)
  BY <1>1, <1>6, <1>7
<1>9. \A i \in Saying(doc, starts, n) : i <= s.end
  BY <1>1, <1>7 DEF S
<1> QED BY <1>1, <1>3, <1>4, <1>8, <1>9 DEF s, next

\* The sections of a document of N lines, c of them.
Divided(sections, bases, told, c, N) ==
    /\ DOMAIN sections = 1..c /\ sections \in Seq(ToSet(sections)) /\ Len(sections) = c
    /\ \A n \in 1..c : /\ sections[n].id = Unique(bases, n)
                       /\ sections[n].start \in 1..N /\ sections[n].end \in sections[n].start..N
    /\ \A n, m \in 1..c : n < m => sections[n].end < sections[m].start
    /\ \A i \in told : \E n \in 1..c : sections[n].start <= i /\ i <= sections[n].end

LEMMA SectionsDivide ==
    ASSUME NEW doc, Legible(doc)
    PROVE  LET N == Len(doc.lines)
               bases == Bases(doc, Starts(doc))
           IN \E c \in 0..(N + 1) :
                DOMAIN bases = 1..c /\ Divided(Sections(doc), bases, Told(doc.lines), c, N)
<1> DEFINE N == Len(doc.lines)
<1> DEFINE starts == Starts(doc)
<1> DEFINE bases == Bases(doc, starts)
<1> DEFINE f == Sections(doc)
<1>1. N \in Nat /\ \A i \in Told(doc.lines) : i \in 1..N /\ ~ Blank(doc.lines[i])
  BY DEF Legible, Told
<1>2. PICK c \in 0..(N + 1) :
        Rising(starts, c, N) /\ \A i \in Told(doc.lines) : \E n \in 1..c : starts[n] <= i
  BY StartsRise
<1>3. DOMAIN starts = 1..c
  BY <1>2 DEF Rising
<1>4. DOMAIN bases = 1..c
  BY <1>3 DEF Bases
<1>5. f = [n \in 1..c |-> Section(doc, starts, bases, n)]
  BY <1>3 DEF Sections
<1> HIDE DEF f, bases, starts
<1>6. DOMAIN f = 1..c /\ f \in Seq(ToSet(f)) /\ Len(f) = c
  <2>1. f \in [1..c -> ToSet(f)]
    BY <1>5 DEF ToSet
  <2>2. c \in Nat
    BY <1>1
  <2> QED BY <1>5, <2>1, <2>2, FunctionSeq
<1> DEFINE next(n) == IF n = c THEN N + 1 ELSE starts[n + 1]
<1>7. ASSUME NEW n \in 1..c
      PROVE  /\ f[n].id = Unique(bases, n) /\ f[n].start = starts[n]
             /\ next(n) \in (starts[n] + 1)..(N + 1) /\ starts[n] \in 1..N
             /\ f[n].end \in starts[n]..(next(n) - 1)
             /\ NextStart(doc, starts, n) = next(n)
             /\ \A i \in Saying(doc, starts, n) : i <= f[n].end
  <2>1. f[n] = Section(doc, starts, bases, n)
    BY <1>5
  <2>2. c \in Nat /\ starts[n] \in 1..N
    BY <1>1, <1>2 DEF Rising
  <2> HIDE DEF N
  <2> QED BY <1>1, <1>2, <2>1, <2>2, SectionEnds, SMTT(30) DEF N
<1> HIDE DEF N
<1>8. ASSUME NEW n \in 1..c, NEW m \in 1..c, n < m PROVE f[n].end < f[m].start
  <2>1. n # c /\ n + 1 \in 1..c
    BY <1>1, <1>8
  <2>2. next(n) = starts[n + 1]
    BY <2>1
  <2>3. starts[n + 1] <= starts[m] /\ starts[n + 1] \in 1..N /\ starts[m] \in 1..N
    <3>1. n + 1 = m \/ n + 1 < m
      BY <1>1, <1>8
    <3>2. starts[n + 1] \in 1..N /\ starts[m] \in 1..N
      BY <1>7, <2>1
    <3> QED BY <1>2, <2>1, <3>1, <3>2 DEF Rising
  <2>4. f[n].end \in starts[n]..(starts[n + 1] - 1) /\ starts[n] \in 1..N /\ f[m].start = starts[m]
    BY <1>7, <2>2
  <2> QED BY <1>1, <2>3, <2>4
<1>9. ASSUME NEW i \in Told(doc.lines) PROVE \E n \in 1..c : f[n].start <= i /\ i <= f[n].end
  <2> DEFINE S == {n \in 1..c : starts[n] <= i}
  <2>1. S # {} /\ S \subseteq 0..c /\ c \in Nat
    BY <1>1, <1>2
  <2>2. PICK n \in S : \A m \in S : m <= n
    <3> HIDE DEF S
    <3> QED BY <2>1, Greatest
  <2>3. n \in 1..c /\ starts[n] <= i /\ i \in 1..N
    BY <1>1
  <2>4. i < next(n)
    <3>1. CASE n = c
      BY <1>1, <2>3, <3>1
    <3>2. CASE n # c
      <4>1. n + 1 \in 1..c /\ n + 1 \notin S
        BY <1>1, <2>2, <2>3, <3>2
      <4>2. starts[n + 1] \in 1..N
        BY <1>7, <4>1
      <4> QED BY <1>1, <2>3, <3>2, <4>1, <4>2
    <3> QED BY <3>1, <3>2
  <2>5. i \in Saying(doc, starts, n)
    <3>1. next(n) \in Int /\ starts[n] \in Int
      BY <1>1, <1>7, <2>3
    <3> QED BY <1>1, <1>7, <2>3, <2>4, <3>1 DEF Saying
  <2> QED BY <1>7, <2>3, <2>5
<1>10. \A n \in 1..c : f[n].start \in 1..N /\ f[n].end \in f[n].start..N
  <2> TAKE n \in 1..c
  <2>1. /\ f[n].start = starts[n] /\ starts[n] \in 1..N /\ next(n) \in (starts[n] + 1)..(N + 1)
        /\ f[n].end \in starts[n]..(next(n) - 1)
    BY <1>7
  <2> HIDE DEF next
  <2> QED BY <1>1, <2>1
<1>11. Divided(f, bases, Told(doc.lines), c, N)
  BY <1>6, <1>7, <1>8, <1>9, <1>10 DEF Divided
<1> QED BY <1>4, <1>11 DEF f, bases, starts, N

-----------------------------------------------------------------------------
(* No two sections have the same id. *)

\* Ids are of words of W, and none is another with a number after it.
Unspelled(bases, W) ==
    /\ \A k \in DOMAIN Numeral : Numeral[k] \in W
    /\ \A n, m \in DOMAIN bases : \A k \in DOMAIN Numeral \ {0, 1} : bases[m] # Append(bases[n], Numeral[k])

Copies(bases, n) == {m \in 1..n : bases[m] = bases[n]}

LEMMA CopiesAre ==
    ASSUME NEW c \in Nat, NEW bases, NEW n \in 1..c
    PROVE  /\ Cardinality(Copies(bases, n)) \in 1..c
           /\ \A m \in 1..c : n < m /\ bases[n] = bases[m] =>
                Cardinality(Copies(bases, n)) < Cardinality(Copies(bases, m))
<1>0. ASSUME NEW m \in 1..c
      PROVE  IsFiniteSet(Copies(bases, m)) /\ Cardinality(Copies(bases, m)) \in 0..c
  <2>1. Copies(bases, m) \subseteq 1..c
    BY DEF Copies
  <2>2. IsFiniteSet(1..c) /\ Cardinality(1..c) = c
    BY FS_Interval
  <2>3. IsFiniteSet(Copies(bases, m)) /\ Cardinality(Copies(bases, m)) <= c
    BY <2>1, <2>2, FS_Subset
  <2> QED BY <2>3, FS_CardinalityType
<1>1. Cardinality(Copies(bases, n)) # 0
  <2>1. n \in Copies(bases, n)
    BY DEF Copies
  <2> QED BY <1>0, <2>1, FS_EmptySet
<1>2. ASSUME NEW m \in 1..c, n < m, bases[n] = bases[m]
      PROVE  Cardinality(Copies(bases, n)) < Cardinality(Copies(bases, m))
  <2> DEFINE A == Copies(bases, n)
  <2> DEFINE B == Copies(bases, m)
  <2>1. A \subseteq B /\ m \in B /\ m \notin A
    BY <1>2 DEF Copies
  <2>2. IsFiniteSet(B) /\ IsFiniteSet(A) /\ Cardinality(A) \in Nat /\ Cardinality(B) \in Nat
    BY <1>0
  <2> HIDE DEF A, B
  <2>3. Cardinality(A) <= Cardinality(B) /\ Cardinality(A) # Cardinality(B)
    BY <2>1, <2>2, FS_Subset
  <2>4. Cardinality(A) < Cardinality(B)
    BY <2>2, <2>3
  <2> QED BY <2>4 DEF A, B
<1>3. Cardinality(Copies(bases, n)) \in 1..c
  BY <1>0, <1>1
<1> QED BY <1>2, <1>3

LEMMA UniqueIs ==
    ASSUME NEW c \in Nat, 1..c \subseteq DOMAIN Numeral, NEW W, NEW bases \in [1..c -> Seq(W) \ {<< >>}],
           Unspelled(bases, W), NEW n \in 1..c
    PROVE  Unique(bases, n) \in Seq(W) \ {<< >>}
<1> DEFINE copy == Cardinality(Copies(bases, n))
<1>1. copy \in 1..c
  BY CopiesAre
<1>2. Unique(bases, n) = IF copy = 1 THEN bases[n] ELSE Append(bases[n], Numeral[copy])
  BY DEF Unique, Copies
<1> HIDE DEF copy
<1>3. Numeral[copy] \in W
  BY <1>1 DEF Unspelled
<1>4. Append(bases[n], Numeral[copy]) \in Seq(W) \ {<< >>}
  BY <1>3, AppendProperties
<1> QED BY <1>2, <1>4

LEMMA UniqueIds ==
    ASSUME NEW c \in Nat, 1..c \subseteq DOMAIN Numeral, NEW W, NEW bases \in [1..c -> Seq(W) \ {<< >>}],
           Unspelled(bases, W), NEW n \in 1..c, NEW m \in 1..c, n < m
    PROVE  Unique(bases, n) # Unique(bases, m)
<1> DEFINE one == Cardinality(Copies(bases, n))
<1> DEFINE two == Cardinality(Copies(bases, m))
<1>1. one \in 1..c /\ two \in 1..c /\ (bases[n] = bases[m] => one # two)
  <2>1. one \in 1..c /\ two \in 1..c /\ (bases[n] = bases[m] => one < two)
    BY CopiesAre
  <2> QED BY <2>1
<1>2. /\ Unique(bases, n) = IF one = 1 THEN bases[n] ELSE Append(bases[n], Numeral[one])
      /\ Unique(bases, m) = IF two = 1 THEN bases[m] ELSE Append(bases[m], Numeral[two])
  BY DEF Unique, Copies
<1> HIDE DEF one, two
<1>3. /\ one \in DOMAIN Numeral /\ two \in DOMAIN Numeral /\ one # 0 /\ two # 0
      /\ bases[n] \in Seq(W) /\ bases[m] \in Seq(W)
      /\ Numeral[one] \in W /\ Numeral[two] \in W
      /\ (Numeral[one] = Numeral[two] => one = two)
      /\ n \in DOMAIN bases /\ m \in DOMAIN bases
  BY <1>1, DocumentsAssumption DEF Unspelled
<1>4. CASE one = 1 /\ two = 1
  BY <1>1, <1>2, <1>4
<1>5. CASE one = 1 /\ two # 1
  BY <1>2, <1>3, <1>5 DEF Unspelled
<1>6. CASE one # 1 /\ two = 1
  BY <1>2, <1>3, <1>6 DEF Unspelled
<1>7. CASE one # 1 /\ two # 1
  <2>1. Append(bases[n], Numeral[one]) = Append(bases[m], Numeral[two]) =>
          bases[n] = bases[m] /\ Numeral[one] = Numeral[two]
    BY <1>3, AppendInjective
  <2> QED BY <1>1, <1>2, <1>3, <1>7, <2>1
<1> QED BY <1>4, <1>5, <1>6, <1>7

\* The words of ids.
IdWords == Spellings \cup {Numeral[k] : k \in DOMAIN Numeral} \cup UNION {ToSet(Place(n)) : n \in Nat}

LEMMA PlaceIs == ASSUME NEW n \in Nat PROVE Place(n) \in Seq(IdWords) \ {<< >>}
<1> DEFINE w == "s" \o Numeral[n]
<1>1. Place(n) = <<w>>
  BY DEF Place
<1> HIDE DEF w
<1>2. Place(n) \in Seq({w}) /\ Len(Place(n)) = 1 /\ Place(n)[1] = w
  BY <1>1, OneWord
<1>3. w \in ToSet(Place(n))
  BY <1>2 DEF ToSet
<1>4. w \in IdWords
  BY <1>3 DEF IdWords
<1>5. Place(n) \in Seq(IdWords)
  BY <1>1, <1>4, OneWord
<1> QED BY <1>2, <1>5, EmptySeq

LEMMA NamedIs ==
    ASSUME NEW line \in Lines, ~ Blank(line), NEW n \in Nat
    PROVE  Named(line, n) \in Seq(IdWords) \ {<< >>}
<1>1. /\ line.number \in Spellings /\ line.label \in Spellings /\ line.words \in Seq(Spellings)
      /\ line.words # << >>
  BY DEF Lines, Blank
<1>2. Spellings \subseteq IdWords
  BY DEF IdWords
<1>3. ASSUME NEW v \in Spellings
      PROVE  <<v>> \in Seq(IdWords) \ {<< >>} /\ \A w \in Spellings : <<v, w>> \in Seq(IdWords) \ {<< >>}
  <2>1. v \in IdWords
    BY <1>2
  <2>2. ASSUME NEW W, v \in W, NEW w \in W PROVE <<v>> \in Seq(W) /\ <<v, w>> \in Seq(W)
    BY <2>2
  <2>3. <<v>> # << >> /\ \A w \in Spellings : <<v, w>> # << >>
    OBVIOUS
  <2> QED BY <1>2, <2>1, <2>2, <2>3
<1>4. line.words \in Seq(IdWords) \ {<< >>}
  BY <1>1, <1>2, SeqMonotonic
<1>5. Place(n) \in Seq(IdWords) \ {<< >>}
  BY PlaceIs
<1> DEFINE number == line.number
<1> DEFINE label == line.label
<1>6. /\ <<number>> \in Seq(IdWords) \ {<< >>} /\ <<label>> \in Seq(IdWords) \ {<< >>}
      /\ <<label, number>> \in Seq(IdWords) \ {<< >>}
  <2> HIDE DEF number, label
  <2>1. number \in Spellings /\ label \in Spellings
    BY <1>1 DEF number, label
  <2> QED BY <1>3, <2>1
<1> HIDE DEF IdWords
<1> QED BY <1>4, <1>5, <1>6 DEF Named

LEMMA BasesAre ==
    ASSUME NEW doc, Legible(doc), NEW c \in Nat, NEW starts \in [1..c -> 1..Len(doc.lines)]
    PROVE  Bases(doc, starts) \in [1..c -> Seq(IdWords) \ {<< >>}]
<1>1. ASSUME NEW n \in 1..c, starts[n] \in HeadingLines(doc)
      PROVE  Heading(doc, starts[n]) \in Lines /\ ~ Blank(Heading(doc, starts[n]))
  BY <1>1 DEF Legible
<1>2. \A n \in 1..c : (IF starts[n] \in HeadingLines(doc) THEN Named(Heading(doc, starts[n]), n) ELSE Place(n))
                        \in Seq(IdWords) \ {<< >>}
  <2> TAKE n \in 1..c
  <2>1. n \in Nat
    OBVIOUS
  <2>2. CASE starts[n] \in HeadingLines(doc)
    BY <1>1, <2>1, <2>2, NamedIs
  <2>3. CASE starts[n] \notin HeadingLines(doc)
    BY <2>1, <2>3, PlaceIs
  <2> QED BY <2>2, <2>3
<1>3. Bases(doc, starts) =
        [n \in 1..c |-> IF starts[n] \in HeadingLines(doc) THEN Named(Heading(doc, starts[n]), n) ELSE Place(n)]
  BY DEF Bases
<1> QED BY <1>2, <1>3

-----------------------------------------------------------------------------
(* A zoom on a section's id. *)

LEMMA FlattenOne == ASSUME NEW s PROVE FlattenSeq(<<s>>) = s
<1> DEFINE Eq(g) == g = [i \in 1..1 |-> IF i = 1 THEN <<s>>[i] ELSE g[i - 1] \o <<s>>[i]]
<1> DEFINE h == CHOOSE g : Eq(g)
<1> DEFINE f == [i \in 1..1 |-> s]
<1>1. Eq(f)
  OBVIOUS
<1>2. Eq(h)
  BY <1>1
<1>3. h[1] = s
  BY <1>2
<1>4. FlattenSeq(<<s>>) = h[1]
  BY DEF FlattenSeq
<1> QED BY <1>3, <1>4

LEMMA WordsOfId == ASSUME NEW id, id # << >> PROVE Words(<<Marked(id)>>) = id
<1> DEFINE phrase == Marked(id)
<1> DEFINE ask == <<phrase>>
<1>0. phrase.marked = id
  BY DEF Marked
<1> HIDE DEF phrase
<1>1. DOMAIN ask = 1..1 /\ ask[1] = phrase
  OBVIOUS
<1> DEFINE f == [i \in DOMAIN ask |-> IF ask[i].marked = << >> THEN <<ask[i].word>> ELSE ask[i].marked]
<1>2. f = <<id>>
  <2>1. f = [i \in 1..1 |-> id]
    BY <1>0, <1>1
  <2>2. <<id>> = [i \in 1..1 |-> id]
    OBVIOUS
  <2> QED BY <2>1, <2>2
<1>3. Words(ask) = FlattenSeq(f)
  BY DEF Words
<1> QED BY <1>2, <1>3, FlattenOne DEF phrase

LEMMA SliceIs ==
    ASSUME NEW map, map.sections # << >>, NEW s \in ToSet(map.sections), s.id # << >>,
           \A t \in ToSet(map.sections) : t.id = s.id => t = s,
           s.start \in Nat
    PROVE  DocSlice(map, <<Marked(s.id)>>) = SectionText(map.lines, s)
<1> DEFINE query == <<Marked(s.id)>>
<1> DEFINE exact == Exact(map, Words(query))
<1>1. Words(query) = s.id
  BY WordsOfId
<1>2. ~ AsksPage(query)
  BY DEF AsksPage
<1>3. exact = {s}
  <2>1. {t \in ToSet(map.sections) : t.id = s.id} = {s}
    OBVIOUS
  <2> QED BY <1>1, <2>1 DEF Exact
<1>4. (CHOOSE t \in exact : \A u \in exact : t.start <= u.start) = s
  BY <1>3
<1>5. exact # {}
  BY <1>3
<1> HIDE DEF query, exact
<1>6. DocSlice(map, query) = SectionText(map.lines, CHOOSE t \in exact : \A u \in exact : t.start <= u.start)
  BY <1>2, <1>5 DEF DocSlice, exact
<1> QED BY <1>4, <1>6 DEF query

LEMMA MinOfOne == Min({1}) = 1
  BY DEF Min

LEMMA ZoomIs ==
    ASSUME NEW map, map.sources = << >>, NEW query, DocSlice(map, query) # << >>
    PROVE  ResolveQuery(map, query) = DocSlice(map, query)
<1> DEFINE all == <<map>> \o map.sources
<1> DEFINE slices == [i \in DOMAIN all |-> DocSlice(all[i], query)]
<1> DEFINE some == {i \in DOMAIN slices : slices[i] # << >>}
<1>1. all = <<map>>
  <2>1. <<map>> \in Seq({map})
    BY OneWord
  <2> QED BY <2>1, ConcatEmptySeq
<1>2. DOMAIN all = {1} /\ all[1] = map
  BY <1>1
<1>3. DOMAIN slices = {1} /\ slices[1] = DocSlice(map, query)
  BY <1>2
<1>4. some = {1}
  BY <1>3
<1>5. (IF some = {} THEN << >> ELSE slices[Min(some)]) = DocSlice(map, query)
  BY <1>3, <1>4, MinOfOne
<1> QED BY <1>5 DEF ResolveQuery

LEMMA PassageIs ==
    ASSUME NEW L, NEW lines \in Seq(L), NEW s, s.start \in 1..Len(lines), s.end \in s.start..Len(lines)
    PROVE  LET passage == SectionText(lines, s)
           IN /\ passage \in Seq(L) /\ Len(passage) = s.end - s.start + 1
              /\ \A i \in DOMAIN passage : passage[i] = lines[s.start + i - 1] /\ s.start + i - 1 \in DOMAIN lines
<1> DEFINE N == Len(lines)
<1> DEFINE first == s.start
<1> DEFINE last == s.end
<1>1. N \in Nat /\ lines \in [1..N -> L] /\ DOMAIN lines = 1..N
  BY LenProperties
<1>2. first \in 1..N /\ last \in first..N
  OBVIOUS
<1>3. SectionText(lines, s) = SubSeq(lines, first, last)
  <2>1. Min({s.end, Len(lines)}) = s.end
    <3> HIDE DEF first, N
    <3>1. last \in Int /\ last <= N
      BY <1>1, <1>2
    <3> HIDE DEF last
    <3>2. Min({last, N}) = last
      BY <1>1, <3>1, MinOfTwo
    <3> QED BY <3>2 DEF last, N
  <2> QED BY <2>1 DEF SectionText
<1> DEFINE passage == SubSeq(lines, first, last)
<1> HIDE DEF first, last, N
<1>4. /\ passage \in Seq(L) /\ Len(passage) = last - first + 1
      /\ \A i \in 1..(last - first + 1) : passage[i] = lines[first + i - 1]
  <2>1. first \in Int /\ last \in Int /\ first <= last /\ \A i \in first..last : lines[i] \in L
    BY <1>1, <1>2
  <2> QED BY <2>1, SubSeqProperties
<1>5. DOMAIN passage = 1..(last - first + 1)
  BY <1>4, LenProperties
<1> HIDE DEF passage
<1>6. \A i \in DOMAIN passage : first + i - 1 \in DOMAIN lines
  BY <1>1, <1>2, <1>5
<1> QED BY <1>3, <1>4, <1>5, <1>6 DEF first, last, passage

\* What an ingest maps can be read as what it was extracted from.
LEMMA TextIs ==
    ASSUME NEW doc, Readable(doc)
    PROVE  /\ Text(doc).lines = Redacted(doc.lines) /\ Legible(Text(doc)) /\ Clear(Text(doc).lines)
           /\ 1..(Len(Text(doc).lines) + 1) \subseteq DOMAIN Numeral
           /\ Len(Text(doc).lines) \in Nat
<1>1. doc.lines \in Seq(Lines) /\ Text(doc).lines = Redacted(doc.lines)
  BY DEF Readable, Text
<1>2. Redacted(doc.lines) \in Seq(Lines) /\ Len(Redacted(doc.lines)) <= Len(doc.lines) /\ Clear(Redacted(doc.lines))
  BY <1>1, RedactedIs
<1>3. Legible(Text(doc))
  <2> DEFINE text == Text(doc)
  <2>1. text.styled = doc.styled /\ doc.styled \in [DOMAIN doc.styled -> Lines]
    BY DEF Readable, Text
  <2>2. text.lines \in Seq(Lines) /\ \A i \in DOMAIN text.lines : text.lines[i] \in Lines
    BY <1>1, <1>2
  <2>3. /\ HeadingLines(text) \subseteq DOMAIN text.lines
        /\ \A i \in HeadingLines(text) : ~ Blank(Heading(text, i))
    BY DEF Readable
  <2> HIDE DEF text
  <2>4. ASSUME NEW i \in HeadingLines(text) PROVE Heading(text, i) \in Lines
    <3>1. CASE DOMAIN text.styled # {}
      <4>1. i \in DOMAIN doc.styled /\ Heading(text, i) = doc.styled[i]
        BY <2>1, <3>1 DEF HeadingLines, Heading
      <4> QED BY <2>1, <4>1
    <3>2. CASE DOMAIN text.styled = {}
      BY <2>2, <2>3, <3>2 DEF Heading
    <3> QED BY <3>1, <3>2
  <2>5. Legible(text)
    BY <2>2, <2>3, <2>4 DEF Legible
  <2> QED BY <2>5 DEF text
<1>4. Len(doc.lines) \in Nat /\ Len(Redacted(doc.lines)) \in Nat
  BY <1>1, <1>2, LenProperties
<1>5. 1..(Len(Redacted(doc.lines)) + 1) \subseteq DOMAIN Numeral
  <2>1. 1..(Len(doc.lines) + 1) \subseteq DOMAIN Numeral
    BY DEF Readable
  <2> QED BY <1>2, <1>4, <2>1
<1> QED BY <1>1, <1>2, <1>3, <1>4, <1>5

LEMMA IngestedIs ==
    ASSUME NEW doc
    PROVE  /\ Ingested(doc).mapped = Text(doc).lines /\ Ingested(doc).lines = Text(doc).lines
           /\ Ingested(doc).sections = Sections(Text(doc)) /\ Ingested(doc).sources = << >>
<1>1. Ingested(doc) = [mapped |-> Text(doc).lines, lines |-> Text(doc).lines, pages |-> doc.pages,
                       sections |-> Sections(Text(doc)), sources |-> << >>]
  BY DEF Ingested, Text
<1> QED BY <1>1

LEMMA IngestDivides ==
    ASSUME NEW doc, Readable(doc)
    PROVE  LET N == Len(Text(doc).lines)
               bases == Bases(Text(doc), Starts(Text(doc)))
           IN \E c \in Nat : /\ 1..c \subseteq DOMAIN Numeral
                             /\ bases \in [1..c -> Seq(IdWords) \ {<< >>}]
                             /\ Divided(Sections(Text(doc)), bases, Told(Text(doc).lines), c, N)
<1> DEFINE text == Text(doc)
<1> DEFINE N == Len(text.lines)
<1> DEFINE bases == Bases(text, Starts(text))
<1>1. Legible(text) /\ 1..(N + 1) \subseteq DOMAIN Numeral /\ N \in Nat
  BY TextIs
<1>2. PICK c \in 0..(N + 1) : DOMAIN bases = 1..c /\ Divided(Sections(text), bases, Told(text.lines), c, N)
  BY <1>1, SectionsDivide
<1>3. c \in Nat /\ 1..c \subseteq DOMAIN Numeral
  BY <1>1, <1>2
<1>4. bases \in [1..c -> Seq(IdWords) \ {<< >>}]
  <2>1. PICK d \in 0..(N + 1) : Rising(Starts(text), d, N)
    <3> HIDE DEF text
    <3> QED BY <1>1, StartsRise
  <2>2. d \in Nat /\ Starts(text) \in [1..d -> 1..N]
    BY <1>1, <2>1 DEF Rising
  <2>3. bases \in [1..d -> Seq(IdWords) \ {<< >>}]
    BY <1>1, <2>2, BasesAre
  <2>4. 1..d = 1..c
    BY <1>2, <2>3
  <2> QED BY <2>3, <2>4
<1> QED BY <1>2, <1>3, <1>4

LEMMA OfItsOwn == ASSUME NEW W, NEW s \in Seq(W) PROVE IsSeq(s)
<1>1. s \in [1..Len(s) -> W] /\ Len(s) \in Nat
  BY LenProperties
<1>2. s \in [1..Len(s) -> ToSet(s)]
  BY <1>1 DEF ToSet
<1> QED BY <1>1, <1>2, FunctionSeq DEF IsSeq

LEMMA SectionBounds ==
    ASSUME NEW sections, NEW bases, NEW told, NEW c \in Nat, NEW N, Divided(sections, bases, told, c, N),
           NEW s \in ToSet(sections)
    PROVE  \E n \in 1..c : s = sections[n] /\ s.start \in 1..N /\ s.end \in s.start..N
<1>1. PICK n \in 1..c : s = sections[n]
  BY DEF ToSet, Divided
<1> QED BY <1>1 DEF Divided

LEMMA IngestCovers == ASSUME NEW doc, Readable(doc) PROVE Covered(Ingested(doc))
<1> DEFINE text == Text(doc)
<1> DEFINE f == Sections(text)
<1> DEFINE bases == Bases(text, Starts(text))
<1>1. PICK c \in Nat : Divided(f, bases, Told(text.lines), c, Len(text.lines))
  BY IngestDivides
<1>2. Ingested(doc).mapped = text.lines /\ Ingested(doc).sections = f
  BY IngestedIs
<1> HIDE DEF text, f, bases
<1>3. ASSUME NEW i \in Told(text.lines) PROVE \E s \in ToSet(f) : s.start <= i /\ i <= s.end
  <2>1. PICK n \in 1..c : f[n].start <= i /\ i <= f[n].end
    BY <1>1 DEF Divided
  <2>2. f[n] \in ToSet(f)
    BY <1>1 DEF Divided, ToSet
  <2> QED BY <2>1, <2>2
<1>4. \A n, m \in DOMAIN f : n < m => f[n].end < f[m].start
  BY <1>1 DEF Divided
<1> QED BY <1>2, <1>3, <1>4 DEF Covered

\* An exploration asks of its library what an ingest makes sure of.
LEMMA IngestMaps == ASSUME NEW doc, Readable(doc) PROVE Mapped(Ingested(doc))
<1> DEFINE text == Text(doc)
<1> DEFINE f == Sections(text)
<1> DEFINE N == Len(text.lines)
<1> DEFINE bases == Bases(text, Starts(text))
<1>1. PICK c \in Nat : Divided(f, bases, Told(text.lines), c, N)
  BY IngestDivides
<1>2. text.lines \in Seq(Lines) /\ N \in Nat
  BY TextIs DEF Legible
<1>3. Ingested(doc).lines = text.lines /\ Ingested(doc).sections = f
  BY IngestedIs
<1> HIDE DEF text, f, bases
<1>4. IsSeq(text.lines) /\ IsSeq(f)
  BY <1>1, <1>2, OfItsOwn DEF Divided
<1>5. DOMAIN text.lines = 1..N /\ \A i \in 1..N : text.lines[i] \in Lines
  BY <1>2
<1>6. ASSUME NEW line \in ToSet(text.lines) PROVE IsSeq(line.words)
  <2>1. line \in Lines
    BY <1>5 DEF ToSet
  <2>2. line.words \in Seq(Spellings)
    BY <2>1 DEF Lines
  <2> QED BY <2>2, OfItsOwn
<1> HIDE DEF N
<1>7. ASSUME NEW s \in ToSet(f) PROVE {s.start, s.end} \subseteq DOMAIN text.lines
  <2>1. s.start \in 1..N /\ s.end \in s.start..N
    BY <1>1, SectionBounds
  <2> QED BY <1>2, <1>5, <2>1
<1> QED BY <1>3, <1>4, <1>6, <1>7 DEF Mapped

LEMMA IngestRecovers ==
    ASSUME NEW doc, Readable(doc), ~ Spelled(doc) PROVE RecoversSections(Ingested(doc))
<1> DEFINE text == Text(doc)
<1> DEFINE lines == text.lines
<1> DEFINE N == Len(lines)
<1> DEFINE f == Sections(text)
<1> DEFINE bases == Bases(text, Starts(text))
<1> DEFINE map == Ingested(doc)
<1>1. PICK c \in Nat : /\ 1..c \subseteq DOMAIN Numeral /\ bases \in [1..c -> Seq(IdWords) \ {<< >>}]
                       /\ Divided(f, bases, Told(lines), c, N)
  BY IngestDivides
<1>2. lines \in Seq(Lines) /\ N \in Nat /\ Clear(lines)
  BY TextIs DEF Legible
<1>3. map.mapped = lines /\ map.lines = lines /\ map.sections = f /\ map.sources = << >>
  BY IngestedIs
<1>4. Unspelled(bases, IdWords)
  <2>1. \A k \in DOMAIN Numeral : Numeral[k] \in IdWords
    BY DEF IdWords
  <2>2. \A n, m \in DOMAIN bases : \A k \in DOMAIN Numeral \ {0, 1} : bases[m] # Append(bases[n], Numeral[k])
    BY DEF Spelled
  <2> QED BY <2>1, <2>2 DEF Unspelled
<1> HIDE DEF text, lines, N, f, bases, map
<1>5. ASSUME NEW s \in ToSet(f)
      PROVE  ResolveQuery(map, <<Marked(s.id)>>) = Redacted(SectionText(lines, s))
  <2> DEFINE passage == SectionText(lines, s)
  <2>1. PICK n \in 1..c : s = f[n] /\ s.start \in 1..N /\ s.end \in s.start..N
    BY <1>1, SectionBounds
  <2>2. /\ passage \in Seq(Lines) /\ Len(passage) = s.end - s.start + 1
        /\ \A i \in DOMAIN passage : passage[i] = lines[s.start + i - 1] /\ s.start + i - 1 \in DOMAIN lines
    BY <1>2, <2>1, PassageIs DEF N
  <2>3. passage # << >>
    <3>1. Len(passage) # 0
      BY <1>2, <2>1, <2>2
    <3> QED BY <3>1, EmptySeq
  <2>4. Clear(passage)
    BY <1>2, <2>2 DEF Clear
  <2> HIDE DEF passage
  <2>5. Redacted(passage) = passage
    BY <2>2, <2>4, RedactedAgain
  <2>6. s.id # << >> /\ s.start \in Nat
    <3>1. s.id = Unique(bases, n)
      BY <1>1, <2>1 DEF Divided
    <3>2. Unique(bases, n) \in Seq(IdWords) \ {<< >>}
      BY <1>1, <1>4, UniqueIs
    <3> QED BY <2>1, <3>1, <3>2
  <2>7. ASSUME NEW t \in ToSet(f), t.id = s.id PROVE t = s
    <3>1. PICK m \in 1..c : t = f[m]
      BY <1>1, SectionBounds
    <3>2. Unique(bases, n) = Unique(bases, m)
      BY <1>1, <2>1, <2>7, <3>1 DEF Divided
    <3>3. ~ (n < m) /\ ~ (m < n)
      BY <1>1, <1>4, <3>2, UniqueIds
    <3>4. n = m
      BY <3>3
    <3> QED BY <2>1, <3>1, <3>4
  <2>8. f # << >>
    <3>1. DOMAIN f = 1..c
      BY <1>1 DEF Divided
    <3> QED BY <3>1
  <2>9. DocSlice(map, <<Marked(s.id)>>) = passage
    BY <1>3, <2>6, <2>7, <2>8, SliceIs DEF passage
  <2> QED BY <1>3, <2>3, <2>5, <2>9, ZoomIs DEF passage
<1> QED BY <1>3, <1>5 DEF RecoversSections, map

-----------------------------------------------------------------------------
(* What is served in a document's place. *)

LEMMA SkeletonAccounts ==
    ASSUME NEW map, IsSeq(map.sections) PROVE Accounted(map, SkeletonOf(map), << >>)
<1> DEFINE f == map.sections
<1> DEFINE text == SkeletonDistill(map)
<1> DEFINE N == Len(f)
<1>1. N \in Nat /\ f \in Seq(ToSet(f)) /\ f \in [1..N -> ToSet(f)]
  BY LenProperties DEF IsSeq
<1> DEFINE m == Min({MaxListed, N})
<1>2. m \in 0..N
  <2> HIDE DEF N
  <2>1. MaxListed \in Nat
    BY DocumentsAssumption
  <2>2. m = IF MaxListed <= N THEN MaxListed ELSE N
    BY <1>1, <2>1, MinOfTwo
  <2> HIDE DEF m
  <2> QED BY <1>1, <2>1, <2>2
<1>3. text.listed = SubSeq(f, 1, m) /\ text.omitted = N - Len(SubSeq(f, 1, m))
  BY DEF SkeletonDistill, Rendered
<1> HIDE DEF f, text, N, m
<1>4. Len(SubSeq(f, 1, m)) \in Nat
  <2>1. \A i \in 1..m : f[i] \in ToSet(f)
    BY <1>1, <1>2
  <2>2. 1 \in Int /\ m \in Int
    BY <1>1, <1>2
  <2> DEFINE part == SubSeq(f, 1, m)
  <2>3. part \in Seq(ToSet(f))
    BY <2>1, <2>2, SubSeqProperties
  <2> HIDE DEF part
  <2>4. Len(part) \in Nat
    BY <2>3, LenProperties
  <2> QED BY <2>4 DEF part
<1>5. Len(text.listed) + text.omitted = N
  BY <1>1, <1>3, <1>4
<1>6. SkeletonOf(map).served = "distilled" => SkeletonOf(map).text = text
  BY DEF SkeletonOf, Gated, Raw, text
<1>7. ToSet(<< >>) = {}
  BY DEF ToSet
<1> QED BY <1>5, <1>6, <1>7 DEF Accounted, f, N

LEMMA ServeAccounts ==
    ASSUME NEW map, IsSeq(map.sections), NEW matched
    PROVE  Accounted(map, ServedFor(map, matched), matched)
<1> DEFINE text == ServeDistill(map, matched)
<1> DEFINE outcome == ServedFor(map, matched)
<1> DEFINE region == Region(map.mapped, map.sections, matched)
<1>1. SUFFICES ASSUME outcome.served = "distilled" PROVE Accounted(map, outcome, matched)
  BY DEF Accounted
<1>2. outcome.text = text /\ GatesPassed(map.mapped, text, region, 6)
  BY <1>1 DEF ServedFor, Gated, Raw
<1>3. text.listed = map.sections /\ text.omitted = 0
  BY DEF ServeDistill
<1>4. Len(map.sections) \in Nat
  BY LenProperties DEF IsSeq
<1>5. region \cap Entities \subseteq SaidIn(map.mapped, text)
  BY <1>2 DEF GatesPassed
<1>6. ASSUME NEW s \in ToSet(matched)
      PROVE  WordsOf(SectionText(map.mapped, s)) \cap Entities \subseteq SaidIn(map.mapped, text)
  <2>1. matched # << >>
    <3>1. ToSet(<< >>) = {}
      BY DEF ToSet
    <3> QED BY <3>1
  <2>2. WordsOf(SectionText(map.mapped, s)) \subseteq region
    BY <2>1 DEF Region
  <2> QED BY <1>5, <2>2
<1> HIDE DEF text, outcome
<1>7. Len(outcome.text.listed) + outcome.text.omitted = Len(map.sections)
  BY <1>2, <1>3, <1>4
<1> QED BY <1>2, <1>6, <1>7 DEF Accounted

-----------------------------------------------------------------------------

LEMMA MapKeeps ==
    ASSUME Extraction = "ingest", \A doc \in Texts : ~ Spelled(doc), SectionsRecovered, [Map]_artifact
    PROVE  SectionsRecovered'
<1>1. CASE UNCHANGED artifact
  BY <1>1 DEF SectionsRecovered
<1>2. CASE Map
  <2>1. PICK doc \in Texts : artifact' = Ingested(doc)
    BY <1>2 DEF Map
  <2> DEFINE map == Ingested(doc)
  <2>2. Readable(doc) /\ ~ Spelled(doc)
    BY MappingAssumption
  <2>3. Covered(map) /\ RecoversSections(map) /\ Mapped(map)
    BY <2>2, IngestCovers, IngestRecovers, IngestMaps
  <2>4. IsSeq(map.sections)
    BY <2>3 DEF Mapped
  <2> HIDE DEF map
  <2>5. Accounted(map, SkeletonOf(map), << >>)
        /\ Accounted(map, ServedFor(map, MatchedSections(map, Sought)), MatchedSections(map, Sought))
    BY <2>4, SkeletonAccounts, ServeAccounts
  <2>6. artifact' = map
    BY <2>1 DEF map
  <2> QED BY <2>3, <2>5, <2>6 DEF SectionsRecovered
<1> QED BY <1>1, <1>2

\* Whatever the documents, each section that an ingest maps is recovered whole by
\* a zoom on its id and by no other's, each line that says something is of one
\* section, and what is served in a document's place accounts for all of them: a
\* text is redacted before it is mapped, an id is made unique by a count, and the
\* gates see what an ask's sections say (ingest.ts, docs.ts, distill.ts, gates.ts).
\* Where a heading spells another's id with a number after it, two share one.
THEOREM ZoomsRecover ==
    Extraction = "ingest" /\ (\A doc \in Texts : ~ Spelled(doc)) => (MappingSpec => []SectionsRecovered)
<1> SUFFICES ASSUME Extraction = "ingest", \A doc \in Texts : ~ Spelled(doc)
             PROVE  MappingSpec => []SectionsRecovered
  OBVIOUS
<1>1. MappingInit => SectionsRecovered
  BY DEF MappingInit, SectionsRecovered
<1>2. SectionsRecovered /\ [Map]_artifact => SectionsRecovered'
  BY MapKeeps
<1> QED BY <1>1, <1>2, PTL DEF MappingSpec

LEMMA IngestNames ==
    ASSUME NEW doc, Readable(doc), ~ Spelled(doc),
           NEW n \in DOMAIN Ingested(doc).sections, NEW m \in DOMAIN Ingested(doc).sections,
           Ingested(doc).sections[n].id = Ingested(doc).sections[m].id
    PROVE  n = m
<1> DEFINE text == Text(doc)
<1> DEFINE f == Sections(text)
<1> DEFINE bases == Bases(text, Starts(text))
<1>1. PICK c \in Nat : /\ 1..c \subseteq DOMAIN Numeral /\ bases \in [1..c -> Seq(IdWords) \ {<< >>}]
                       /\ Divided(f, bases, Told(text.lines), c, Len(text.lines))
  BY IngestDivides
<1>2. n \in DOMAIN f /\ m \in DOMAIN f /\ f[n].id = f[m].id
  BY IngestedIs
<1>3. Unspelled(bases, IdWords)
  <2>1. \A k \in DOMAIN Numeral : Numeral[k] \in IdWords
    BY DEF IdWords
  <2>2. \A i, j \in DOMAIN bases : \A k \in DOMAIN Numeral \ {0, 1} : bases[j] # Append(bases[i], Numeral[k])
    BY DEF Spelled
  <2> QED BY <2>1, <2>2 DEF Unspelled
<1> HIDE DEF text, f, bases
<1>4. n \in 1..c /\ m \in 1..c /\ Unique(bases, n) = Unique(bases, m)
  BY <1>1, <1>2 DEF Divided
<1>5. ~ (n < m) /\ ~ (m < n)
  BY <1>1, <1>3, <1>4, UniqueIds
<1> QED BY <1>4, <1>5

\* What docs.ts says of its ids is so, for any documents whose headings do not
\* spell an id with a number after it: no two sections of an ingested document
\* have one id, however often a heading is repeated.
THEOREM CitationsApart ==
    Extraction = "ingest" /\ (\A doc \in Texts : ~ Spelled(doc)) => (MappingSpec => []CitationsUnambiguous)
<1> SUFFICES ASSUME Extraction = "ingest", \A doc \in Texts : ~ Spelled(doc)
             PROVE  MappingSpec => []CitationsUnambiguous
  OBVIOUS
<1>1. MappingInit => CitationsUnambiguous
  BY DEF MappingInit, CitationsUnambiguous
<1>2. CitationsUnambiguous /\ [Map]_artifact => CitationsUnambiguous'
  <2>1. ASSUME CitationsUnambiguous, UNCHANGED artifact PROVE CitationsUnambiguous'
    BY <2>1 DEF CitationsUnambiguous
  <2>2. ASSUME Map PROVE CitationsUnambiguous'
    <3>1. PICK doc \in Texts : artifact' = Ingested(doc)
      BY <2>2 DEF Map
    <3>2. Readable(doc) /\ ~ Spelled(doc)
      BY MappingAssumption
    <3> QED BY <3>1, <3>2, IngestNames DEF CitationsUnambiguous
  <2> QED BY <2>1, <2>2
<1> QED BY <1>1, <1>2, PTL DEF MappingSpec

LEMMA TitleOf == ASSUME NEW line \in Lines, ~ Blank(line) PROVE ToSet(Title(line)) \subseteq ToSet(line.words)
<1> DEFINE words == line.words
<1>1. words \in Seq(Spellings) /\ words # << >>
  BY DEF Lines, Blank
<1> HIDE DEF words
<1>2. ToSet(Tail(words)) \subseteq ToSet(words)
  <2>1. /\ Tail(words) \in Seq(Spellings) /\ Len(Tail(words)) = Len(words) - 1
        /\ \A i \in 1..Len(Tail(words)) : Tail(words)[i] = words[i + 1]
    BY <1>1, HeadTailProperties
  <2>2. DOMAIN Tail(words) = 1..Len(Tail(words)) /\ DOMAIN words = 1..Len(words) /\ Len(words) \in Nat
    BY <1>1, <2>1, LenProperties
  <2>3. ASSUME NEW i \in DOMAIN Tail(words)
        PROVE  Tail(words)[i] = words[i + 1] /\ i + 1 \in DOMAIN words
    BY <2>1, <2>2
  <2> QED BY <2>3 DEF ToSet
<1>3. Title(line) = Tail(words) \/ Title(line) = words
  BY DEF Title, words
<1> QED BY <1>2, <1>3 DEF words

\* Redaction leaves the lines that no secret stands before where they are.
LEMMA RedactedAlone ==
    ASSUME NEW lines \in Seq(Lines), NEW i \in DOMAIN lines, \A j \in 1..i : ~ lines[j].secret
    PROVE  i \in DOMAIN Redacted(lines) /\ Redacted(lines)[i] = lines[i]
<1> DEFINE N == Len(lines)
<1> DEFINE f == Ascending(KeptLines(lines))
<1> DEFINE c == Cardinality(KeptLines(lines))
<1>1. N \in Nat /\ DOMAIN lines = 1..N /\ i \in 1..N
  OBVIOUS
<1>2. KeptLines(lines) \subseteq 1..N /\ 1..i \subseteq KeptLines(lines)
  BY <1>1 DEF KeptLines
<1>3. IsFiniteSet(KeptLines(lines)) /\ c \in Nat
  <2>1. IsFiniteSet(1..N)
    BY <1>1, FS_Interval
  <2>2. IsFiniteSet(KeptLines(lines))
    BY <1>2, <2>1, FS_Subset
  <2> QED BY <2>2, FS_CardinalityType
<1>4. /\ f \in [1..c -> KeptLines(lines)]
      /\ \A n \in 1..c : Cardinality({j \in KeptLines(lines) : j < f[n]}) = n - 1
      /\ \A x \in KeptLines(lines) : \E n \in 1..c : f[n] = x
  BY <1>2, <1>3, AscendingOf
<1>5. PICK n \in 1..c : f[n] = i
  BY <1>1, <1>2, <1>4
<1>6. {j \in KeptLines(lines) : j < i} = 1..(i - 1)
  BY <1>1, <1>2
<1>7. Cardinality(1..(i - 1)) = i - 1
  <2>1. i - 1 \in Nat /\ 1 \in Int /\ i - 1 \in Int /\ ~ (1 > i - 1 /\ i - 1 # 0)
    BY <1>1
  <2>2. Cardinality(1..(i - 1)) = IF 1 > i - 1 THEN 0 ELSE (i - 1) - 1 + 1
    BY <2>1, FS_Interval
  <2> QED BY <2>1, <2>2
<1>8. n = i
  <2>1. Cardinality({j \in KeptLines(lines) : j < f[n]}) = n - 1
    BY <1>4
  <2>2. Cardinality({j \in KeptLines(lines) : j < i}) = n - 1
    BY <1>5, <2>1
  <2>3. i - 1 = n - 1
    BY <1>6, <1>7, <2>2
  <2> QED BY <1>1, <1>3, <2>3
<1>9. DOMAIN f = 1..c
  BY <1>4
<1>10. ~ lines[f[i]].secret
  BY <1>1, <1>5, <1>8
<1>11. DOMAIN Redacted(lines) = DOMAIN f /\ (i \in DOMAIN f => Redacted(lines)[i] = lines[f[i]])
  BY <1>10 DEF Redacted, KeptLines
<1> QED BY <1>3, <1>5, <1>8, <1>9, <1>11

\* The headings of a document that leaves them in place are its lines' in the stored text.
LEMMA IngestLeads ==
    ASSUME NEW doc, Readable(doc), InPlace(doc), NEW s \in ToSet(Ingested(doc).sections)
    PROVE  /\ s.start \in DOMAIN Ingested(doc).lines
           /\ s.body > s.start => ToSet(s.title) \subseteq ToSet(Ingested(doc).lines[s.start].words)
<1> DEFINE text == Text(doc)
<1> DEFINE N == Len(text.lines)
<1> DEFINE starts == Starts(text)
<1> DEFINE bases == Bases(text, starts)
<1>1. Legible(text) /\ N \in Nat
  BY TextIs
<1>2. PICK c \in 0..(N + 1) : Rising(starts, c, N)
  <2> HIDE DEF text
  <2> QED BY <1>1, StartsRise
<1>3. text.styled = doc.styled /\ text.lines = Redacted(doc.lines) /\ doc.lines \in Seq(Lines)
  BY DEF Readable, Text
<1>4. Ingested(doc).lines = text.lines /\ Ingested(doc).sections = Sections(text)
  BY IngestedIs
<1> HIDE DEF text
<1>5. PICK n \in 1..c : s = Section(text, starts, bases, n)
  BY <1>2, <1>4 DEF Sections, Rising, ToSet
<1>6. starts[n] \in 1..N
  BY <1>2 DEF Rising
<1>7. s.start = starts[n] /\ starts[n] \in DOMAIN Ingested(doc).lines
  <2>1. text.lines \in Seq(Lines)
    BY <1>1 DEF Legible
  <2>2. starts[n] \in DOMAIN text.lines
    BY <1>6, <2>1
  <2>3. s.start = starts[n]
    BY <1>5 DEF Section
  <2> QED BY <1>4, <2>2, <2>3
<1> SUFFICES ASSUME s.body > s.start
             PROVE  ToSet(s.title) \subseteq ToSet(Ingested(doc).lines[s.start].words)
  BY <1>7
<1>8. starts[n] \in HeadingLines(text)
  <2>1. starts[n] \notin HeadingLines(text) => s.body = starts[n]
    BY <1>5 DEF Section
  <2> QED BY <1>6, <1>7, <2>1
<1>9. s.title = Title(Heading(text, starts[n]))
  BY <1>5, <1>8 DEF Section
<1>10. Heading(text, starts[n]) \in Lines /\ ~ Blank(Heading(text, starts[n]))
  BY <1>1, <1>8 DEF Legible
<1>11. Heading(text, starts[n]).words = text.lines[starts[n]].words
  <2>1. CASE DOMAIN text.styled = {}
    BY <2>1 DEF Heading
  <2>2. CASE DOMAIN text.styled # {}
    <3>1. starts[n] \in DOMAIN doc.styled /\ Heading(text, starts[n]) = doc.styled[starts[n]]
      BY <1>3, <1>8, <2>2 DEF HeadingLines, Heading
    <3>2. /\ starts[n] \in DOMAIN doc.lines /\ doc.styled[starts[n]].words = doc.lines[starts[n]].words
          /\ \A j \in 1..starts[n] : ~ doc.lines[j].secret
      BY <3>1 DEF InPlace
    <3>3. text.lines[starts[n]] = doc.lines[starts[n]]
      BY <1>3, <3>2, RedactedAlone
    <3> QED BY <3>1, <3>2, <3>3
  <2> QED BY <2>1, <2>2
<1> QED BY <1>4, <1>7, <1>9, <1>10, <1>11, TitleOf

\* What ingest.ts says of its map is so for documents whose headings are found
\* in their lines, and for those that name them where no secret stands before:
\* every section starts at its heading in the stored text. Headings that a Word
\* document names by line are those of the text before the redaction.
THEOREM HeadedInPlace ==
    Extraction = "ingest" /\ (\A doc \in Texts : InPlace(doc)) => (MappingSpec => []HeadingsLead)
<1> SUFFICES ASSUME Extraction = "ingest", \A doc \in Texts : InPlace(doc)
             PROVE  MappingSpec => []HeadingsLead
  OBVIOUS
<1>1. MappingInit => HeadingsLead
  BY DEF MappingInit, HeadingsLead
<1>2. HeadingsLead /\ [Map]_artifact => HeadingsLead'
  <2>1. ASSUME HeadingsLead, UNCHANGED artifact PROVE HeadingsLead'
    BY <2>1 DEF HeadingsLead
  <2>2. ASSUME Map PROVE HeadingsLead'
    <3>1. PICK doc \in Texts : artifact' = Ingested(doc)
      BY <2>2 DEF Map
    <3>2. Readable(doc) /\ InPlace(doc)
      BY MappingAssumption
    <3> QED BY <3>1, <3>2, IngestLeads DEF HeadingsLead
  <2> QED BY <2>1, <2>2
<1> QED BY <1>1, <1>2, PTL DEF MappingSpec
=============================================================================
