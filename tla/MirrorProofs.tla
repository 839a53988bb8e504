---------------------------- MODULE MirrorProofs ----------------------------
(***************************************************************************)
(* The staleness rule of the skeleton mirror, proved for any files, any    *)
(* directives, any batches and any number of jobs, as long as no two       *)
(* builds of one file overlap.  What breaks the rule is thus two builds of *)
(* the same file at once, and nothing else: not the index written whole by *)
(* two refreshes, not a process that dies between entry and index.         *)
(***************************************************************************)
EXTENDS Mirror, SequenceTheorems, TLAPS

(***************************************************************************)
(* Types.                                                                  *)
(***************************************************************************)
(* A job that builds has its file and hash; the file a refresh builds is   *)
(* still on its list.                                                      *)
Aiming(b) == b # None =>
  /\ b.pc \in {"building", "entered"} => b.file \in Files /\ b.hash \in Nat
  /\ b.pc = "building" /\ b.kind = "refresh" => b.todo # <<>>

Aimed == \A j \in Jobs : Aiming(job[j])

Typed == TypeOK /\ Aimed

(* None is nothing else.                                                   *)
LEMMA NoneApart ==
  /\ None \notin Files /\ None \notin Directives /\ None \notin Jobs /\ None \notin Nat
  /\ None \notin Builds
BY NoneAssumption DEF Builds

LEMMA InitTyped == Init => Typed
BY NoneApart DEF Init, Typed, TypeOK, Aimed, Aiming, Nothing, Indexes

(* A job is well typed where it is begun, and stays so.                    *)
LEMMA JobType ==
  ASSUME TypeOK, NEW pc \in {"begun", "open", "building", "entered"},
         NEW kind \in {"refresh", "prepare"}, NEW todo \in Seq(Files)
  PROVE  Job(pc, kind, todo) \in JobStates
BY DEF TypeOK, Job, JobStates

LEMMA JobSet ==
  ASSUME Typed, NEW j \in Jobs, NEW b \in JobStates \cup {None},
         Aiming(b),
         job' = [job EXCEPT ![j] = b]
  PROVE  job' \in [Jobs -> JobStates \cup {None}] /\ Aimed'
BY DEF Typed, TypeOK, Aimed

LEMMA BeginTyped == ASSUME Typed, NEW j \in Jobs, Begin(j) PROVE Typed'
<1>1. PICK files \in Batches : job' = [job EXCEPT ![j] = Job("begun", "refresh", files)]
  BY DEF Begin
<1>2. files \in Seq(Files)
  BY BatchesAssumption
<1> DEFINE b == Job("begun", "refresh", files)
<1>3. b \in JobStates /\ b.pc = "begun"
  BY <1>2, JobType DEF Typed, Job
<1>4. job' \in [Jobs -> JobStates \cup {None}] /\ Aimed'
  BY <1>1, <1>3, JobSet DEF Aiming
<1> QED BY <1>4 DEF Typed, TypeOK, Begin, code, mirror

LEMMA OpenTyped == ASSUME Typed, NEW j \in Jobs, Open(j) PROVE Typed'
<1> DEFINE b == [job[j] EXCEPT !.pc = "open", !.view = index]
<1>1. job[j] \in JobStates /\ index \in Indexes
  BY DEF Typed, TypeOK, Open
<1>2. b \in JobStates /\ b.pc = "open"
  BY <1>1 DEF JobStates
<1>3. job' = [job EXCEPT ![j] = b]
  BY <1>1 DEF Open, Typed, TypeOK
<1>4. job' \in [Jobs -> JobStates \cup {None}] /\ Aimed'
  BY <1>2, <1>3, JobSet DEF Aiming
<1> QED BY <1>4 DEF Typed, TypeOK, Open, code, mirror

LEMMA LearnTyped == ASSUME Typed, NEW j \in Jobs, NEW f \in Files, Learn(j, f) PROVE Typed'
<1>1. directive' \in [Files -> Directives \cup {None}]
  BY DEF Typed, TypeOK, Learn
<1> DEFINE b == [Job("open", "refresh", <<f>>) EXCEPT !.want = directive']
<1>2. b \in JobStates /\ b.pc = "open"
  <2>1. <<f>> \in Seq(Files)
    OBVIOUS
  <2>2. Job("open", "refresh", <<f>>) \in JobStates
    BY <2>1, JobType DEF Typed
  <2> QED BY <1>1, <2>2 DEF JobStates, Job
<1>3. job' = job \/ job' = [job EXCEPT ![j] = b]
  BY DEF Learn
<1>4. CASE job' = job
  BY <1>1, <1>4 DEF Typed, TypeOK, Aimed, Learn, mirror
<1>5. CASE job' = [job EXCEPT ![j] = b]
  <2>1. job' \in [Jobs -> JobStates \cup {None}] /\ Aimed'
    BY <1>2, <1>5, JobSet DEF Aiming
  <2> QED BY <1>1, <2>1 DEF Typed, TypeOK, Learn, mirror
<1> QED BY <1>3, <1>4, <1>5

(* What follows the file at the head of a batch.                           *)
LEMMA TailType ==
  ASSUME NEW s \in Seq(Files), s # <<>>
  PROVE  Tail(s) \in Seq(Files) /\ Head(s) \in Files
OBVIOUS

LEMMA DroppedTyped ==
  ASSUME Typed, NEW j \in Jobs, NEW f \in Files, job[j] # None, Tail(job[j].todo) \in Seq(Files),
         Dropped(j, f), UNCHANGED <<code, index, serve>>
  PROVE  Typed'
<1> DEFINE known == job[j].view[f] # None
           b == [job[j] EXCEPT !.pc = "open", !.todo = Tail(@), !.view[f] = None, !.dirty = @ \/ known]
<1>1. job[j] \in JobStates
  BY DEF Typed, TypeOK
<1>2. b \in JobStates /\ b.pc = "open"
  BY <1>1, ZenonT(60) DEF JobStates, Indexes
<1>3. job' = [job EXCEPT ![j] = b]
  BY <1>1, ZenonT(60) DEF Dropped, Typed, TypeOK
<1>4. job' \in [Jobs -> JobStates \cup {None}] /\ Aimed'
  BY <1>2, <1>3, JobSet DEF Aiming
<1>5. entry' \in Indexes
  BY DEF Typed, TypeOK, Dropped, Indexes
<1> QED BY <1>4, <1>5 DEF Typed, TypeOK, code

LEMMA LookGoneTyped == ASSUME Typed, NEW j \in Jobs, NEW f \in Files, LookGone(j, f) PROVE Typed'
<1>1. job[j] \in JobStates /\ job[j].todo # <<>>
  BY DEF Typed, TypeOK, LookGone, Looking
<1>2. Tail(job[j].todo) \in Seq(Files)
  BY <1>1, TailType DEF JobStates
<1> QED BY <1>2, DroppedTyped DEF LookGone, Looking

LEMMA LookFreshTyped == ASSUME Typed, NEW j \in Jobs, NEW f \in Files, LookFresh(j, f) PROVE Typed'
<1> DEFINE b == [job[j] EXCEPT !.todo = Tail(@)]
<1>1. job[j] \in JobStates /\ job[j].todo # <<>> /\ job[j].pc = "open"
  BY DEF Typed, TypeOK, LookFresh, Looking
<1>2. b \in JobStates /\ b.pc = "open"
  BY <1>1, TailType DEF JobStates
<1>3. job' = [job EXCEPT ![j] = b]
  BY <1>1 DEF LookFresh, Typed, TypeOK
<1>4. job' \in [Jobs -> JobStates \cup {None}] /\ Aimed'
  BY <1>2, <1>3, JobSet DEF Aiming
<1> QED BY <1>4 DEF Typed, TypeOK, LookFresh, code, mirror

LEMMA LookStaleTyped == ASSUME Typed, NEW j \in Jobs, NEW f \in Files, LookStale(j, f) PROVE Typed'
<1> DEFINE b == [job[j] EXCEPT !.pc = "building", !.file = f, !.hash = source[f]]
<1>1. job[j] \in JobStates /\ job[j].todo # <<>> /\ source[f] \in Nat
  BY DEF Typed, TypeOK, LookStale, Looking
<1>2. b \in JobStates /\ b.file \in Files /\ b.hash \in Nat /\ b.todo # <<>>
  BY <1>1 DEF JobStates
<1>3. job' = [job EXCEPT ![j] = b]
  BY <1>1 DEF LookStale, Typed, TypeOK
<1>4. job' \in [Jobs -> JobStates \cup {None}] /\ Aimed'
  BY <1>2, <1>3, JobSet DEF Aiming
<1> QED BY <1>4 DEF Typed, TypeOK, LookStale, code, mirror

(* A build under way, and what it writes.                                  *)
LEMMA BuildType ==
  ASSUME Typed, NEW j \in Jobs, NEW kind, Building(j, kind)
  PROVE  /\ job[j] \in JobStates /\ job[j].file \in Files /\ job[j].hash \in Nat
         /\ [hash |-> job[j].hash, kept |-> job[j].want[job[j].file]] \in Builds
         /\ [hash |-> job[j].hash, kept |-> None] \in Builds
         /\ kind = "refresh" => job[j].todo # <<>> /\ Tail(job[j].todo) \in Seq(Files)
<1>1. job[j] \in JobStates /\ Aiming(job[j]) /\ job[j] # None /\ job[j].pc = "building"
      /\ job[j].kind = kind
  BY DEF Typed, TypeOK, Aimed, Building
<1>2. job[j].file \in Files /\ job[j].hash \in Nat
  BY <1>1 DEF Aiming
<1>3. job[j].want[job[j].file] \in Directives \cup {None}
  BY <1>1, <1>2 DEF JobStates
<1>4. kind = "refresh" => job[j].todo # <<>> /\ Tail(job[j].todo) \in Seq(Files)
  BY <1>1, TailType DEF Aiming, JobStates
<1> QED BY <1>1, <1>2, <1>3, <1>4 DEF Builds

LEMMA BuiltTyped == ASSUME Typed, NEW j \in Jobs, Built(j) PROVE Typed'
<1> DEFINE f == job[j].file
           build == [hash |-> job[j].hash, kept |-> job[j].want[f]]
           b == [job[j] EXCEPT !.pc = "open", !.todo = Tail(@), !.dirty = TRUE, !.view[f] = build]
<1>1. /\ job[j] \in JobStates /\ f \in Files /\ build \in Builds
      /\ Tail(job[j].todo) \in Seq(Files)
  BY BuildType DEF Built
<1>2. b \in JobStates /\ b.pc = "open"
  <2>1. [job[j].view EXCEPT ![f] = build] \in Indexes
    BY <1>1 DEF JobStates, Indexes
  <2> HIDE DEF build
  <2> QED BY <1>1, <2>1 DEF JobStates
<1>3. job' = [job EXCEPT ![j] = b]
  <2> DEFINE T == JobStates \cup {None}
  <2>1. /\ job \in [Jobs -> T]
        /\ job' = [job EXCEPT ![j].pc = "open", ![j].todo = Tail(@), ![j].dirty = TRUE,
                              ![j].view[f] = build]
    BY DEF Built, Typed, TypeOK
  <2> HIDE DEF T, build, f
  <2> QED BY ZenonT(60), <2>1
<1>4. job' \in [Jobs -> JobStates \cup {None}] /\ Aimed'
  BY <1>2, <1>3, JobSet DEF Aiming
<1>5. entry' \in Indexes
  BY <1>1 DEF Built, Typed, TypeOK, Indexes
<1> QED BY <1>4, <1>5 DEF Typed, TypeOK, Built, code

LEMMA BuildFailsTyped == ASSUME Typed, NEW j \in Jobs, BuildFails(j) PROVE Typed'
<1>1. job[j] # None /\ job[j].file \in Files /\ Tail(job[j].todo) \in Seq(Files)
  BY BuildType DEF BuildFails, Building
<1> QED BY <1>1, DroppedTyped DEF BuildFails

LEMMA EndTyped ==
  ASSUME Typed, NEW j \in Jobs, job' = [job EXCEPT ![j] = None]
  PROVE  job' \in [Jobs -> JobStates \cup {None}] /\ Aimed'
BY JobSet DEF Aiming

LEMMA FinishTyped == ASSUME Typed, NEW j \in Jobs, Finish(j) PROVE Typed'
<1>1. index' \in Indexes
  BY DEF Finish, Typed, TypeOK, JobStates
<1> QED BY <1>1, EndTyped DEF Finish, Typed, TypeOK, code

LEMMA HookPreparesTyped ==
  ASSUME Typed, NEW j \in Jobs, NEW f \in Files, HookPrepares(j, f) PROVE Typed'
<1> DEFINE b == [Job("building", "prepare", <<>>) EXCEPT
                   !.file = f, !.hash = source[f], !.want = Nothing]
<1>1. source[f] \in Nat
  BY DEF HookPrepares, Typed, TypeOK
<1>2. b \in JobStates /\ b.file = f /\ b.hash = source[f] /\ b.kind = "prepare"
  <2>1. <<>> \in Seq(Files)
    OBVIOUS
  <2>2. Job("building", "prepare", <<>>) \in JobStates
    BY <2>1, JobType DEF Typed
  <2>3. Nothing \in [Files -> Directives \cup {None}]
    BY DEF Nothing
  <2> QED BY <1>1, <2>2, <2>3 DEF JobStates, Job
<1>3. job' \in [Jobs -> JobStates \cup {None}] /\ Aimed'
  BY <1>1, <1>2, JobSet DEF Aiming, HookPrepares
<1> QED BY <1>3 DEF Typed, TypeOK, HookPrepares, code, mirror

LEMMA PreparedTyped == ASSUME Typed, NEW j \in Jobs, Prepared(j) PROVE Typed'
<1> DEFINE b == [job[j] EXCEPT !.pc = "entered"]
<1>1. /\ job[j] \in JobStates /\ job[j].file \in Files /\ job[j].hash \in Nat
      /\ [hash |-> job[j].hash, kept |-> None] \in Builds
  BY BuildType DEF Prepared
<1>2. b \in JobStates /\ b.pc = "entered" /\ b.file = job[j].file /\ b.hash = job[j].hash
  BY <1>1 DEF JobStates
<1>3. job' = [job EXCEPT ![j] = b]
  BY <1>1 DEF Prepared, Typed, TypeOK
<1>4. job' \in [Jobs -> JobStates \cup {None}] /\ Aimed'
  BY <1>1, <1>2, <1>3, JobSet DEF Aiming
<1>5. entry' \in Indexes
  BY <1>1 DEF Prepared, Typed, TypeOK, Indexes
<1> QED BY <1>4, <1>5 DEF Typed, TypeOK, Prepared, code

LEMMA PrepareEndsTyped == ASSUME Typed, NEW j \in Jobs, PrepareEnds(j) PROVE Typed'
<1>1. job[j].file \in Files /\ job[j].hash \in Nat
  BY DEF PrepareEnds, Typed, TypeOK, Aimed, Aiming
<1>2. index' \in Indexes
  BY <1>1 DEF PrepareEnds, Typed, TypeOK, Indexes, Builds
<1>3. serve' \in Serves \cup {None}
  BY <1>1 DEF PrepareEnds, Typed, TypeOK, Rewrite, Serves
<1> QED BY <1>2, <1>3, EndTyped DEF PrepareEnds, Typed, TypeOK, code

LEMMA ReadEntryTyped == ASSUME Typed, ReadEntry PROVE Typed'
<1>1. serve \in Serves /\ entry[serve.file] \in Builds \cup {None}
  BY DEF ReadEntry, Waiting, Typed, TypeOK, Serves, Indexes
<1>2. serve' \in Serves
  BY <1>1 DEF ReadEntry, Serves
<1> QED BY <1>2 DEF ReadEntry, Typed, TypeOK, Aimed, code, mirror

LEMMA HookServesTyped == ASSUME Typed, NEW f \in Files, HookServes(f) PROVE Typed'
<1>1. serve' \in Serves
  BY DEF HookServes, Rewrite, Serves, Typed, TypeOK
<1> QED BY <1>1 DEF HookServes, Typed, TypeOK, Aimed, code, mirror

LEMMA NextTyped == ASSUME Typed, [Next]_vars PROVE Typed'
<1>1. ASSUME NEW f \in Files, Edit(f) PROVE Typed'
  BY <1>1 DEF Edit, Typed, TypeOK, Aimed, mirror
<1>2. ASSUME NEW f \in Files, Delete(f) PROVE Typed'
  BY <1>2 DEF Delete, Typed, TypeOK, Aimed, mirror
<1>3. ASSUME NEW j \in Jobs, Crash(j) PROVE Typed'
  BY <1>3, EndTyped DEF Crash, Typed, TypeOK, code, mirror
<1>4. ASSUME NEW j \in Jobs, PrepareFails(j) PROVE Typed'
  BY <1>4, EndTyped DEF PrepareFails, Typed, TypeOK, code, mirror
<1>5. CASE UNCHANGED vars
  BY <1>5 DEF vars, code, mirror, Typed, TypeOK, Aimed
<1>6. ASSUME NEW j \in Jobs, Refresh(j) PROVE Typed'
  BY <1>3, <1>6, BeginTyped, OpenTyped, BuiltTyped, BuildFailsTyped, FinishTyped, LearnTyped,
     LookGoneTyped, LookFreshTyped, LookStaleTyped DEF Refresh
<1>7. ASSUME NEW j \in Jobs, Preparation(j) PROVE Typed'
  BY <1>4, <1>7, PreparedTyped, PrepareEndsTyped, HookPreparesTyped DEF Preparation
<1> QED BY <1>1, <1>2, <1>5, <1>6, <1>7, HookServesTyped, ReadEntryTyped DEF Next

(* Every reachable state of the mirror is well typed, with any number of   *)
(* jobs at work.                                                           *)
THEOREM MirrorTyped == Spec => []Typed
<1>1. Init => Typed
  BY InitTyped
<1>2. Typed /\ [Next]_vars => Typed'
  BY NextTyped
<1> QED BY <1>1, <1>2, PTL DEF Spec

(***************************************************************************)
(* The invariant.                                                          *)
(***************************************************************************)
(* The job b is building f; it has or will have h in the index as the hash *)
(* of f.                                                                   *)
Makes(b, f) == b # None /\ b.pc = "building" /\ b.file = f

Vouches(b, f, h) ==
  /\ b # None
  /\ \/ b.view[f] # None /\ b.view[f].hash = h
     \/ b.pc = "entered" /\ b.file = f /\ b.hash = h

(* Something takes f for indexed with hash h: the index, a job, or a Read  *)
(* on its way to the entry file.                                           *)
Promised(f, h) ==
  \/ index[f] # None /\ index[f].hash = h
  \/ \E j \in Jobs : Vouches(job[j], f, h)
  \/ Waiting /\ serve.file = f /\ serve.hash = h

(* A promise is of a content there has been, at most as recent as the      *)
(* entry, if there is one, and as any build of the file under way.         *)
Kept(f, h) ==
  /\ h <= edits[f]
  /\ entry[f] # None => h <= entry[f].hash
  /\ \A j \in Jobs : Makes(job[j], f) => h <= job[j].hash

PromisesKept == \A f \in Files, h \in Nat : Promised(f, h) => Kept(f, h)

(* What is there is the latest content, what is being built an earlier one *)
(* at most.                                                                *)
Past == \A f \in Files :
  /\ source[f] \in {None, edits[f]}
  /\ \A j \in Jobs : Makes(job[j], f) => job[j].hash <= edits[f]

Inv == PromisesKept /\ Past /\ ServedFresh

(* The index runs ahead of no entry as long as promises are kept.          *)
LEMMA KeptLeads == ASSUME Typed, PromisesKept PROVE EntriesLead
<1> SUFFICES ASSUME NEW f \in Files, index[f] # None, entry[f] # None
             PROVE  index[f].hash <= entry[f].hash
  BY DEF EntriesLead
<1>1. index[f].hash \in Nat
  BY DEF Typed, TypeOK, Indexes, Builds
<1>2. Promised(f, index[f].hash)
  BY DEF Promised
<1> QED BY <1>1, <1>2 DEF PromisesKept, Kept

(* What the rest of a step leaves to be shown of the one job it moves: it  *)
(* vouches for nothing new, and what it starts to build is the latest.     *)
Quiet(j) ==
  /\ \A i \in Jobs \ {j} : job'[i] = job[i]
  /\ \A f \in Files, h \in Nat : Vouches(job'[j], f, h) => Promised(f, h)
  /\ \A f \in Files : Makes(job'[j], f) =>
       job'[j].hash = edits[f] \/ (Makes(job[j], f) /\ job'[j].hash = job[j].hash)

(* A step that promises nothing new and writes no entry.                   *)
LEMMA Steady ==
  ASSUME Typed, Typed', PromisesKept, Past, NEW j \in Jobs, Quiet(j),
         UNCHANGED <<edits, source>>,
         \A f \in Files : entry'[f] \in {None, entry[f]},
         \A f \in Files, h \in Nat :
           \/ index'[f] # None /\ index'[f].hash = h
           \/ Waiting' /\ serve'.file = f /\ serve'.hash = h
           => Promised(f, h)
  PROVE  PromisesKept' /\ Past'
<1>1. \A f \in Files, h \in Nat : Promised(f, h)' => Promised(f, h)
  BY DEF Promised, Quiet
<1>2. \A i \in Jobs, f \in Files : Makes(job'[i], f) =>
        job'[i].hash = edits[f] \/ (Makes(job[i], f) /\ job'[i].hash = job[i].hash)
  BY DEF Quiet
<1>3. \A f \in Files : edits[f] \in Nat
  BY DEF Typed, TypeOK
<1>4. PromisesKept'
  <2> SUFFICES ASSUME NEW f \in Files, NEW h \in Nat, Promised(f, h)'
               PROVE  Kept(f, h)'
    BY DEF PromisesKept
  <2>1. Kept(f, h)
    BY <1>1 DEF PromisesKept
  <2>2. h <= edits'[f] /\ (entry'[f] # None => h <= entry'[f].hash)
    BY <2>1 DEF Kept
  <2>3. ASSUME NEW i \in Jobs, Makes(job'[i], f) PROVE h <= job'[i].hash
    BY <1>2, <2>1, <2>3 DEF Kept
  <2> QED BY <2>2, <2>3 DEF Kept, Makes
<1>5. Past'
  <2> SUFFICES ASSUME NEW f \in Files
               PROVE  /\ source'[f] \in {None, edits'[f]}
                      /\ \A i \in Jobs : Makes(job'[i], f) => job'[i].hash <= edits'[f]
    BY DEF Past, Makes
  <2> QED BY <1>2, <1>3 DEF Past
<1> QED BY <1>4, <1>5

(* A build that nobody else is at is written: it is as recent as anything  *)
(* that is promised of its file.                                           *)
LEMMA Written ==
  ASSUME Typed, Typed', PromisesKept, Past, BuildsAlone, NEW j \in Jobs, NEW f \in Files,
         Makes(job[j], f), UNCHANGED <<code, index, serve>>,
         \A i \in Jobs \ {j} : job'[i] = job[i],
         \A g \in Files : ~Makes(job'[j], g),
         \A g \in Files, h \in Nat : Vouches(job'[j], g, h) =>
           Promised(g, h) \/ (g = f /\ h = job[j].hash),
         entry'[f].hash = job[j].hash, \A g \in Files \ {f} : entry'[g] = entry[g]
  PROVE  PromisesKept' /\ Past'
<1>1. \A g \in Files, h \in Nat : Promised(g, h)' =>
        Promised(g, h) \/ (g = f /\ h = job[j].hash)
  BY DEF Promised, Waiting
<1>2. \A i \in Jobs, g \in Files : Makes(job'[i], g) => i # j /\ Makes(job[i], g) /\ job'[i] = job[i]
  OBVIOUS
<1>3. job[j].hash \in Nat /\ job[j].hash <= edits[f]
  BY DEF Typed, Aimed, Aiming, Makes, Past
<1>4. \A i \in Jobs : ~Makes(job'[i], f)
  BY <1>2 DEF BuildsAlone, Underway, Makes
<1>5. PromisesKept'
  <2> SUFFICES ASSUME NEW g \in Files, NEW h \in Nat, Promised(g, h)'
               PROVE  Kept(g, h)'
    BY DEF PromisesKept
  <2>1. CASE g = f
    <3>1. h <= job[j].hash /\ h <= edits[f]
      <4>1. CASE Promised(f, h)
        BY <4>1 DEF PromisesKept, Kept
      <4> QED BY <1>1, <1>3, <2>1, <4>1
    <3> QED BY <1>4, <2>1, <3>1 DEF Kept, Makes, code
  <2>2. CASE g # f
    <3>1. Kept(g, h)
      BY <1>1, <2>2 DEF PromisesKept
    <3> QED BY <1>2, <2>2, <3>1 DEF Kept, Makes, code
  <2> QED BY <2>1, <2>2
<1>6. Past'
  BY <1>2 DEF Past, Makes, code
<1> QED BY <1>5, <1>6

(***************************************************************************)
(* Each step keeps it.                                                     *)
(***************************************************************************)
(* A job that is replaced, and is not at a build then.                     *)
LEMMA QuietSet ==
  ASSUME Typed, NEW j \in Jobs, NEW b, job' = [job EXCEPT ![j] = b],
         \A f \in Files, h \in Nat : Vouches(b, f, h) => Promised(f, h),
         \A f \in Files : Makes(b, f) => b.hash = edits[f]
  PROVE  Quiet(j)
BY DEF Quiet, Typed, TypeOK

LEMMA EndQuiet == ASSUME Typed, NEW j \in Jobs, job' = [job EXCEPT ![j] = None] PROVE Quiet(j)
BY QuietSet DEF Vouches, Makes

LEMMA BeginQuiet == ASSUME Typed, NEW j \in Jobs, Begin(j) PROVE Quiet(j)
<1>1. PICK files \in Batches : job' = [job EXCEPT ![j] = Job("begun", "refresh", files)]
  BY DEF Begin
<1> DEFINE b == Job("begun", "refresh", files)
<1>2. b.view = index /\ b.pc = "begun" /\ job' = [job EXCEPT ![j] = b]
  BY <1>1 DEF Job
<1> HIDE DEF b
<1> QED BY <1>2, QuietSet DEF Vouches, Promised, Makes

LEMMA LearnQuiet ==
  ASSUME Typed, NEW j \in Jobs, NEW f \in Files, Learn(j, f) PROVE Quiet(j)
<1> DEFINE b == [Job("open", "refresh", <<f>>) EXCEPT !.want = directive']
<1>1. b.view = index /\ b.pc = "open"
  BY DEF Job
<1>2. job' = job \/ job' = [job EXCEPT ![j] = b]
  BY DEF Learn
<1>3. CASE job' = job
  BY <1>3 DEF Quiet, Promised
<1>4. CASE job' = [job EXCEPT ![j] = b]
  <2> HIDE DEF b
  <2> QED BY <1>1, <1>4, QuietSet DEF Vouches, Promised, Makes
<1> QED BY <1>2, <1>3, <1>4

LEMMA OpenQuiet == ASSUME Typed, NEW j \in Jobs, Open(j) PROVE Quiet(j)
<1>1. job'[j].pc = "open" /\ job'[j].view = index /\ \A i \in Jobs \ {j} : job'[i] = job[i]
  BY DEF Typed, TypeOK, Open, JobStates
<1> QED BY <1>1 DEF Quiet, Vouches, Promised, Makes

LEMMA DroppedQuiet ==
  ASSUME Typed, NEW j \in Jobs, NEW f \in Files, job[j] # None, Dropped(j, f)
  PROVE  Quiet(j) /\ \A g \in Files : entry'[g] \in {None, entry[g]}
<1>1. /\ job'[j].pc = "open" /\ \A i \in Jobs \ {j} : job'[i] = job[i]
      /\ \A g \in Files : job'[j].view[g] \in {None, job[j].view[g]}
  <2>1. job[j] \in JobStates
    BY DEF Typed, TypeOK
  <2> QED BY <2>1 DEF Typed, TypeOK, Dropped, JobStates, Indexes
<1>2. \A g \in Files, h \in Nat : Vouches(job'[j], g, h) => Vouches(job[j], g, h)
  BY <1>1 DEF Vouches
<1>3. Quiet(j)
  BY <1>1, <1>2 DEF Quiet, Promised, Makes
<1>4. \A g \in Files : entry'[g] \in {None, entry[g]}
  BY DEF Typed, TypeOK, Dropped, Indexes
<1> QED BY <1>3, <1>4

LEMMA LookFreshQuiet ==
  ASSUME Typed, NEW j \in Jobs, NEW f \in Files, LookFresh(j, f) PROVE Quiet(j)
<1>1. /\ job[j] # None /\ job'[j].pc = "open" /\ job'[j].view = job[j].view
      /\ \A i \in Jobs \ {j} : job'[i] = job[i]
  BY DEF Typed, TypeOK, LookFresh, Looking, JobStates
<1>2. \A g \in Files, h \in Nat : Vouches(job'[j], g, h) => Vouches(job[j], g, h)
  BY <1>1 DEF Vouches
<1> QED BY <1>1, <1>2 DEF Quiet, Promised, Makes

LEMMA LookStaleQuiet ==
  ASSUME Typed, Past, NEW j \in Jobs, NEW f \in Files, LookStale(j, f) PROVE Quiet(j)
<1>1. /\ job[j] # None /\ job'[j].pc = "building" /\ job'[j].view = job[j].view
      /\ job'[j].file = f /\ job'[j].hash = source[f]
      /\ \A i \in Jobs \ {j} : job'[i] = job[i]
  BY DEF Typed, TypeOK, LookStale, Looking, JobStates
<1>2. \A g \in Files, h \in Nat : Vouches(job'[j], g, h) => Vouches(job[j], g, h)
  BY <1>1 DEF Vouches
<1>3. source[f] = edits[f]
  BY DEF LookStale, Past
<1> QED BY <1>1, <1>2, <1>3 DEF Quiet, Promised, Makes

LEMMA HookPreparesQuiet ==
  ASSUME Typed, Past, NEW j \in Jobs, NEW f \in Files, HookPrepares(j, f) PROVE Quiet(j)
<1> DEFINE b == [Job("building", "prepare", <<>>) EXCEPT
                   !.file = f, !.hash = source[f], !.want = Nothing]
<1>1. b.view = index /\ b.pc = "building" /\ b.file = f /\ b.hash = source[f]
  BY DEF Job
<1>2. source[f] = edits[f] /\ job' = [job EXCEPT ![j] = b]
  BY DEF HookPrepares, Past
<1> HIDE DEF b
<1> QED BY <1>1, <1>2, QuietSet DEF Vouches, Promised, Makes

LEMMA BuiltKeeps ==
  ASSUME Typed, Typed', PromisesKept, Past, BuildsAlone, NEW j \in Jobs, Built(j)
  PROVE  PromisesKept' /\ Past'
<1> DEFINE f == job[j].file
           build == [hash |-> job[j].hash, kept |-> job[j].want[f]]
<1>1. job[j] \in JobStates /\ f \in Files /\ job[j] # None /\ Makes(job[j], f)
  BY BuildType DEF Built, Building, Makes
<1>2. build.hash = job[j].hash
  OBVIOUS
<1>3. /\ job'[j].pc = "open" /\ \A i \in Jobs \ {j} : job'[i] = job[i]
      /\ job'[j].view[f] = build
      /\ \A g \in Files \ {f} : job'[j].view[g] = job[j].view[g]
  BY <1>1, ZenonT(60) DEF Typed, TypeOK, Built, JobStates, Indexes
<1>4. entry'[f] = build /\ \A g \in Files \ {f} : entry'[g] = entry[g]
  BY <1>1 DEF Typed, TypeOK, Built, Indexes
<1> HIDE DEF build, f
<1>5. \A g \in Files, h \in Nat : Vouches(job'[j], g, h) =>
        Promised(g, h) \/ (g = f /\ h = job[j].hash)
  BY <1>1, <1>2, <1>3 DEF Vouches, Promised
<1>6. \A g \in Files : ~Makes(job'[j], g)
  BY <1>3 DEF Makes
<1> QED BY <1>1, <1>2, <1>3, <1>4, <1>5, <1>6, Written, ZenonT(60) DEF Built

LEMMA PreparedKeeps ==
  ASSUME Typed, Typed', PromisesKept, Past, BuildsAlone, NEW j \in Jobs, Prepared(j)
  PROVE  PromisesKept' /\ Past'
<1> DEFINE f == job[j].file
           build == [hash |-> job[j].hash, kept |-> None]
<1>1. job[j] \in JobStates /\ f \in Files /\ job[j] # None /\ Makes(job[j], f)
  BY BuildType DEF Prepared, Building, Makes
<1>2. build.hash = job[j].hash
  OBVIOUS
<1>3. /\ job'[j].pc = "entered" /\ \A i \in Jobs \ {j} : job'[i] = job[i]
      /\ job'[j].view = job[j].view /\ job'[j].file = f /\ job'[j].hash = job[j].hash
  BY <1>1 DEF Typed, TypeOK, Prepared, JobStates
<1>4. entry'[f] = build /\ \A g \in Files \ {f} : entry'[g] = entry[g]
  BY <1>1 DEF Typed, TypeOK, Prepared, Indexes
<1> HIDE DEF build, f
<1>5. \A g \in Files, h \in Nat : Vouches(job'[j], g, h) =>
        Promised(g, h) \/ (g = f /\ h = job[j].hash)
  BY <1>1, <1>3 DEF Vouches, Promised
<1>6. \A g \in Files : ~Makes(job'[j], g)
  BY <1>3 DEF Makes
<1> QED BY <1>1, <1>2, <1>3, <1>4, <1>5, <1>6, Written DEF Prepared

LEMMA FinishKeeps ==
  ASSUME Typed, Typed', PromisesKept, Past, NEW j \in Jobs, Finish(j)
  PROVE  PromisesKept' /\ Past'
<1>1. Quiet(j)
  BY EndQuiet DEF Finish
<1>2. \A f \in Files, h \in Nat : index'[f] # None /\ index'[f].hash = h => Promised(f, h)
  BY DEF Finish, Promised, Vouches
<1>3. \A f \in Files, h \in Nat : Waiting' /\ serve'.file = f /\ serve'.hash = h => Promised(f, h)
  BY DEF Finish, Promised, Waiting
<1> QED BY <1>1, <1>2, <1>3, Steady DEF Finish, code

LEMMA PrepareEndsKeeps ==
  ASSUME Typed, Typed', PromisesKept, Past, NEW j \in Jobs, PrepareEnds(j)
  PROVE  PromisesKept' /\ Past'
<1> DEFINE f == job[j].file
<1>1. f \in Files /\ job[j].hash \in Nat
  BY DEF PrepareEnds, Typed, Aimed, Aiming
<1>2. Promised(f, job[j].hash)
  BY DEF PrepareEnds, Promised, Vouches
<1>3. Quiet(j)
  BY EndQuiet DEF PrepareEnds
<1>4. \A g \in Files, h \in Nat : index'[g] # None /\ index'[g].hash = h => Promised(g, h)
  BY <1>1, <1>2 DEF PrepareEnds, Promised, Typed, TypeOK, Indexes
<1>5. \A g \in Files, h \in Nat : Waiting' /\ serve'.file = g /\ serve'.hash = h => Promised(g, h)
  BY <1>2 DEF PrepareEnds, Promised, Waiting, Rewrite
<1> QED BY <1>3, <1>4, <1>5, Steady DEF PrepareEnds, code

(* Steps that leave the index, the entries and the serve alone.            *)
LEMMA AsideKeeps ==
  ASSUME Typed, Typed', PromisesKept, Past, NEW j \in Jobs, Quiet(j),
         UNCHANGED <<edits, source, index, serve>>,
         \A f \in Files : entry'[f] \in {None, entry[f]}
  PROVE  PromisesKept' /\ Past'
<1>1. \A f \in Files, h \in Nat :
        \/ index'[f] # None /\ index'[f].hash = h
        \/ Waiting' /\ serve'.file = f /\ serve'.hash = h
        => Promised(f, h)
  BY DEF Promised, Waiting
<1> QED BY <1>1, Steady

LEMMA JobKeeps ==
  ASSUME Typed, Typed', PromisesKept, Past, BuildsAlone, NEW j \in Jobs,
         Refresh(j) \/ Preparation(j)
  PROVE  PromisesKept' /\ Past'
<1>1. CASE Begin(j)
  BY <1>1, BeginQuiet, AsideKeeps DEF Begin, code, mirror
<1>2. CASE Open(j)
  BY <1>2, OpenQuiet, AsideKeeps DEF Open, code, mirror
<1>3. ASSUME NEW f \in Files, Learn(j, f) PROVE PromisesKept' /\ Past'
  BY <1>3, LearnQuiet, AsideKeeps DEF Learn, mirror
<1>4. ASSUME NEW f \in Files, LookGone(j, f) PROVE PromisesKept' /\ Past'
  BY <1>4, DroppedQuiet, AsideKeeps DEF LookGone, Looking, code
<1>5. ASSUME NEW f \in Files, LookFresh(j, f) PROVE PromisesKept' /\ Past'
  BY <1>5, LookFreshQuiet, AsideKeeps DEF LookFresh, code, mirror
<1>6. ASSUME NEW f \in Files, LookStale(j, f) PROVE PromisesKept' /\ Past'
  BY <1>6, LookStaleQuiet, AsideKeeps DEF LookStale, code, mirror
<1>7. CASE BuildFails(j)
  <2>1. job[j] # None /\ job[j].file \in Files
    BY <1>7, BuildType DEF BuildFails, Building
  <2> QED BY <1>7, <2>1, DroppedQuiet, AsideKeeps DEF BuildFails, code
<1>8. CASE Crash(j)
  BY <1>8, EndQuiet, AsideKeeps DEF Crash, code, mirror
<1>9. ASSUME NEW f \in Files, HookPrepares(j, f) PROVE PromisesKept' /\ Past'
  BY <1>9, HookPreparesQuiet, AsideKeeps DEF HookPrepares, code, mirror
<1>10. CASE PrepareFails(j)
  BY <1>10, EndQuiet, AsideKeeps DEF PrepareFails, code, mirror
<1> QED BY <1>1, <1>2, <1>3, <1>4, <1>5, <1>6, <1>7, <1>8, <1>9, <1>10,
           BuiltKeeps, PreparedKeeps, FinishKeeps, PrepareEndsKeeps DEF Refresh, Preparation

(* The repository and the hook.                                            *)
LEMMA EditKeeps ==
  ASSUME Typed, PromisesKept, Past, NEW f \in Files, Edit(f) PROVE PromisesKept' /\ Past'
<1>1. \A g \in Files : /\ edits[g] \in Nat /\ edits'[g] \in Nat /\ edits[g] <= edits'[g]
                       /\ source'[g] \in {None, edits'[g]}
  BY DEF Edit, Typed, TypeOK, Past
<1>2. \A g \in Files, h \in Nat : Promised(g, h)' => Promised(g, h)
  BY DEF Edit, Promised, Vouches, Waiting, mirror
<1>3. ASSUME NEW g \in Files, NEW h \in Nat, Kept(g, h) PROVE Kept(g, h)'
  BY <1>1, <1>3 DEF Kept, Edit, Makes, mirror
<1>4. \A g \in Files, j \in Jobs : Makes(job[j], g) => job[j].hash \in Nat
  BY DEF Makes, Typed, Aimed, Aiming
<1>5. Past'
  BY <1>1, <1>4 DEF Past, Makes, Edit
<1> QED BY <1>2, <1>3, <1>5 DEF PromisesKept

LEMMA DeleteKeeps ==
  ASSUME PromisesKept, Past, Typed, NEW f \in Files, Delete(f) PROVE PromisesKept' /\ Past'
<1>1. PromisesKept'
  BY DEF Delete, PromisesKept, Promised, Kept, Vouches, Makes, Waiting, mirror
<1>2. Past'
  BY DEF Delete, Past, Makes, Typed, TypeOK
<1> QED BY <1>1, <1>2

LEMMA HookServesKeeps ==
  ASSUME PromisesKept, Past, Typed, NEW f \in Files, HookServes(f) PROVE PromisesKept' /\ Past'
<1>1. \A g \in Files, h \in Nat : Promised(g, h)' => Promised(g, h)
  BY DEF HookServes, Promised, Vouches, Waiting, Rewrite, Fresh, mirror
<1>2. \A g \in Files, h \in Nat : Kept(g, h) => Kept(g, h)'
  BY DEF HookServes, Kept, Makes, code, mirror
<1>3. PromisesKept'
  BY <1>1, <1>2 DEF PromisesKept
<1>4. Past'
  BY DEF HookServes, Past, Makes, code
<1> QED BY <1>3, <1>4

LEMMA ReadEntryKeeps ==
  ASSUME PromisesKept, Past, Typed, ReadEntry PROVE PromisesKept' /\ Past'
<1>1. ~Waiting'
  BY DEF ReadEntry, Waiting, Typed, TypeOK, Serves
<1>2. \A g \in Files, h \in Nat : Promised(g, h)' => Promised(g, h)
  BY <1>1 DEF ReadEntry, Promised, Vouches, mirror
<1>3. \A g \in Files, h \in Nat : Kept(g, h) => Kept(g, h)'
  BY DEF ReadEntry, Kept, Makes, code, mirror
<1>4. PromisesKept'
  BY <1>2, <1>3 DEF PromisesKept
<1>5. Past'
  BY DEF ReadEntry, Past, Makes, code
<1> QED BY <1>4, <1>5

(* A Read that ends is shown what was promised of its file.                *)
LEMMA ReadEntryFresh ==
  ASSUME PromisesKept, Typed, ReadEntry PROVE ServedFresh'
<1>1. /\ serve \in Serves /\ serve.file \in Files /\ serve.hash \in Nat
  BY DEF ReadEntry, Waiting, Typed, TypeOK, Serves
<1>2. serve' = [serve EXCEPT !.text = entry[serve.file], !.read = TRUE]
  BY DEF ReadEntry
<1>3. serve'.text = entry[serve.file] /\ serve'.hash = serve.hash
  BY <1>1, <1>2 DEF Serves
<1>4. Kept(serve.file, serve.hash)
  BY <1>1 DEF ReadEntry, Promised, PromisesKept
<1>5. entry[serve.file] # None => entry[serve.file].hash >= serve.hash
  BY <1>1, <1>4 DEF Kept, Typed, TypeOK, Indexes, Builds
<1> QED BY <1>3, <1>5 DEF ServedFresh

LEMMA NextKeeps ==
  ASSUME Typed, Typed', Inv, BuildsAlone, [Next]_vars PROVE Inv'
<1>1. PromisesKept' /\ Past'
  <2>1. CASE UNCHANGED vars
    BY <2>1 DEF Inv, PromisesKept, Past, Promised, Kept, Vouches, Makes, Waiting, vars, code, mirror
  <2> QED BY <2>1, JobKeeps, EditKeeps, DeleteKeeps, HookServesKeeps, ReadEntryKeeps DEF Inv, Next
<1>2. ServedFresh'
  <2>1. CASE serve' = serve
    BY <2>1 DEF Inv, ServedFresh
  <2>2. CASE serve'.read = FALSE
    BY <2>2 DEF ServedFresh
  <2>3. CASE ReadEntry
    BY <2>3, ReadEntryFresh DEF Inv
  <2>4. ASSUME NEW f \in Files, HookServes(f) PROVE serve'.read = FALSE
    BY <2>4 DEF HookServes, Rewrite
  <2>5. ASSUME NEW j \in Jobs, PrepareEnds(j) PROVE serve' = serve \/ serve'.read = FALSE
    BY <2>5 DEF PrepareEnds, Rewrite
  <2>6. ASSUME NEW j \in Jobs, Refresh(j) PROVE serve' = serve
    BY <2>6 DEF Refresh, Begin, Open, Built, BuildFails, Finish, Crash, Learn, LookGone, LookFresh,
                LookStale
  <2>7. ASSUME NEW j \in Jobs, Preparation(j), ~PrepareEnds(j) PROVE serve' = serve
    BY <2>7 DEF Preparation, Prepared, PrepareFails, HookPrepares
  <2>8. ASSUME NEW f \in Files, Edit(f) \/ Delete(f) PROVE serve' = serve
    BY <2>8 DEF Edit, Delete
  <2>9. CASE UNCHANGED vars
    BY <2>1, <2>9 DEF vars
  <2> QED BY <2>1, <2>2, <2>3, <2>4, <2>5, <2>6, <2>7, <2>8, <2>9 DEF Next
<1> QED BY <1>1, <1>2 DEF Inv

LEMMA InitKept == Init => Inv
<1> SUFFICES ASSUME Init PROVE Inv
  OBVIOUS
<1>1. \A f \in Files, h \in Nat : ~Promised(f, h)
  BY DEF Init, Promised, Vouches, Waiting, Nothing
<1>2. Past
  BY DEF Init, Past, Makes
<1>3. ServedFresh
  BY DEF Init, ServedFresh
<1> QED BY <1>1, <1>2, <1>3 DEF Inv, PromisesKept

LEMMA Invariance == Spec /\ []BuildsAlone => []Inv
<1>1. Typed /\ Typed' /\ Inv /\ BuildsAlone /\ [Next]_vars => Inv'
  BY NextKeeps
<1> QED BY <1>1, InitKept, MirrorTyped, PTL DEF Spec

(* The staleness rule: as long as no two builds of one file overlap, a     *)
(* Read is never shown the skeleton of a content older than the one it was *)
(* decided on (mirror.ts, with the hook's rewrite and prepare.ts).         *)
THEOREM StalenessRule == Spec /\ []BuildsAlone => []ServedFresh
BY Invariance, PTL DEF Inv

(* And a row of the index is at most as recent as the entry it vouches     *)
(* for, although index.json is written whole by every refresh and a        *)
(* process may die between the entry and the index.                        *)
THEOREM RowsFollow == Spec /\ []BuildsAlone => []EntriesLead
<1>1. Typed /\ Inv => EntriesLead
  BY KeptLeads DEF Inv
<1> QED BY <1>1, MirrorTyped, Invariance, PTL
=============================================================================
