------------------------------- MODULE Mirror -------------------------------
(***************************************************************************)
(* The skeleton mirror: .dcp/mirror, its index.json, the refreshes that    *)
(* maintain them (codex refresh, the daemon's file-change path, the        *)
(* graduation pass), the on-demand preparation, and the PreToolUse hook    *)
(* that rewrites a large Read to a mirror entry.                           *)
(*                                                                         *)
(* A job is one refresh or preparation in the daemon or in a process of    *)
(* its own (redutok codex refresh).  Entry files, index.json and sources   *)
(* are read and written one at a time, so the steps of two jobs and of a   *)
(* hook interleave; with a single job refreshes never overlap.  A skeleton *)
(* is known by the content and the directive it was built from.  A source  *)
(* never returns to an older content.                                      *)
(***************************************************************************)
EXTENDS Naturals, Sequences

CONSTANTS
  Files,       \* mirrorable files, over the size the hook rewrites
  Directives,  \* skeleton-enrichment directives (sets of symbols to keep)
  Jobs,        \* refreshes and preparations that may run at the same time
  Batches,     \* sequences of files a refresh is asked for
  None

ASSUME BatchesAssumption == Batches \subseteq Seq(Files)
ASSUME NoneAssumption ==
  /\ None \notin Files \cup Directives \cup Jobs \cup Nat
  /\ None \notin [hash : Nat, kept : Directives \cup {None}]

VARIABLES
  edits,      \* file -> number of contents it has had
  source,     \* file -> its content (the edit that made it), or None
  directive,  \* codex.learned: file -> directive, or None
  index,      \* index.json: file -> what its entry was built from, or None
  entry,      \* entry files: file -> what the skeleton was built from, or None
  job,        \* the jobs
  serve       \* the last Read the hook rewrote, or None

code == <<edits, source, directive>>
mirror == <<index, entry>>
vars == <<code, mirror, job, serve>>

(* hash: of the content; kept: the directive (its fingerprint).            *)
Builds == [hash : Nat, kept : Directives \cup {None}]

Indexes == [Files -> Builds \cup {None}]

(* A job.  pc: "begun" once the codex is read, "open" between files,       *)
(* "building" across the await of a build, "entered" once a preparation    *)
(* has written its entry.  view: the index as the job read it, with its    *)
(* own changes; want: the directives; file, hash: what is being built.     *)
JobStates ==
  [pc : {"begun", "open", "building", "entered"}, kind : {"refresh", "prepare"},
   todo : Seq(Files), view : Indexes, dirty : BOOLEAN,
   want : [Files -> Directives \cup {None}], file : Files \cup {None},
   hash : Nat \cup {None}]

(* A rewritten Read: the content the decision was taken on, and what the   *)
(* Read of the entry file then showed.                                     *)
Serves == [file : Files, hash : Nat, text : Builds \cup {None}, read : BOOLEAN]

TypeOK ==
  /\ edits \in [Files -> Nat]
  /\ source \in [Files -> Nat \cup {None}]
  /\ directive \in [Files -> Directives \cup {None}]
  /\ index \in Indexes
  /\ entry \in Indexes
  /\ job \in [Jobs -> JobStates \cup {None}]
  /\ serve \in Serves \cup {None}

Nothing == [f \in Files |-> None]

Init ==
  /\ edits = [f \in Files |-> 1]
  /\ source = [f \in Files |-> 1]
  /\ directive = Nothing
  /\ index = Nothing
  /\ entry = Nothing
  /\ job = [j \in Jobs |-> None]
  /\ serve = None

(***************************************************************************)
(* The repository.                                                         *)
(***************************************************************************)
Edit(f) ==
  /\ edits' = [edits EXCEPT ![f] = @ + 1]
  /\ source' = [source EXCEPT ![f] = edits[f] + 1]
  /\ UNCHANGED <<directive, mirror, job, serve>>

Delete(f) ==
  /\ source[f] # None
  /\ source' = [source EXCEPT ![f] = None]
  /\ UNCHANGED <<edits, directive, mirror, job, serve>>

(***************************************************************************)
(* refreshMirror.                                                          *)
(***************************************************************************)
Job(pc, kind, todo) ==
  [pc |-> pc, kind |-> kind, todo |-> todo, view |-> index, dirty |-> FALSE,
   want |-> directive, file |-> None, hash |-> None]

(* refreshFiles, writeCodex: the codex is read, then source files are      *)
(* indexed, which takes its time.                                          *)
Begin(j) == \E files \in Batches :
  /\ job[j] = None
  /\ job' = [job EXCEPT ![j] = Job("begun", "refresh", files)]
  /\ UNCHANGED <<code, mirror, serve>>

(* refreshMirror reads the index once, at its start.                       *)
Open(j) ==
  /\ job[j] # None /\ job[j].pc = "begun"
  /\ job' = [job EXCEPT ![j].pc = "open", ![j].view = index]
  /\ UNCHANGED <<code, mirror, serve>>

(* runGraduationPass: a directive is added to or withdrawn from the codex, *)
(* and the entries it matches are refreshed.                               *)
Learn(j, f) == \E d \in Directives \cup {None} :
  /\ job[j] = None
  /\ directive[f] # d
  /\ directive' = [directive EXCEPT ![f] = d]
  /\ job' = IF index[f] = None THEN job
            ELSE [job EXCEPT ![j] =
                    [Job("open", "refresh", <<f>>) EXCEPT !.want = directive']]
  /\ UNCHANGED <<edits, source, mirror, serve>>

(* drop: the row and the entry file go, if the index as read has the row.  *)
Dropped(j, f) ==
  LET known == job[j].view[f] # None
  IN  /\ job' = [job EXCEPT ![j].pc = "open", ![j].todo = Tail(@),
                            ![j].view[f] = None, ![j].dirty = @ \/ known]
      /\ entry' = IF known THEN [entry EXCEPT ![f] = None] ELSE entry

Looking(j, f) ==
  /\ job[j] # None /\ job[j].pc = "open" /\ job[j].todo # <<>>
  /\ f = Head(job[j].todo)

LookGone(j, f) ==
  /\ Looking(j, f)
  /\ source[f] = None
  /\ Dropped(j, f)
  /\ UNCHANGED <<code, index, serve>>

UpToDate(j, f) ==
  /\ job[j].view[f] = [hash |-> source[f], kept |-> job[j].want[f]]
  /\ entry[f] # None

LookFresh(j, f) ==
  /\ Looking(j, f)
  /\ source[f] # None /\ UpToDate(j, f)
  /\ job' = [job EXCEPT ![j].todo = Tail(@)]
  /\ UNCHANGED <<code, mirror, serve>>

(* The source is read and hashed, and the build awaited.                   *)
LookStale(j, f) ==
  /\ Looking(j, f)
  /\ source[f] # None /\ ~UpToDate(j, f)
  /\ job' = [job EXCEPT ![j].pc = "building", ![j].file = f, ![j].hash = source[f]]
  /\ UNCHANGED <<code, mirror, serve>>

Building(j, kind) ==
  job[j] # None /\ job[j].pc = "building" /\ job[j].kind = kind

(* Mutant of Built: hashed once more when the skeleton is ready.           *)
BuiltRehashed(j) ==
  LET f == job[j].file
      build == [hash |-> job[j].hash, kept |-> job[j].want[f]]
  IN  /\ Building(j, "refresh")
      /\ entry' = [entry EXCEPT ![f] = build]
      /\ job' = [job EXCEPT ![j].pc = "open", ![j].todo = Tail(@), ![j].dirty = TRUE,
                            ![j].view[f] = [build EXCEPT !.hash = edits[f]]]
      /\ UNCHANGED <<code, index, serve>>

(* The entry file is written; its row waits for the end of the batch.      *)
Built(j) ==
  LET f == job[j].file
      build == [hash |-> job[j].hash, kept |-> job[j].want[f]]
  IN  /\ Building(j, "refresh")
      /\ entry' = [entry EXCEPT ![f] = build]
      /\ job' = [job EXCEPT ![j].pc = "open", ![j].todo = Tail(@), ![j].dirty = TRUE,
                            ![j].view[f] = build]
      /\ UNCHANGED <<code, index, serve>>

(* The builder throws, or there is nothing structural to show.             *)
BuildFails(j) ==
  /\ Building(j, "refresh")
  /\ Dropped(j, job[j].file)
  /\ UNCHANGED <<code, index, serve>>

(* The index is written at the end, as this job sees it.                   *)
Finish(j) ==
  /\ job[j] # None /\ job[j].pc = "open" /\ job[j].todo = <<>>
  /\ index' = IF job[j].dirty THEN job[j].view ELSE index
  /\ job' = [job EXCEPT ![j] = None]
  /\ UNCHANGED <<code, entry, serve>>

(* The process dies.                                                       *)
Crash(j) ==
  /\ job[j] # None
  /\ job' = [job EXCEPT ![j] = None]
  /\ UNCHANGED <<code, mirror, serve>>

(***************************************************************************)
(* The hook, and prepareSkeletonEntry behind it.                           *)
(***************************************************************************)
Rewrite(f, hash) == [file |-> f, hash |-> hash, text |-> None, read |-> FALSE]

Waiting == serve # None /\ ~serve.read

(* Mutant of Fresh: an entry is there.                                     *)
FreshIfThere(f) == index[f] # None /\ entry[f] # None

(* freshMirrorEntry, and freshEntry of the preparation.                    *)
Fresh(f) == index[f] # None /\ entry[f] # None /\ index[f].hash = source[f]

HookServes(f) ==
  /\ ~Waiting
  /\ source[f] # None /\ Fresh(f)
  /\ serve' = Rewrite(f, source[f])
  /\ UNCHANGED <<code, mirror, job>>

(* No fresh entry: the daemon is asked to build one now.                   *)
HookPrepares(j, f) ==
  /\ ~Waiting /\ job[j] = None
  /\ source[f] # None /\ ~Fresh(f)
  /\ job' = [job EXCEPT ![j] = [Job("building", "prepare", <<>>) EXCEPT
                                  !.file = f, !.hash = source[f], !.want = Nothing]]
  /\ UNCHANGED <<code, mirror, serve>>

(* writeMirrorEntry: the entry, then its row in the index as it is now.    *)
Prepared(j) ==
  /\ Building(j, "prepare")
  /\ entry' = [entry EXCEPT ![job[j].file] = [hash |-> job[j].hash, kept |-> None]]
  /\ job' = [job EXCEPT ![j].pc = "entered"]
  /\ UNCHANGED <<code, index, serve>>

PrepareEnds(j) ==
  LET f == job[j].file
  IN  /\ job[j] # None /\ job[j].pc = "entered"
      /\ index' = [index EXCEPT ![f] = [hash |-> job[j].hash, kept |-> None]]
      /\ job' = [job EXCEPT ![j] = None]
      /\ serve' = IF Waiting THEN serve ELSE Rewrite(f, job[j].hash)
      /\ UNCHANGED <<code, entry>>

(* The gates refuse the skeleton: the Read proceeds untouched.             *)
PrepareFails(j) ==
  /\ Building(j, "prepare")
  /\ job' = [job EXCEPT ![j] = None]
  /\ UNCHANGED <<code, mirror, serve>>

(* The rewritten Read reads the entry file, some time after the decision.  *)
ReadEntry ==
  /\ Waiting
  /\ serve' = [serve EXCEPT !.text = entry[serve.file], !.read = TRUE]
  /\ UNCHANGED <<code, mirror, job>>

Refresh(j) ==
  \/ Begin(j) \/ Open(j) \/ Built(j) \/ BuildFails(j) \/ Finish(j) \/ Crash(j)
  \/ \E f \in Files : Learn(j, f) \/ LookGone(j, f) \/ LookFresh(j, f) \/ LookStale(j, f)

Preparation(j) ==
  \/ Prepared(j) \/ PrepareEnds(j) \/ PrepareFails(j)
  \/ \E f \in Files : HookPrepares(j, f)

Next ==
  \/ \E f \in Files : Edit(f) \/ Delete(f) \/ HookServes(f)
  \/ \E j \in Jobs : Refresh(j) \/ Preparation(j)
  \/ ReadEntry

Spec == Init /\ [][Next]_vars

(***************************************************************************)
(* Properties.                                                             *)
(***************************************************************************)
(* No two builds of one file overlap.                                      *)
Underway(j, f) == job[j] # None /\ job[j].pc = "building" /\ job[j].file = f
BuildsAlone == \A f \in Files : \A i, j \in Jobs : Underway(i, f) /\ Underway(j, f) => i = j

(* The staleness rule of mirror.ts: a Read is never shown the skeleton of  *)
(* a content older than the one it was decided on.  Holds as long as       *)
(* BuildsAlone does, however refreshes overlap and whatever process dies   *)
(* half-way.                                                               *)
ServedFresh ==
  serve # None /\ serve.read /\ serve.text # None => serve.text.hash >= serve.hash

(* The index never runs ahead of the entry files: a row is only ever as    *)
(* recent as the skeleton it vouches for.                                  *)
EntriesLead == \A f \in Files :
  index[f] # None /\ entry[f] # None => index[f].hash <= entry[f].hash

=============================================================================
