------------------------------- MODULE Serve -------------------------------
(***************************************************************************)
(* The content path of the sidecar daemon and of the MCP tools in front of *)
(* it: dcp__read (POST /serve-file), dcp__run (POST /distill), dcp__zoom   *)
(* (POST /zoom), the session registration hooks send (POST /notify), the   *)
(* tables of the sqlite store, the audit trail, the client's time limit    *)
(* and the stop and restart of the daemon.                                 *)
(*                                                                         *)
(* A content (what a file held when it was read, what a command printed)   *)
(* is a member of Versions: two contents are told apart exactly as their   *)
(* hashes are.  A distillate, a diff and a raw text differ in the "form"   *)
(* of an answer.  All profiles are installed, and redaction leaves the     *)
(* content as it is.                                                       *)
(***************************************************************************)
EXTENDS Naturals, FiniteSets

CONSTANTS
  Sessions,     \* Claude Code transcript sessions, one MCP server each
  Files,        \* paths dcp__read is asked for
  Documents,    \* the Files the daemon extracts itself (PDF, Markdown, text)
  Versions,     \* contents
  ArtifactIds,  \* values of 'a' + randomBytes(3)
  Requests,     \* tool calls, each made at most once
  RefLimit,     \* rows findArtifactIdByFile looks at (LIMIT 8)
  None

ASSUME DocumentsAssumption == Documents \subseteq Files
ASSUME ArtifactIdsAssumption == IsFiniteSet(ArtifactIds)
ASSUME RefLimitAssumption == RefLimit \in Nat \ {0}

VARIABLES
  up,         \* a daemon process is listening
  activeId,   \* session.activeId, in the memory of that process
  served,     \* table served_files: <<key, file>> -> content, or None
  artifacts,  \* table artifacts: id -> row, or None
  auditFile,  \* the events of audit.jsonl
  auditDb,    \* the events of table audit
  req         \* the tool calls: the handler's side and the client's side

store == <<served, artifacts>>
trail == <<auditFile, auditDb>>
vars == <<up, activeId, store, trail, req>>

(***************************************************************************)
(* Data.                                                                   *)
(***************************************************************************)
(* The session id rows and events are filed under: a registered transcript *)
(* session, or the placeholder of the calling MCP server.                  *)
Keys == {"transcript", "mcp"} \X Sessions

Contents == [path : Files \cup {None}, version : Versions]

Rows == [key : Keys, path : Files \cup {None}, version : Versions, nth : Nat]

(* What a call answers its caller with.  base: the content a diff or an    *)
(* "unchanged" reference leans on.  id: the artifact handle that comes     *)
(* with the text.                                                          *)
Full == {"skeleton", "gateRaw"}    \* distilled, or raw after a gate failure
Delta == {"diff", "unchanged"}
Forms == Full \cup Delta \cup {"raw", "recovered", "missing", "unavailable", "error"}

Answers == [form : Forms, version : Versions \cup {None},
            base : Versions \cup {None}, id : ArtifactIds \cup {None}]

(* None stands for nothing else.                                           *)
ASSUME NoneAssumption ==
  /\ None \notin Sessions \cup Files \cup Versions \cup ArtifactIds \cup Requests
  /\ None \notin Keys \cup Contents \cup Rows \cup Answers
  /\ None \notin {"read", "run", "zoom"}

Answer(form, version, base, id) ==
  [form |-> form, version |-> version, base |-> base, id |-> id]

(* The subject is what the id of an event is derived from, the request     *)
(* what it is about.                                                       *)
Kinds == {"distill", "serve-raw", "zoom"} \cup Delta

Event(r, kind, subject) == [req |-> r, kind |-> kind, subject |-> subject]

(* A call.  pc: "queued" until a handler takes it, "distilling" across the *)
(* await of distillArtifact, "replied" once the response is written,       *)
(* "closed" when no response will come.  sent: the content the caller      *)
(* read.  content: the content the handler works on.  target, by: the      *)
(* answer a zoom refers to, and the kind of reference it uses.             *)
Blank == [pc |-> "unused", session |-> None, op |-> None, file |-> None,
          sent |-> None, target |-> None, by |-> None, key |-> None,
          content |-> None, reply |-> None, answer |-> None]

Calls ==
  [pc : {"unused", "queued", "distilling", "replied", "closed"},
   session : Sessions \cup {None}, op : {"read", "run", "zoom"} \cup {None},
   file : Files \cup {None}, sent : Versions \cup {None},
   target : Requests \cup {None}, by : {"id", "ref"} \cup {None},
   key : Keys \cup {None}, content : Versions \cup {None},
   reply : Answers \cup {None}, answer : Answers \cup {None}]

TypeOK ==
  /\ up \in BOOLEAN
  /\ activeId \in Sessions \cup {None}
  /\ served \in [Keys \X Files -> Versions \cup {None}]
  /\ artifacts \in [ArtifactIds -> Rows \cup {None}]
  /\ \A e \in auditFile \cup auditDb : e.req \in Requests /\ e.kind \in Kinds
  /\ req \in [Requests -> Calls]

Init ==
  /\ up = TRUE
  /\ activeId = None
  /\ served = [row \in Keys \X Files |-> None]
  /\ artifacts = [i \in ArtifactIds |-> None]
  /\ auditFile = {}
  /\ auditDb = {}
  /\ req = [r \in Requests |-> Blank]

(***************************************************************************)
(* The client: src/packages/mcp.  A call is made on a running or a stopped *)
(* daemon; in the second case the connection is refused.                   *)
(***************************************************************************)
Made(r) == req[r].pc # "unused"
Answered(r) == req[r].answer # None

Call(r, call) ==
  /\ ~Made(r)
  /\ req' = [req EXCEPT ![r] = [call EXCEPT !.pc = IF up THEN "queued" ELSE "closed"]]
  /\ UNCHANGED <<up, activeId, store, trail>>

CallRead(r) == \E s \in Sessions, f \in Files, v \in Versions :
  Call(r, [Blank EXCEPT !.op = "read", !.session = s, !.file = f, !.sent = v])

\* dcp__run, and dcp__search, whose hits are distilled the same way.
CallRun(r) == \E s \in Sessions, v \in Versions :
  Call(r, [Blank EXCEPT !.op = "run", !.session = s, !.sent = v])

(* References a context can zoom: an artifact handle, or F-id@hash, which  *)
(* comes with every answer of /serve-file.                                 *)
Holds(q, by) ==
  /\ Answered(q)
  /\ \/ by = "id" /\ req[q].answer.id # None
     \/ by = "ref" /\ req[q].op = "read" /\ req[q].answer.form \in Full \cup Delta

CallZoom(r) == \E q \in Requests, by \in {"id", "ref"} :
  /\ Holds(q, by)
  /\ Call(r, [Blank EXCEPT !.op = "zoom", !.session = req[q].session,
                           !.target = q, !.by = by])

(* Mutant of Fallback: a failed read is reported, not replaced by the raw.  *)
FallbackWithoutRaw(r) == Answer("unavailable", None, None, None)

(* Not ok, or not 200: the text the caller read itself, with a notice.     *)
Fallback(r) ==
  IF req[r].op = "zoom" THEN Answer("unavailable", None, None, None)
                        ELSE Answer("raw", req[r].sent, None, None)

Receive(r) ==
  /\ req[r].pc = "replied"
  /\ ~Answered(r)
  /\ req' = [req EXCEPT
       ![r].pc = "closed", ![r].reply = None,
       ![r].answer = IF req[r].reply.form = "error" THEN Fallback(r) ELSE req[r].reply]
  /\ UNCHANGED <<up, activeId, store, trail>>

(* Connection refused or reset, or 2500 ms passed: the handler, if one is  *)
(* at work, goes on without a listener.                                    *)
GiveUp(r) ==
  /\ Made(r)
  /\ ~Answered(r)
  /\ req' = [req EXCEPT ![r].answer = Fallback(r), ![r].reply = None,
                        ![r].pc = IF @ = "replied" THEN "closed" ELSE @]
  /\ UNCHANGED <<up, activeId, store, trail>>

(***************************************************************************)
(* The daemon.  One event loop: a handler runs alone from one await to the *)
(* next, and the process can die between any two of its writes.            *)
(***************************************************************************)
AttributedSessionId(s) ==
  IF activeId # None THEN <<"transcript", activeId>> ELSE <<"mcp", s>>

(* The process is gone: no response of it will be read any more.           *)
Closed(reqs) == [r \in Requests |->
  IF Made(r) THEN [reqs[r] EXCEPT !.pc = "closed", !.reply = None] ELSE reqs[r]]

(* A 400.                                                                  *)
Failed == Answer("error", None, None, None)

(* respond: into the void when the caller has given up.                    *)
Replied(reqs, r, reply) ==
  IF Answered(r) THEN [reqs EXCEPT ![r].pc = "closed"]
                 ELSE [reqs EXCEPT ![r].pc = "replied", ![r].reply = reply]

(* The id of a serve event hashes session, path, mode and the millisecond; *)
(* that of a zoom event ends in two random bytes: both can meet an id      *)
(* already in table audit, whose ids are UNIQUE.                           *)
IdTaken(e) ==
  /\ e.kind \in Delta \cup {"zoom"}
  /\ \E d \in auditDb : d.kind = e.kind /\ d.subject = e.subject

(* Mutant of Written: the table first.                                     *)
WrittenTableFirst(e, n) ==
  /\ auditDb' = IF n >= 1 THEN auditDb \cup {e} ELSE auditDb
  /\ auditFile' = IF n >= 2 THEN auditFile \cup {e} ELSE auditFile

(* The first n of the two writes every event gets.                         *)
Written(e, n) ==
  /\ auditFile' = IF n >= 1 THEN auditFile \cup {e} ELSE auditFile
  /\ auditDb' = IF n >= 2 THEN auditDb \cup {e} ELSE auditDb

(* Mutant of AuditAndRespond: a failed write is logged and the answer sent. *)
AuditBestEffort(reqs, r, e, reply) ==
  /\ \/ Written(e, 2)
     \/ IdTaken(e) /\ Written(e, 1)
  /\ req' = Replied(reqs, r, reply)
  /\ UNCHANGED <<up, activeId>>

(* How every handler ends: audit.write, store.insertAuditEvent, respond;   *)
(* one of the writes throws and the answer is a 400; or the process dies.  *)
AuditAndRespond(reqs, r, e, reply) ==
  \/ /\ Written(e, 2)
     /\ req' = Replied(reqs, r, reply)
     /\ UNCHANGED <<up, activeId>>
  \/ /\ Written(e, 0) \/ (IdTaken(e) /\ Written(e, 1))
     /\ req' = Replied(reqs, r, Failed)
     /\ UNCHANGED <<up, activeId>>
  \/ /\ \E n \in 0..2 : Written(e, n)
     /\ req' = Closed(reqs)
     /\ up' = FALSE
     /\ activeId' = None

(* Takes the call in hand: under which key, with which content.            *)
Taken(r, key, v) == [req EXCEPT ![r].key = key, ![r].content = v]

(* What the handler works on: the caller's text, or the daemon's own       *)
(* extraction of the document as it is on disk by now.                     *)
ContentFor(r) ==
  IF req[r].file \in Documents THEN Versions ELSE {req[r].sent}

(* Mutant of ServeFirst: the full serve is recorded, and distilled too.    *)
ServeFirstAudited(r) == \E v \in ContentFor(r) :
  LET key == AttributedSessionId(req[r].session)
  IN  /\ up /\ req[r].pc = "queued" /\ req[r].op = "read"
      /\ served[<<key, req[r].file>>] = None
      /\ served' = [served EXCEPT ![<<key, req[r].file>>] = v]
      /\ Written(Event(r, "serve-raw", <<key, req[r].file>>), 2)
      /\ req' = [Taken(r, key, v) EXCEPT ![r].pc = "distilling"]
      /\ UNCHANGED <<up, activeId, artifacts>>

(* serveFile: nothing served under this key yet.  The row is recorded, the *)
(* audit event is left to distillArtifact, which is awaited.               *)
ServeFirst(r) == \E v \in ContentFor(r) :
  LET key == AttributedSessionId(req[r].session)
  IN  /\ up /\ req[r].pc = "queued" /\ req[r].op = "read"
      /\ served[<<key, req[r].file>>] = None
      /\ served' = [served EXCEPT ![<<key, req[r].file>>] = v]
      /\ req' = [Taken(r, key, v) EXCEPT ![r].pc = "distilling"]
      /\ UNCHANGED <<up, activeId, artifacts, trail>>

(* serveFile: a diff against the recorded content, which is replaced, or a *)
(* reference when the content is the recorded one.                         *)
ServeAgain(r) == \E v \in ContentFor(r) :
  LET key == AttributedSessionId(req[r].session)
      prior == served[<<key, req[r].file>>]
      mode == IF prior = v THEN "unchanged" ELSE "diff"
  IN  /\ up /\ req[r].pc = "queued" /\ req[r].op = "read"
      /\ prior # None
      /\ served' = [served EXCEPT ![<<key, req[r].file>>] = v]
      /\ AuditAndRespond(Taken(r, key, v), r, Event(r, mode, <<key, req[r].file>>),
                         Answer(mode, v, prior, None))
      /\ UNCHANGED artifacts

(* POST /distill: straight into distillArtifact.                           *)
StartDistill(r) ==
  /\ up /\ req[r].pc = "queued" /\ req[r].op = "run"
  /\ req' = [Taken(r, AttributedSessionId(req[r].session), req[r].sent)
               EXCEPT ![r].pc = "distilling"]
  /\ UNCHANGED <<up, activeId, store, trail>>

RowsOf(path) == {i \in ArtifactIds : artifacts[i] # None /\ artifacts[i].path = path}

(* Mutant of Row: filed under the calling session.                         *)
RowOfCaller(r) == [key |-> req[r].session, path |-> req[r].file,
                   version |-> req[r].content, nth |-> 0]

(* The artifact row; nth orders the rows of a path as created_at does.     *)
Row(r) == [key |-> req[r].key, path |-> req[r].file, version |-> req[r].content,
           nth |-> Cardinality(RowsOf(req[r].file))]

(* Mutants of FinishDistill: INSERT OR REPLACE; only a distillate is kept. *)
FinishDistillReplacing(r) == \E i \in ArtifactIds, passed \in BOOLEAN :
  /\ up /\ req[r].pc = "distilling"
  /\ artifacts' = [artifacts EXCEPT ![i] = Row(r)]
  /\ AuditAndRespond(req, r,
       Event(r, IF passed THEN "distill" ELSE "serve-raw", i),
       Answer(IF passed THEN "skeleton" ELSE "gateRaw", req[r].content, None, i))
  /\ UNCHANGED served

FinishDistillKeepingPassed(r) == \E i \in ArtifactIds, passed \in BOOLEAN :
  /\ up /\ req[r].pc = "distilling"
  /\ artifacts[i] = None
  /\ artifacts' = IF passed THEN [artifacts EXCEPT ![i] = Row(r)] ELSE artifacts
  /\ AuditAndRespond(req, r,
       Event(r, IF passed THEN "distill" ELSE "serve-raw", i),
       Answer(IF passed THEN "skeleton" ELSE "gateRaw", req[r].content, None, i))
  /\ UNCHANGED served

(* distillArtifact after the await: the gates pass or not, the artifact is *)
(* stored either way, then the event is written and the answer sent.       *)
FinishDistill(r) == \E i \in ArtifactIds, passed \in BOOLEAN :
  /\ up /\ req[r].pc = "distilling"
  /\ artifacts[i] = None
  /\ artifacts' = [artifacts EXCEPT ![i] = Row(r)]
  /\ AuditAndRespond(req, r,
       Event(r, IF passed THEN "distill" ELSE "serve-raw", i),
       Answer(IF passed THEN "skeleton" ELSE "gateRaw", req[r].content, None, i))
  /\ UNCHANGED served

(* The profile throws, or the drawn id is the primary key of another row   *)
(* and the insert throws: a 400, and no trace in store or trail.           *)
DistillThrows(r) ==
  /\ up /\ req[r].pc = "distilling"
  /\ req' = Replied(req, r, Failed)
  /\ UNCHANGED <<up, activeId, store, trail>>

(* Mutant of Found: the oldest rows of the path, ORDER BY created_at.      *)
FoundAmongOldest(path, v) == \E i \in RowsOf(path) :
  artifacts[i].version = v /\ artifacts[i].nth < RefLimit

(* findArtifactIdByFile: the newest RefLimit artifacts of the path.        *)
Found(path, v) == \E i \in RowsOf(path) :
  /\ artifacts[i].version = v
  /\ artifacts[i].nth + RefLimit >= Cardinality(RowsOf(path))

(* resolveFileRef: needs a row of served_files for the path; an artifact   *)
(* with that content, else a row that still holds that very content.       *)
ResolveFileRef(path, v) == \E key \in Keys :
  /\ served[<<key, path>>] # None
  /\ Found(path, v) \/ served[<<key, path>>] = v

(* POST /zoom.  A reference that resolves to nothing is answered without   *)
(* an event.                                                               *)
ZoomById(r) ==
  LET i == req[req[r].target].answer.id
  IN  /\ up /\ req[r].pc = "queued" /\ req[r].op = "zoom" /\ req[r].by = "id"
      /\ artifacts[i] # None
      /\ AuditAndRespond(req, r, Event(r, "zoom", i),
                         Answer("recovered", artifacts[i].version, None, None))
      /\ UNCHANGED store

ZoomByRef(r) ==
  LET a == req[req[r].target].answer
      path == req[req[r].target].file
  IN  /\ up /\ req[r].pc = "queued" /\ req[r].op = "zoom" /\ req[r].by = "ref"
      /\ ResolveFileRef(path, a.version)
      /\ AuditAndRespond(req, r, Event(r, "zoom", <<path, a.version>>),
                         Answer("recovered", a.version, None, None))
      /\ UNCHANGED store

ZoomMisses(r) ==
  LET q == req[r].target
  IN  /\ up /\ req[r].pc = "queued" /\ req[r].op = "zoom"
      /\ \/ req[r].by = "id" /\ artifacts[req[q].answer.id] = None
         \/ req[r].by = "ref" /\ ~ResolveFileRef(req[q].file, req[q].answer.version)
      /\ req' = Replied(req, r, Answer("missing", None, None, None))
      /\ UNCHANGED <<up, activeId, store, trail>>

(* POST /notify with a session id: the last registration wins.             *)
Notify(s) ==
  /\ up
  /\ activeId # s
  /\ activeId' = s
  /\ UNCHANGED <<up, store, trail, req>>

(* A crash between two handlers, or close(): connections are dropped.      *)
Stop ==
  /\ up
  /\ up' = FALSE
  /\ activeId' = None
  /\ req' = Closed(req)
  /\ UNCHANGED <<store, trail>>

(* startDaemon on the same .dcp: the store and the trail are as they were. *)
Start ==
  /\ ~up
  /\ up' = TRUE
  /\ UNCHANGED <<activeId, store, trail, req>>

Client(r) == CallRead(r) \/ CallRun(r) \/ CallZoom(r) \/ Receive(r) \/ GiveUp(r)

Handler(r) ==
  \/ ServeFirst(r) \/ ServeAgain(r) \/ StartDistill(r) \/ FinishDistill(r)
  \/ DistillThrows(r) \/ ZoomById(r) \/ ZoomByRef(r) \/ ZoomMisses(r)

Next ==
  \/ \E r \in Requests : Client(r) \/ Handler(r)
  \/ \E s \in Sessions : Notify(s)
  \/ Stop \/ Start

Spec == Init /\ [][Next]_vars

(***************************************************************************)
(* Properties.                                                             *)
(***************************************************************************)
(* Every artifact handle a context holds is backed by a stored artifact    *)
(* with the content and the path the handle was handed out for, whatever   *)
(* crashed, timed out or collided on the way (zoom's promise, distill.ts). *)
HandlesRecoverable == \A r \in Requests :
  LET a == req[r].answer
  IN  a # None /\ a.id # None =>
        /\ artifacts[a.id] # None
        /\ artifacts[a.id].version = a.version
        /\ artifacts[a.id].path = req[r].file

(* A zoom of a handle gives back the content behind the handle, or says    *)
(* the sidecar is unavailable: never another content, never "no artifact". *)
ZoomIsExact == \A r \in Requests :
  LET a == req[r].answer
  IN  a # None /\ req[r].op = "zoom" /\ a.form # "unavailable" =>
        /\ req[r].by = "id" => a.form = "recovered"
        /\ a.form = "recovered" => a.version = req[req[r].target].answer.version

(* Guardrail 3 of audit.ts: what a context was given in place of the raw   *)
(* text is in the file and in the table, filed before it was given.        *)
AuditedBeforeAnswered == \A r \in Requests :
  LET a == req[r].answer
  IN  a # None /\ a.form \in Full \cup Delta \cup {"recovered"} =>
        \E e \in auditFile \cap auditDb : e.req = r

(* No call is booked twice: a first serve that is distilled leaves the     *)
(* distill event alone in the trail (ServeOptions.auditFullServe).         *)
BookedOnce == \A d, e \in auditFile : d.req = e.req => d = e

(* The table never knows an event the file does not.                       *)
FileLeadsTable == auditDb \subseteq auditFile

(* The call put content b of a path in the context of its caller, or will: *)
(* as raw text, as a distillate with its handle, or as a diff.             *)
Brings(a, b) == a.form \in {"raw", "diff"} \cup Full /\ a.version = b

Carries(r, key, path, b) ==
  /\ req[r].op = "read" /\ req[r].key = key /\ req[r].file = path
  /\ req[r].content = b
  /\ Answered(r) => Brings(req[r].answer, b)
  /\ req[r].reply # None => Brings(req[r].reply, b) \/ req[r].reply.form = "error"

(* A diff or an "unchanged" reference leans on a content that an earlier   *)
(* call filed under the same session key has brought to its caller, or is  *)
(* still to bring: no crash, time-out or failed handler in between leaves  *)
(* it without ground.  Documents are excepted: see NeverReServed.          *)
ReferencesGrounded == \A r \in Requests :
  LET a == req[r].answer
  IN  a # None /\ a.form \in Delta /\ req[r].file \notin Documents =>
        \E q \in Requests \ {r} : Carries(q, req[r].key, req[r].file, a.base)

(* A reference that came with a distillate stays recoverable while newer   *)
(* diffs replace the registry's copy, up to RefLimit newer artifacts of    *)
(* the same path.                                                          *)
FullRefsRecoverable == \A r \in Requests :
  LET a == req[r].answer
  IN  a # None /\ req[r].op = "read" /\ a.form \in Full =>
        \/ ResolveFileRef(req[r].file, a.version)
        \/ artifacts[a.id].nth + RefLimit < Cardinality(RowsOf(req[r].file))

(* Artifacts are never replaced and the trail is only ever appended to.    *)
NothingRewritten ==
  [][/\ \A i \in ArtifactIds : artifacts[i] # None => artifacts'[i] = artifacts[i]
     /\ auditFile \subseteq auditFile' /\ auditDb \subseteq auditDb']_vars

(* The store implements the promise of module Recoverable.                 *)
Kept == [i \in ArtifactIds |->
           IF artifacts[i] = None THEN None
           ELSE [path |-> artifacts[i].path, version |-> artifacts[i].version]]

Held == {<<req[r].answer.id, Kept[req[r].answer.id]>> :
           r \in {q \in Requests : Answered(q) /\ req[q].answer.id # None}}

Promise == INSTANCE Recoverable WITH
  Ids <- ArtifactIds, Contents <- Contents, kept <- Kept, held <- Held

HandlesRefine == Promise!Spec

(***************************************************************************)
(* What comments of the source say, and the code does not do.              *)
(***************************************************************************)
(* serve.ts: "A file already served this session is never re-served": the  *)
(* "unchanged" note goes only to a session that was brought the content.   *)
NeverReServed == \A r \in Requests :
  LET a == req[r].answer
  IN  a # None /\ a.form = "unchanged" =>
        \E q \in Requests \ {r} : /\ req[q].session = req[r].session
                                  /\ Carries(q, req[r].key, req[r].file, a.base)

=============================================================================
