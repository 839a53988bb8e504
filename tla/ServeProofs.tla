---------------------------- MODULE ServeProofs ----------------------------
(***************************************************************************)
(* Proofs about module Serve, for any sessions, files, contents, artifact  *)
(* ids and calls.                                                          *)
(***************************************************************************)
EXTENDS Serve, FiniteSetTheorems, TLAPS

(***************************************************************************)
(* The inductive invariant.                                                *)
(***************************************************************************)
(* What the stage a call has reached says about the rest of its record.    *)
Begun(c) ==
  /\ c.pc = "unused" => c.answer = None /\ c.key = None /\ c.op = None
  /\ c.pc # "unused" => c.op \in {"read", "run", "zoom"}
  /\ c.op = "read" => c.session \in Sessions /\ c.file \in Files /\ c.sent \in Versions
  /\ c.op = "run" => c.session \in Sessions /\ c.sent \in Versions
  /\ c.op = "zoom" => c.by \in {"id", "ref"} /\ c.target \in Requests

Staged(c) ==
  /\ c.pc = "distilling" => c.key \in Keys /\ c.content \in Versions
                            /\ c.op \in {"read", "run"}
  /\ c.pc = "replied" <=> c.reply # None
  /\ c.reply # None => c.answer = None
  /\ c.op = "read" /\ c.key # None /\ c.file \notin Documents => c.content = c.sent

WellFormed(c) == Begun(c) /\ Staged(c)

(* A zoom was asked of something its caller held.                          *)
ZoomsHeld == \A r \in Requests : req[r].op = "zoom" => Holds(req[r].target, req[r].by)

(* A call no handler has taken yet is filed nowhere.                       *)
Fresh(c) == c.pc \in {"unused", "queued"} => c.key = None

Typed ==
  /\ TypeOK
  /\ \A r \in Requests : WellFormed(req[r]) /\ Fresh(req[r])
  /\ ZoomsHeld

(* What no step takes back from a call c that has become d.                *)
Follows(c, d) ==
  /\ c.pc # "unused" \/ d.pc = "unused" =>
       /\ d.op = c.op /\ d.session = c.session /\ d.file = c.file
       /\ d.sent = c.sent /\ d.target = c.target /\ d.by = c.by
  /\ c.pc # "unused" => d.pc # "unused"
  /\ c.pc = "unused" /\ d.pc # "unused" /\ d.op = "zoom" => Holds(d.target, d.by)
  /\ d.pc = "queued" => c.pc \in {"unused", "queued"}
  /\ c.pc \in {"replied", "closed"} => d.pc \in {"replied", "closed"}
  /\ c.answer # None => d.answer = c.answer
  /\ c.key # None => d.key = c.key /\ d.content = c.content

(* What every step does to the calls, beside what it does to its own.      *)
Steps == \A q \in Requests :
  WellFormed(req'[q]) /\ Fresh(req'[q]) /\ Follows(req[q], req'[q])

(***************************************************************************)
(* Small facts about the operators.                                        *)
(***************************************************************************)
(* Answer builds a member of Answers.                                      *)
LEMMA AnswerType ==
  ASSUME NEW f \in Forms, NEW v \in Versions \cup {None},
         NEW b \in Versions \cup {None}, NEW i \in ArtifactIds \cup {None}
  PROVE  Answer(f, v, b, i) \in Answers
BY DEF Answer, Answers

(* A row of table artifacts counts the rows before it.                     *)
LEMMA RowType ==
  ASSUME TypeOK, NEW r \in Requests, req[r].key \in Keys, req[r].content \in Versions
  PROVE  Row(r) \in Rows
<1>1. IsFiniteSet(RowsOf(req[r].file))
  BY ArtifactIdsAssumption, FS_Subset DEF RowsOf
<1>2. Cardinality(RowsOf(req[r].file)) \in Nat
  BY <1>1, FS_CardinalityType
<1>3. req[r].file \in Files \cup {None}
  BY DEF TypeOK, Calls
<1> QED BY <1>2, <1>3 DEF Row, Rows

(* The key a call is filed under.                                          *)
LEMMA KeyType ==
  ASSUME TypeOK, NEW s \in Sessions
  PROVE  AttributedSessionId(s) \in Keys
BY DEF TypeOK, AttributedSessionId, Keys

(* Closing and replying keep the type of the calls.                        *)
LEMMA CallsType ==
  ASSUME NEW reqs \in [Requests -> Calls], NEW r \in Requests, NEW a \in Answers
  PROVE  /\ Closed(reqs) \in [Requests -> Calls]
         /\ Replied(reqs, r, a) \in [Requests -> Calls]
<1>1. \A c \in Calls : /\ [c EXCEPT !.pc = "closed"] \in Calls
                       /\ [c EXCEPT !.pc = "closed", !.reply = None] \in Calls
                       /\ [c EXCEPT !.pc = "replied", !.reply = a] \in Calls
  <2> TAKE c \in Calls
  <2>1. [c EXCEPT !.pc = "closed"] \in Calls
    BY ZenonT(60) DEF Calls
  <2>2. [c EXCEPT !.pc = "closed", !.reply = None] \in Calls
    BY ZenonT(60) DEF Calls
  <2>3. [c EXCEPT !.pc = "replied", !.reply = a] \in Calls
    BY ZenonT(60) DEF Calls
  <2> QED BY <2>1, <2>2, <2>3
<1>2. Closed(reqs) \in [Requests -> Calls]
  BY <1>1 DEF Closed
<1>3. [reqs EXCEPT ![r].pc = "closed"] = [reqs EXCEPT ![r] = [reqs[r] EXCEPT !.pc = "closed"]]
  OBVIOUS
<1>4. [reqs EXCEPT ![r].pc = "replied", ![r].reply = a]
        = [reqs EXCEPT ![r] = [reqs[r] EXCEPT !.pc = "replied", !.reply = a]]
  OBVIOUS
<1>5. Replied(reqs, r, a) \in [Requests -> Calls]
  BY <1>1, <1>3, <1>4 DEF Replied
<1> QED BY <1>2, <1>5

(* The ways AuditAndRespond can end: answered, failed, dead.               *)
LEMMA RespondCases ==
  ASSUME NEW reqs, NEW r, NEW e, NEW a, AuditAndRespond(reqs, r, e, a)
  PROVE  /\ \E n \in 0..2 : Written(e, n)
         /\ \/ Written(e, 2) /\ req' = Replied(reqs, r, a)
               /\ up' = up /\ activeId' = activeId
            \/ req' = Replied(reqs, r, Failed) /\ up' = up /\ activeId' = activeId
            \/ req' = Closed(reqs) /\ up' = FALSE /\ activeId' = None
<1>1. CASE Written(e, 2) /\ req' = Replied(reqs, r, a) /\ UNCHANGED <<up, activeId>>
  <2>1. 2 \in 0..2
    OBVIOUS
  <2> QED BY <1>1, <2>1
<1>2. CASE /\ Written(e, 0) \/ (IdTaken(e) /\ Written(e, 1))
           /\ req' = Replied(reqs, r, Failed) /\ UNCHANGED <<up, activeId>>
  <2>1. 0 \in 0..2 /\ 1 \in 0..2
    OBVIOUS
  <2>2. \E n \in 0..2 : Written(e, n)
    BY <1>2, <2>1
  <2> QED BY <1>2, <2>2
<1>3. CASE /\ \E n \in 0..2 : Written(e, n)
           /\ req' = Closed(reqs) /\ up' = FALSE /\ activeId' = None
  BY <1>3
<1> QED BY <1>1, <1>2, <1>3 DEF AuditAndRespond

(* Its end keeps the types.                                                *)
LEMMA RespondType ==
  ASSUME TypeOK, NEW reqs \in [Requests -> Calls], NEW r \in Requests,
         NEW kind \in Kinds, NEW subject, NEW a \in Answers,
         AuditAndRespond(reqs, r, Event(r, kind, subject), a)
  PROVE  /\ up' \in BOOLEAN /\ activeId' \in Sessions \cup {None}
         /\ \A e \in auditFile' \cup auditDb' : e.req \in Requests /\ e.kind \in Kinds
         /\ req' \in [Requests -> Calls]
<1>1. Failed \in Answers
  BY AnswerType DEF Forms, Failed
<1>2. \A e \in auditFile' \cup auditDb' : e.req \in Requests /\ e.kind \in Kinds
  <2>1. PICK n \in 0..2 : Written(Event(r, kind, subject), n)
    BY RespondCases
  <2> QED BY <2>1 DEF TypeOK, Written, Event
<1>3. /\ Closed(reqs) \in [Requests -> Calls]
      /\ Replied(reqs, r, a) \in [Requests -> Calls]
      /\ Replied(reqs, r, Failed) \in [Requests -> Calls]
  BY <1>1, CallsType
<1>4. up \in BOOLEAN /\ activeId \in Sessions \cup {None}
  BY DEF TypeOK
<1>5. \/ req' = Replied(reqs, r, a) /\ up' = up /\ activeId' = activeId
      \/ req' = Replied(reqs, r, Failed) /\ up' = up /\ activeId' = activeId
      \/ req' = Closed(reqs) /\ up' = FALSE /\ activeId' = None
  BY RespondCases
<1> QED BY <1>2, <1>3, <1>4, <1>5

(* What closing and replying do to the record of one call.                 *)
LEMMA ClosedAt ==
  ASSUME NEW reqs \in [Requests -> Calls], NEW q \in Requests
  PROVE  Closed(reqs)[q] = IF Made(q) THEN [reqs[q] EXCEPT !.pc = "closed", !.reply = None]
                                      ELSE reqs[q]
BY DEF Closed

(* A well-formed record stays so when its call is closed or replied to.    *)
LEMMA WellFormedClosed ==
  ASSUME NEW c \in Calls, WellFormed(c), c.pc # "unused"
  PROVE  WellFormed([c EXCEPT !.pc = "closed", !.reply = None])
BY DEF WellFormed, Begun, Staged, Calls

LEMMA WellFormedReplied ==
  ASSUME NEW c \in Calls, WellFormed(c), c.pc \in {"queued", "distilling"}, NEW a \in Answers
  PROVE  /\ WellFormed([c EXCEPT !.pc = "closed"])
         /\ c.answer = None => WellFormed([c EXCEPT !.pc = "replied", !.reply = a])
<1>1. a # None
  BY NoneAssumption
<1>2. WellFormed([c EXCEPT !.pc = "closed"])
  BY DEF WellFormed, Begun, Staged, Calls
<1>3. c.answer = None => WellFormed([c EXCEPT !.pc = "replied", !.reply = a])
  BY <1>1 DEF WellFormed, Begun, Staged, Calls
<1> QED BY <1>2, <1>3

(* The end of a handler that had brought the calls from req to reqs.       *)
LEMMA RespondShape ==
  ASSUME NEW reqs \in [Requests -> Calls], NEW r \in Requests, NEW e, NEW a \in Answers,
         \A q \in Requests : WellFormed(reqs[q]),
         \A q \in Requests : reqs[q].pc = req[q].pc /\ reqs[q].answer = req[q].answer,
         \A q \in Requests : q # r => Fresh(reqs[q]),
         reqs[r].pc \in {"queued", "distilling"},
         AuditAndRespond(reqs, r, e, a)
  PROVE  \A q \in Requests :
           WellFormed(req'[q]) /\ Fresh(req'[q]) /\ Follows(reqs[q], req'[q])
<1> TAKE q \in Requests
<1>1. Failed \in Answers
  BY AnswerType DEF Forms, Failed
<1>2. CASE req' = Closed(reqs)
  <2>1. CASE Made(q)
    <3>1. req'[q] = [reqs[q] EXCEPT !.pc = "closed", !.reply = None]
      BY <1>2, <2>1, ClosedAt
    <3>2. WellFormed([reqs[q] EXCEPT !.pc = "closed", !.reply = None])
      <4>1. reqs[q] \in Calls /\ WellFormed(reqs[q]) /\ reqs[q].pc # "unused"
        BY <2>1 DEF Made
      <4> QED BY <4>1, WellFormedClosed
    <3> QED BY <2>1, <3>1, <3>2 DEF Follows, Fresh, Calls, Made
  <2>2. CASE ~Made(q)
    <3>1. req'[q] = reqs[q] /\ q # r
      BY <1>2, <2>2, ClosedAt DEF Made
    <3> QED BY <3>1 DEF Follows
  <2> QED BY <2>1, <2>2
<1>3. ASSUME NEW b \in Answers, req' = Replied(reqs, r, b)
      PROVE  WellFormed(req'[q]) /\ Fresh(req'[q]) /\ Follows(reqs[q], req'[q])
  <2>1. CASE q # r
    <3>1. req'[q] = reqs[q]
      BY <1>3, <2>1 DEF Replied
    <3> QED BY <2>1, <3>1 DEF Follows
  <2>2. CASE q = r /\ Answered(r)
    <3>1. req'[q] = [reqs[r] EXCEPT !.pc = "closed"]
      BY <1>3, <2>2 DEF Replied
    <3>2. WellFormed([reqs[r] EXCEPT !.pc = "closed"])
      <4>1. reqs[r] \in Calls /\ WellFormed(reqs[r])
        OBVIOUS
      <4> QED BY <4>1, WellFormedReplied
    <3> QED BY <2>2, <3>1, <3>2 DEF Follows, Fresh, Calls
  <2>3. CASE q = r /\ ~Answered(r)
    <3>1. req'[q] = [reqs[r] EXCEPT !.pc = "replied", !.reply = b]
      BY <1>3, <2>3 DEF Replied
    <3>2. WellFormed([reqs[r] EXCEPT !.pc = "replied", !.reply = b])
      <4>1. reqs[r] \in Calls /\ WellFormed(reqs[r]) /\ reqs[r].answer = None
        BY <2>3 DEF Answered
      <4> QED BY <1>3, <4>1, WellFormedReplied
    <3> QED BY <2>3, <3>1, <3>2 DEF Follows, Fresh, Calls
  <2> QED BY <2>1, <2>2, <2>3
<1>4. \/ req' = Replied(reqs, r, a) \/ req' = Replied(reqs, r, Failed)
      \/ req' = Closed(reqs)
  BY RespondCases
<1> QED BY <1>1, <1>2, <1>3, <1>4

(***************************************************************************)
(* The steps keep types and shapes.                                        *)
(***************************************************************************)
LEMMA CallShape ==
  ASSUME Typed, NEW r \in Requests, NEW call \in Calls,
         call.answer = None, call.reply = None, call.key = None,
         call.op = "zoom" => Holds(call.target, call.by),
         Begun([call EXCEPT !.pc = "closed"]), Call(r, call)
  PROVE  TypeOK' /\ Steps
<1> DEFINE c(pc) == [call EXCEPT !.pc = pc]
<1>1. PICK pc \in {"queued", "closed"} : req' = [req EXCEPT ![r] = c(pc)]
  BY DEF Call
<1>2. c(pc) \in Calls
  BY DEF Calls
<1>3. WellFormed(c(pc)) /\ Fresh(c(pc))
  BY DEF WellFormed, Begun, Staged, Fresh, Calls
<1>4. req \in [Requests -> Calls]
  BY DEF Typed, TypeOK
<1>5. Follows(req[r], c(pc))
  BY <1>4 DEF Call, Made, Typed, WellFormed, Begun, Follows, Calls
<1>6. Steps
  <2> SUFFICES ASSUME NEW q \in Requests
               PROVE  WellFormed(req'[q]) /\ Fresh(req'[q]) /\ Follows(req[q], req'[q])
    BY DEF Steps
  <2>1. CASE q = r
    BY <2>1, <1>1, <1>3, <1>4, <1>5
  <2>2. CASE q # r
    BY <2>2, <1>1, <1>4 DEF Typed, Follows
  <2> QED BY <2>1, <2>2
<1>7. req' \in [Requests -> Calls]
  BY <1>1, <1>2, <1>4
<1> QED BY <1>6, <1>7 DEF Typed, TypeOK, Call, store, trail

(* The client's own answer, or the text it read itself.                    *)
LEMMA FallbackType ==
  ASSUME Typed, NEW r \in Requests
  PROVE  Fallback(r) \in Answers
<1>1. req[r].sent \in Versions \cup {None}
  BY DEF Typed, TypeOK, Calls
<1> QED BY <1>1, AnswerType DEF Fallback, Forms

LEMMA ReceiveShape ==
  ASSUME Typed, NEW r \in Requests, Receive(r)
  PROVE  TypeOK' /\ Steps
<1>1. req \in [Requests -> Calls] /\ WellFormed(req[r]) /\ Fresh(req[r])
  BY DEF Typed, TypeOK
<1>2. PICK a \in Answers : req' = [req EXCEPT ![r] =
         [req[r] EXCEPT !.pc = "closed", !.reply = None, !.answer = a]]
  <2>1. Fallback(r) \in Answers
    BY FallbackType
  <2>2. req[r].reply \in Answers
    BY <1>1 DEF Receive, WellFormed, Staged, Calls
  <2> QED BY <2>1, <2>2 DEF Receive
<1> DEFINE d == [req[r] EXCEPT !.pc = "closed", !.reply = None, !.answer = a]
<1>3. req[r].pc = "replied" /\ req[r].answer = None
  BY DEF Receive, Answered
<1>4. d \in Calls
  BY ZenonT(60), <1>1 DEF Calls
<1>5. WellFormed(d) /\ Fresh(d) /\ Follows(req[r], d)
  BY <1>1, <1>3 DEF WellFormed, Begun, Staged, Fresh, Follows, Calls
<1>6. Steps
  <2> SUFFICES ASSUME NEW q \in Requests
               PROVE  WellFormed(req'[q]) /\ Fresh(req'[q]) /\ Follows(req[q], req'[q])
    BY DEF Steps
  <2>1. CASE q = r
    BY <2>1, <1>1, <1>2, <1>5
  <2>2. CASE q # r
    BY <2>2, <1>1, <1>2 DEF Typed, Follows
  <2> QED BY <2>1, <2>2
<1>7. req' \in [Requests -> Calls]
  BY <1>1, <1>2, <1>4
<1> QED BY <1>6, <1>7 DEF Typed, TypeOK, Receive, store, trail

LEMMA GiveUpShape ==
  ASSUME Typed, NEW r \in Requests, GiveUp(r)
  PROVE  TypeOK' /\ Steps
<1>1. req \in [Requests -> Calls] /\ WellFormed(req[r]) /\ Fresh(req[r])
  BY DEF Typed, TypeOK
<1> DEFINE d == [req[r] EXCEPT !.answer = Fallback(r), !.reply = None,
                             !.pc = IF req[r].pc = "replied" THEN "closed" ELSE req[r].pc]
<1>2. req' = [req EXCEPT ![r] = d]
  BY DEF GiveUp
<1>3. req[r].pc # "unused" /\ req[r].answer = None
  BY DEF GiveUp, Made, Answered
<1>4. Fallback(r) \in Answers
  BY FallbackType
<1>5. d \in Calls
  BY ZenonT(60), <1>1, <1>4 DEF Calls
<1>6. WellFormed(d) /\ Fresh(d) /\ Follows(req[r], d)
  BY <1>1, <1>3 DEF WellFormed, Begun, Staged, Fresh, Follows, Calls
<1>7. Steps
  <2> SUFFICES ASSUME NEW q \in Requests
               PROVE  WellFormed(req'[q]) /\ Fresh(req'[q]) /\ Follows(req[q], req'[q])
    BY DEF Steps
  <2>1. CASE q = r
    BY <2>1, <1>1, <1>2, <1>6
  <2>2. CASE q # r
    BY <2>2, <1>1, <1>2 DEF Typed, Follows
  <2> QED BY <2>1, <2>2
<1>8. req' \in [Requests -> Calls]
  BY <1>1, <1>2, <1>5
<1> QED BY <1>7, <1>8 DEF Typed, TypeOK, GiveUp, store, trail

(* The call a handler takes in hand, filed under a key.                    *)
LEMMA TakenShape ==
  ASSUME Typed, NEW r \in Requests, NEW key \in Keys, NEW v \in Versions,
         req[r].pc = "queued",
         req[r].op = "read" /\ req[r].file \notin Documents => v = req[r].sent
  PROVE  /\ Taken(r, key, v) \in [Requests -> Calls]
         /\ \A q \in Requests :
              LET d == Taken(r, key, v)[q]
              IN  /\ q # r => d = req[q]
                  /\ d.pc = req[q].pc /\ d.answer = req[q].answer
                  /\ d.op = req[q].op /\ d.reply = req[q].reply
                  /\ WellFormed(d) /\ Follows(req[q], d)
         /\ Taken(r, key, v)[r].key = key /\ Taken(r, key, v)[r].content = v
<1> DEFINE d == [req[r] EXCEPT !.key = key, !.content = v]
<1>1. req \in [Requests -> Calls] /\ WellFormed(req[r]) /\ Fresh(req[r])
  BY DEF Typed, TypeOK
<1>2. Taken(r, key, v) = [req EXCEPT ![r] = d]
  BY DEF Taken
<1>3. d \in Calls
  BY ZenonT(60), <1>1 DEF Calls
<1>4. WellFormed(d) /\ Follows(req[r], d)
  BY <1>1 DEF WellFormed, Begun, Staged, Fresh, Follows, Calls
<1>5. /\ d.pc = req[r].pc /\ d.answer = req[r].answer
      /\ d.op = req[r].op /\ d.reply = req[r].reply
      /\ d.key = key /\ d.content = v
  BY <1>1 DEF Calls
<1>6. \A q \in Requests : WellFormed(req[q]) /\ Follows(req[q], req[q])
  BY DEF Typed, Follows
<1> HIDE DEF d
<1> QED BY <1>1, <1>2, <1>3, <1>4, <1>5, <1>6

(* A first distillation begins.                                            *)
LEMMA DistillingShape ==
  ASSUME Typed, NEW r \in Requests, NEW key \in Keys, NEW v \in Versions,
         req[r].pc = "queued", req[r].op \in {"read", "run"},
         req[r].op = "read" /\ req[r].file \notin Documents => v = req[r].sent,
         req' = [Taken(r, key, v) EXCEPT ![r].pc = "distilling"]
  PROVE  req' \in [Requests -> Calls] /\ Steps
<1> DEFINE d == [req[r] EXCEPT !.key = key, !.content = v, !.pc = "distilling"]
<1>1. req \in [Requests -> Calls] /\ WellFormed(req[r]) /\ Fresh(req[r])
  BY DEF Typed, TypeOK
<1>2. req' = [req EXCEPT ![r] = d]
  BY <1>1 DEF Taken, Calls
<1>3. d \in Calls
  BY ZenonT(60), <1>1 DEF Calls
<1>4. WellFormed(d) /\ Fresh(d) /\ Follows(req[r], d)
  BY <1>1 DEF WellFormed, Begun, Staged, Fresh, Follows, Calls
<1>5. \A q \in Requests : WellFormed(req[q]) /\ Fresh(req[q]) /\ Follows(req[q], req[q])
  BY DEF Typed, Follows
<1>6. Steps
  BY <1>1, <1>2, <1>4, <1>5 DEF Steps
<1> QED BY <1>1, <1>2, <1>3, <1>6

LEMMA ServeFirstShape ==
  ASSUME Typed, NEW r \in Requests, ServeFirst(r)
  PROVE  TypeOK' /\ Steps
<1> DEFINE key == AttributedSessionId(req[r].session)
<1>1. PICK v \in ContentFor(r) :
        /\ req[r].pc = "queued" /\ req[r].op = "read"
        /\ served' = [served EXCEPT ![<<key, req[r].file>>] = v]
        /\ req' = [Taken(r, key, v) EXCEPT ![r].pc = "distilling"]
        /\ UNCHANGED <<up, activeId, artifacts, trail>>
  BY DEF ServeFirst
<1>2. Begun(req[r])
  BY DEF Typed, WellFormed
<1>3. key \in Keys /\ v \in Versions
  BY <1>1, <1>2, KeyType DEF Typed, Begun, ContentFor
<1>4. req[r].file \notin Documents => v = req[r].sent
  BY DEF ContentFor
<1>5. served' \in [Keys \X Files -> Versions \cup {None}]
  BY <1>1, <1>3 DEF Typed, TypeOK
<1>6. req' \in [Requests -> Calls] /\ Steps
  BY <1>1, <1>3, <1>4, DistillingShape
<1> QED BY <1>1, <1>5, <1>6 DEF Typed, TypeOK, trail

LEMMA StartDistillShape ==
  ASSUME Typed, NEW r \in Requests, StartDistill(r)
  PROVE  TypeOK' /\ Steps
<1>1. Begun(req[r])
  BY DEF Typed, WellFormed
<1>2. AttributedSessionId(req[r].session) \in Keys /\ req[r].sent \in Versions
  BY <1>1, KeyType DEF Typed, Begun, StartDistill
<1>3. req' \in [Requests -> Calls] /\ Steps
  BY <1>2, DistillingShape DEF StartDistill
<1> QED BY <1>3 DEF Typed, TypeOK, StartDistill, store, trail

LEMMA ServeAgainShape ==
  ASSUME Typed, NEW r \in Requests, ServeAgain(r)
  PROVE  TypeOK' /\ Steps
<1> DEFINE key == AttributedSessionId(req[r].session)
           prior == served[<<key, req[r].file>>]
<1>1. PICK v \in ContentFor(r), mode \in {"diff", "unchanged"} :
        /\ req[r].pc = "queued" /\ req[r].op = "read"
        /\ served' = [served EXCEPT ![<<key, req[r].file>>] = v]
        /\ AuditAndRespond(Taken(r, key, v), r, Event(r, mode, <<key, req[r].file>>),
                           Answer(mode, v, prior, None))
        /\ UNCHANGED artifacts
  BY DEF ServeAgain
<1>2. Begun(req[r])
  BY DEF Typed, WellFormed
<1>3. key \in Keys /\ v \in Versions
  BY <1>1, <1>2, KeyType DEF Typed, Begun, ContentFor
<1>4. req[r].file \notin Documents => v = req[r].sent
  BY DEF ContentFor
<1>5. served' \in [Keys \X Files -> Versions \cup {None}]
  BY <1>1, <1>3 DEF Typed, TypeOK
<1>6. prior \in Versions \cup {None}
  BY <1>1, <1>2, <1>3 DEF Typed, TypeOK, Begun
<1>7. Answer(mode, v, prior, None) \in Answers
  BY <1>3, <1>6, AnswerType DEF Forms, Delta
<1>8. /\ Taken(r, key, v) \in [Requests -> Calls]
      /\ \A q \in Requests :
           LET d == Taken(r, key, v)[q]
           IN  /\ q # r => d = req[q]
               /\ d.pc = req[q].pc /\ d.answer = req[q].answer
               /\ WellFormed(d) /\ Follows(req[q], d)
  BY <1>1, <1>3, <1>4, TakenShape
<1> DEFINE reqs == Taken(r, key, v)
<1>9. \A q \in Requests : q # r => Fresh(reqs[q])
  BY <1>8 DEF Typed
<1>10. \A q \in Requests :
         WellFormed(req'[q]) /\ Fresh(req'[q]) /\ Follows(reqs[q], req'[q])
  <2>1. reqs \in [Requests -> Calls] /\ \A q \in Requests : WellFormed(reqs[q])
    BY <1>8
  <2>2. \A q \in Requests : reqs[q].pc = req[q].pc /\ reqs[q].answer = req[q].answer
    BY <1>8
  <2>3. reqs[r].pc \in {"queued", "distilling"}
    BY <1>1, <2>2
  <2>4. AuditAndRespond(reqs, r, Event(r, mode, <<key, req[r].file>>),
                        Answer(mode, v, prior, None))
    BY <1>1
  <2> HIDE DEF key, prior, reqs
  <2> QED BY <1>7, <1>9, <2>1, <2>2, <2>3, <2>4, RespondShape
<1>11. Steps
  BY <1>8, <1>10 DEF Steps, Follows
<1>12. mode \in Kinds
  BY DEF Kinds, Delta
<1>13. /\ up' \in BOOLEAN /\ activeId' \in Sessions \cup {None}
       /\ \A e \in auditFile' \cup auditDb' : e.req \in Requests /\ e.kind \in Kinds
       /\ req' \in [Requests -> Calls]
  BY <1>1, <1>7, <1>8, <1>12, RespondType DEF Typed
<1> QED BY <1>1, <1>5, <1>11, <1>13 DEF Typed, TypeOK

(* A handler that ends with the calls as they are.                         *)
LEMMA EndShape ==
  ASSUME Typed, NEW r \in Requests, req[r].pc \in {"queued", "distilling"},
         req[r].pc = "queued" => req[r].op = "zoom",
         NEW kind \in Kinds, NEW subject, NEW a \in Answers,
         AuditAndRespond(req, r, Event(r, kind, subject), a)
  PROVE  /\ up' \in BOOLEAN /\ activeId' \in Sessions \cup {None}
         /\ \A e \in auditFile' \cup auditDb' : e.req \in Requests /\ e.kind \in Kinds
         /\ req' \in [Requests -> Calls]
         /\ Steps
<1>1. req \in [Requests -> Calls]
  BY DEF Typed, TypeOK
<1>2. \A q \in Requests : WellFormed(req[q]) /\ Fresh(req[q])
  BY DEF Typed
<1>3. Steps
  BY <1>1, <1>2, RespondShape DEF Steps
<1> QED BY <1>1, <1>3, RespondType DEF Typed

LEMMA FinishDistillShape ==
  ASSUME Typed, NEW r \in Requests, FinishDistill(r)
  PROVE  TypeOK' /\ Steps
<1>1. PICK i \in ArtifactIds, passed \in BOOLEAN :
        /\ req[r].pc = "distilling"
        /\ artifacts' = [artifacts EXCEPT ![i] = Row(r)]
        /\ AuditAndRespond(req, r,
             Event(r, IF passed THEN "distill" ELSE "serve-raw", i),
             Answer(IF passed THEN "skeleton" ELSE "gateRaw", req[r].content, None, i))
        /\ UNCHANGED served
  BY DEF FinishDistill
<1> DEFINE kind == IF passed THEN "distill" ELSE "serve-raw"
           a == Answer(IF passed THEN "skeleton" ELSE "gateRaw", req[r].content, None, i)
<1>2. req[r].key \in Keys /\ req[r].content \in Versions
  BY <1>1 DEF Typed, WellFormed, Staged
<1>3. artifacts' \in [ArtifactIds -> Rows \cup {None}]
  BY <1>1, <1>2, RowType DEF Typed, TypeOK
<1>4. kind \in Kinds
  BY DEF Kinds
<1>5. a \in Answers
  BY <1>2, AnswerType DEF Forms, Full
<1> HIDE DEF kind, a
<1>6. AuditAndRespond(req, r, Event(r, kind, i), a)
  BY <1>1 DEF kind, a
<1>7. /\ up' \in BOOLEAN /\ activeId' \in Sessions \cup {None}
      /\ \A e \in auditFile' \cup auditDb' : e.req \in Requests /\ e.kind \in Kinds
      /\ req' \in [Requests -> Calls]
      /\ Steps
  BY <1>1, <1>4, <1>5, <1>6, EndShape
<1> QED BY <1>1, <1>3, <1>7 DEF Typed, TypeOK

(* A handler that answers without an event: an error, or "no artifact".    *)
LEMMA PlainReplyShape ==
  ASSUME Typed, NEW r \in Requests, req[r].pc \in {"queued", "distilling"},
         NEW a \in Answers, req' = Replied(req, r, a),
         UNCHANGED <<up, activeId, store, trail>>
  PROVE  TypeOK' /\ Steps
<1>1. req \in [Requests -> Calls] /\ req' \in [Requests -> Calls]
  BY CallsType DEF Typed, TypeOK
<1>2. ASSUME NEW q \in Requests
      PROVE  WellFormed(req'[q]) /\ Fresh(req'[q]) /\ Follows(req[q], req'[q])
  <2>1. WellFormed(req[q]) /\ Fresh(req[q]) /\ req[q] \in Calls
    BY <1>1 DEF Typed
  <2>2. CASE q # r
    BY <1>1, <2>1, <2>2 DEF Replied, Follows
  <2>3. CASE q = r /\ Answered(r)
    <3>1. req'[q] = [req[r] EXCEPT !.pc = "closed"]
      BY <1>1, <2>3 DEF Replied
    <3>2. WellFormed([req[r] EXCEPT !.pc = "closed"])
      BY <2>1, <2>3, WellFormedReplied
    <3> QED BY <2>1, <2>3, <3>1, <3>2 DEF Follows, Fresh, Calls
  <2>4. CASE q = r /\ ~Answered(r)
    <3>1. req'[q] = [req[r] EXCEPT !.pc = "replied", !.reply = a]
      BY <1>1, <2>4 DEF Replied
    <3>2. req[r].answer = None
      BY <2>4 DEF Answered
    <3>3. WellFormed([req[r] EXCEPT !.pc = "replied", !.reply = a])
      BY <2>1, <2>4, <3>2, WellFormedReplied
    <3> QED BY <2>1, <2>4, <3>1, <3>3 DEF Follows, Fresh, Calls
  <2> QED BY <2>2, <2>3, <2>4
<1>3. Steps
  BY <1>2 DEF Steps
<1> QED BY <1>1, <1>3 DEF Typed, TypeOK, store, trail

LEMMA DistillThrowsShape ==
  ASSUME Typed, NEW r \in Requests, DistillThrows(r)
  PROVE  TypeOK' /\ Steps
<1>1. Failed \in Answers
  BY AnswerType DEF Forms, Failed
<1> QED BY <1>1, PlainReplyShape DEF DistillThrows

LEMMA ZoomMissesShape ==
  ASSUME Typed, NEW r \in Requests, ZoomMisses(r)
  PROVE  TypeOK' /\ Steps
<1>1. Answer("missing", None, None, None) \in Answers
  BY AnswerType DEF Forms
<1>2. /\ req[r].pc = "queued"
      /\ req' = Replied(req, r, Answer("missing", None, None, None))
      /\ UNCHANGED <<up, activeId, store, trail>>
  BY DEF ZoomMisses
<1> QED BY <1>1, <1>2, PlainReplyShape

(* The answer a zoom refers to, and its handle.                            *)
LEMMA ZoomTarget ==
  ASSUME Typed, NEW r \in Requests, req[r].op = "zoom"
  PROVE  LET q == req[r].target
         IN  /\ q \in Requests /\ req[q].answer \in Answers
             /\ req[r].by = "id" => req[q].answer.id \in ArtifactIds
             /\ req[q].answer.version \in Versions \cup {None}
<1>1. req[r].target \in Requests /\ Holds(req[r].target, req[r].by)
  BY DEF Typed, WellFormed, Begun, ZoomsHeld
<1>2. req[req[r].target].answer \in Answers
  BY <1>1 DEF Holds, Answered, Typed, TypeOK, Calls
<1> QED BY <1>1, <1>2 DEF Holds, Answers

LEMMA ZoomByIdShape ==
  ASSUME Typed, NEW r \in Requests, ZoomById(r)
  PROVE  TypeOK' /\ Steps
<1> DEFINE i == req[req[r].target].answer.id
           a == Answer("recovered", artifacts[i].version, None, None)
<1>1. /\ req[r].pc = "queued" /\ req[r].op = "zoom" /\ req[r].by = "id"
      /\ artifacts[i] # None
      /\ AuditAndRespond(req, r, Event(r, "zoom", i), a)
      /\ UNCHANGED store
  BY DEF ZoomById
<1>2. i \in ArtifactIds
  BY <1>1, ZoomTarget
<1>3. artifacts[i].version \in Versions
  BY <1>1, <1>2 DEF Typed, TypeOK, Rows
<1>4. a \in Answers
  BY <1>3, AnswerType DEF Forms
<1>5. "zoom" \in Kinds
  BY DEF Kinds
<1> HIDE DEF a
<1>6. /\ up' \in BOOLEAN /\ activeId' \in Sessions \cup {None}
      /\ \A e \in auditFile' \cup auditDb' : e.req \in Requests /\ e.kind \in Kinds
      /\ req' \in [Requests -> Calls]
      /\ Steps
  BY <1>1, <1>4, <1>5, EndShape
<1> QED BY <1>1, <1>6 DEF Typed, TypeOK, store

LEMMA ZoomByRefShape ==
  ASSUME Typed, NEW r \in Requests, ZoomByRef(r)
  PROVE  TypeOK' /\ Steps
<1> DEFINE v == req[req[r].target].answer.version
           a == Answer("recovered", v, None, None)
           subject == <<req[req[r].target].file, v>>
<1>1. /\ req[r].pc = "queued" /\ req[r].op = "zoom"
      /\ AuditAndRespond(req, r, Event(r, "zoom", subject), a)
      /\ UNCHANGED store
  BY DEF ZoomByRef
<1>2. v \in Versions \cup {None}
  BY <1>1, ZoomTarget
<1>3. a \in Answers
  BY <1>2, AnswerType DEF Forms
<1>4. "zoom" \in Kinds
  BY DEF Kinds
<1> HIDE DEF a, subject
<1>5. /\ up' \in BOOLEAN /\ activeId' \in Sessions \cup {None}
      /\ \A e \in auditFile' \cup auditDb' : e.req \in Requests /\ e.kind \in Kinds
      /\ req' \in [Requests -> Calls]
      /\ Steps
  BY <1>1, <1>3, <1>4, EndShape
<1> QED BY <1>1, <1>5 DEF Typed, TypeOK, store

LEMMA StopShape ==
  ASSUME Typed, Stop
  PROVE  TypeOK' /\ Steps
<1>1. req \in [Requests -> Calls] /\ req' = Closed(req)
  BY DEF Typed, TypeOK, Stop
<1>2. req' \in [Requests -> Calls]
  <2>1. ASSUME NEW c \in Calls PROVE [c EXCEPT !.pc = "closed", !.reply = None] \in Calls
    BY ZenonT(60) DEF Calls
  <2> QED BY <1>1, <2>1 DEF Closed
<1>3. ASSUME NEW q \in Requests
      PROVE  WellFormed(req'[q]) /\ Fresh(req'[q]) /\ Follows(req[q], req'[q])
  <2>1. WellFormed(req[q]) /\ Fresh(req[q]) /\ req[q] \in Calls
    BY <1>1 DEF Typed
  <2>2. CASE Made(q)
    <3>1. req'[q] = [req[q] EXCEPT !.pc = "closed", !.reply = None]
      BY <1>1, <2>2, ClosedAt
    <3>2. WellFormed([req[q] EXCEPT !.pc = "closed", !.reply = None])
      BY <2>1, <2>2, WellFormedClosed DEF Made
    <3> QED BY <2>1, <2>2, <3>1, <3>2 DEF Follows, Fresh, Calls, Made
  <2>3. CASE ~Made(q)
    BY <1>1, <2>1, <2>3, ClosedAt DEF Follows
  <2> QED BY <2>2, <2>3
<1>4. Steps
  BY <1>3 DEF Steps
<1> QED BY <1>2, <1>4 DEF Typed, TypeOK, Stop, store, trail

LEMMA NotifyShape ==
  ASSUME Typed, UNCHANGED <<store, trail, req>>,
         up' \in BOOLEAN, activeId' \in Sessions \cup {None}
  PROVE  TypeOK' /\ Steps
<1>1. TypeOK'
  BY DEF Typed, TypeOK, store, trail
<1>2. Steps
  BY DEF Typed, Steps, Follows
<1> QED BY <1>1, <1>2

(* The three calls a client makes.                                         *)
LEMMA BlankType ==
  Blank \in Calls
BY DEF Blank, Calls

LEMMA CallReadShape ==
  ASSUME Typed, NEW r \in Requests, CallRead(r)
  PROVE  TypeOK' /\ Steps
<1>1. PICK s \in Sessions, f \in Files, v \in Versions :
        Call(r, [Blank EXCEPT !.op = "read", !.session = s, !.file = f, !.sent = v])
  BY DEF CallRead
<1> DEFINE c == [Blank EXCEPT !.op = "read", !.session = s, !.file = f, !.sent = v]
<1>2. c \in Calls
  BY DEF Blank, Calls
<1>3. c.answer = None /\ c.reply = None /\ c.key = None
  BY DEF Blank
<1>4. Begun([c EXCEPT !.pc = "closed"]) /\ c.op # "zoom"
  BY DEF Blank, Begun
<1> HIDE DEF c
<1>5. Call(r, c)
  BY <1>1 DEF c
<1> QED BY <1>2, <1>3, <1>4, <1>5, CallShape

LEMMA CallRunShape ==
  ASSUME Typed, NEW r \in Requests, CallRun(r)
  PROVE  TypeOK' /\ Steps
<1>1. PICK s \in Sessions, v \in Versions :
        Call(r, [Blank EXCEPT !.op = "run", !.session = s, !.sent = v])
  BY DEF CallRun
<1> DEFINE c == [Blank EXCEPT !.op = "run", !.session = s, !.sent = v]
<1>2. c \in Calls
  BY DEF Blank, Calls
<1>3. c.answer = None /\ c.reply = None /\ c.key = None
  BY DEF Blank
<1>4. Begun([c EXCEPT !.pc = "closed"]) /\ c.op # "zoom"
  BY DEF Blank, Begun
<1> HIDE DEF c
<1>5. Call(r, c)
  BY <1>1 DEF c
<1> QED BY <1>2, <1>3, <1>4, <1>5, CallShape

LEMMA CallZoomShape ==
  ASSUME Typed, NEW r \in Requests, CallZoom(r)
  PROVE  TypeOK' /\ Steps
<1>1. PICK q \in Requests, by \in {"id", "ref"} :
        Holds(q, by) /\
        Call(r, [Blank EXCEPT !.op = "zoom", !.session = req[q].session,
                              !.target = q, !.by = by])
  BY DEF CallZoom
<1> DEFINE c == [Blank EXCEPT !.op = "zoom", !.session = req[q].session,
                              !.target = q, !.by = by]
<1>2. req[q].session \in Sessions \cup {None}
  BY DEF Typed, TypeOK, Calls
<1>3. c \in Calls
  BY <1>2 DEF Blank, Calls
<1>4. c.answer = None /\ c.reply = None /\ c.key = None
  BY DEF Blank
<1>5. Begun([c EXCEPT !.pc = "closed"]) /\ c.target = q /\ c.by = by
  BY DEF Blank, Begun
<1> HIDE DEF c
<1>6. Call(r, c)
  BY <1>1 DEF c
<1> QED BY <1>1, <1>3, <1>4, <1>5, <1>6, CallShape

(* Every step keeps the types and the shapes.                              *)
LEMMA NextShape ==
  ASSUME Typed, [Next]_vars
  PROVE  TypeOK' /\ Steps
<1>1. ASSUME NEW r \in Requests, Client(r) PROVE TypeOK' /\ Steps
  BY <1>1, CallReadShape, CallRunShape, CallZoomShape, ReceiveShape, GiveUpShape DEF Client
<1>2. ASSUME NEW r \in Requests, Handler(r) PROVE TypeOK' /\ Steps
  BY <1>2, ServeFirstShape, ServeAgainShape, StartDistillShape, FinishDistillShape,
     DistillThrowsShape, ZoomByIdShape, ZoomByRefShape, ZoomMissesShape DEF Handler
<1>3. ASSUME NEW s \in Sessions, Notify(s) PROVE TypeOK' /\ Steps
  <2>1. up' \in BOOLEAN
    BY <1>3 DEF Typed, TypeOK, Notify
  <2> QED BY <1>3, <2>1, NotifyShape DEF Notify
<1>4. CASE Stop
  BY <1>4, StopShape
<1>5. CASE Start
  <2>1. activeId' \in Sessions \cup {None}
    BY <1>5 DEF Typed, TypeOK, Start
  <2> QED BY <1>5, <2>1, NotifyShape DEF Start
<1>6. CASE UNCHANGED vars
  <2>1. activeId' \in Sessions \cup {None} /\ up' \in BOOLEAN
    BY <1>6 DEF Typed, TypeOK, vars
  <2> QED BY <1>6, <2>1, NotifyShape DEF vars
<1> QED BY <1>1, <1>2, <1>3, <1>4, <1>5, <1>6 DEF Next

(* What a zoom was asked of stays held.                                    *)
LEMMA NextZooms ==
  ASSUME Typed, TypeOK', Steps
  PROVE  ZoomsHeld'
<1> SUFFICES ASSUME NEW r \in Requests, req'[r].op = "zoom"
             PROVE  Holds(req[r].target, req[r].by)'
  BY DEF ZoomsHeld
<1> DEFINE q == req'[r].target
<1>1. WellFormed(req'[r]) /\ Follows(req[r], req'[r]) /\ WellFormed(req[r])
  BY DEF Steps, Typed
<1>2. Holds(q, req'[r].by)
  <2>1. CASE req[r].pc = "unused" /\ req'[r].pc # "unused"
    BY <1>1, <2>1 DEF Follows
  <2>2. CASE req[r].pc # "unused"
    BY <1>1, <2>2 DEF Follows, Typed, ZoomsHeld
  <2>3. CASE req'[r].pc = "unused"
    BY <1>1, <2>3, NoneAssumption DEF WellFormed, Begun
  <2> QED BY <2>1, <2>2, <2>3
<1>3. q \in Requests
  BY <1>1 DEF WellFormed, Begun
<1>4. WellFormed(req[q]) /\ Follows(req[q], req'[q])
  BY <1>3 DEF Steps, Typed
<1>5. req[q].answer # None
  BY <1>2 DEF Holds, Answered
<1>6. req'[q].answer = req[q].answer /\ req'[q].op = req[q].op
  BY <1>4, <1>5 DEF WellFormed, Begun, Follows
<1> QED BY <1>2, <1>5, <1>6 DEF Holds, Answered

LEMMA NextTyped ==
  ASSUME Typed, [Next]_vars
  PROVE  Typed' /\ Steps
<1>1. TypeOK' /\ Steps
  BY NextShape
<1>2. ZoomsHeld'
  BY <1>1, NextZooms
<1> QED BY <1>1, <1>2 DEF Typed, Steps

LEMMA InitTyped ==
  ASSUME Init
  PROVE  Typed
<1>1. TypeOK
  BY BlankType DEF Init, TypeOK
<1>2. WellFormed(Blank) /\ Fresh(Blank) /\ Blank.op # "zoom"
  BY NoneAssumption DEF Blank, WellFormed, Begun, Staged, Fresh
<1> QED BY <1>1, <1>2 DEF Init, Typed, ZoomsHeld

(* Every variable keeps its type, whatever stops, fails or is given up.    *)
THEOREM TypeCorrect == Spec => []TypeOK
<1>1. Init => Typed
  BY InitTyped
<1>2. Typed /\ [Next]_vars => Typed'
  BY NextTyped
<1>3. Typed => TypeOK
  BY DEF Typed
<1> QED BY <1>1, <1>2, <1>3, PTL DEF Spec

-----------------------------------------------------------------------------
(***************************************************************************)
(* The safety properties, on top of the types and shapes.                  *)
(***************************************************************************)

(***************************************************************************)
(* What a step writes as the reply to call q.                              *)
(***************************************************************************)
Trailed(q) == \E e \in auditFile \cap auditDb : e.req = q

Booked == Full \cup Delta \cup {"recovered"}

GivenHandle(q, a) ==
  /\ a.id # None =>
       Row(q) # None /\ artifacts'[a.id] = Row(q) /\ a.version = req[q].content
  /\ a.form \in Full => a.id # None /\ req[q].key # None

GivenZoom(q, a) ==
  req[q].op = "zoom" =>
    LET b == req[req[q].target].answer
    IN  /\ a.form \in {"recovered", "missing", "error"}
        /\ a.form = "recovered" =>
             a.version = IF req[q].by = "id" THEN artifacts[b.id].version ELSE b.version
        /\ a.form = "missing" /\ req[q].by = "id" => artifacts[b.id] = None

GivenRead(q, a) ==
  /\ a.form \in Delta => /\ req[q].op = "read" /\ req[q].key = None
                         /\ req'[q].key \in Keys /\ a.base # None
                         /\ a.base = served[<<req'[q].key, req[q].file>>]
  /\ req[q].op = "read" /\ req[q].key # None =>
       a.form = "error" \/ (a.form \in Full /\ a.version = req[q].content)

Given(q, a) ==
  /\ req[q].pc # "unused"
  /\ GivenHandle(q, a) /\ GivenZoom(q, a) /\ GivenRead(q, a)
  /\ a.form \in Booked => Trailed(q)'

(* Replies and answers come about in no other way.                         *)
NewReplies == \A q \in Requests :
  req'[q].reply \in {None, req[q].reply} \/ Given(q, req'[q].reply)

NewAnswers == \A q \in Requests :
  \/ req'[q].answer = req[q].answer
  \/ req[q].pc # "unused" /\ req'[q].answer = Fallback(q)
  \/ /\ req[q].reply # None /\ req[q].reply.form # "error"
     /\ req'[q].answer = req[q].reply

(* Only the client's own steps give a call its answer.                     *)
AnswersStay == \A q \in Requests : req'[q].answer = req[q].answer

(* A 400 gives nothing.                                                    *)
LEMMA FailedGiven ==
  ASSUME NEW q \in Requests, req[q].pc # "unused"
  PROVE  Given(q, Failed)
BY DEF Given, GivenHandle, GivenZoom, GivenRead, Failed, Answer, Booked, Full, Delta

(* How the end of a handler answers.                                       *)
LEMMA RespondReplies ==
  ASSUME NEW reqs \in [Requests -> Calls], NEW r \in Requests, NEW e, NEW a \in Answers,
         AuditAndRespond(reqs, r, e, a), NEW q \in Requests
  PROVE  /\ req'[q].answer = reqs[q].answer
         /\ \/ req'[q].reply \in {None, reqs[q].reply}
            \/ q = r /\ req'[q].reply = Failed
            \/ q = r /\ req'[q].reply = a /\ Written(e, 2)
<1>1. reqs[q] \in Calls
  OBVIOUS
<1>2. CASE req' = Closed(reqs)
  BY <1>1, <1>2, ClosedAt DEF Calls
<1>3. ASSUME NEW b \in Answers, req' = Replied(reqs, r, b)
      PROVE  /\ req'[q].answer = reqs[q].answer
             /\ req'[q].reply = reqs[q].reply \/ (q = r /\ req'[q].reply = b)
  BY <1>1, <1>3 DEF Replied, Calls
<1>4. Failed \in Answers
  BY AnswerType DEF Forms, Failed
<1> QED BY <1>2, <1>3, <1>4, RespondCases

(* The written event is in both places, filed for its call.                *)
LEMMA WrittenTrailed ==
  ASSUME NEW q, NEW kind, NEW subject, Written(Event(q, kind, subject), 2)
  PROVE  Trailed(q)'
<1> DEFINE e == Event(q, kind, subject)
<1>1. e \in auditFile' /\ e \in auditDb' /\ e.req = q
  BY DEF Written, Event
<1> QED BY <1>1 DEF Trailed

(* Handlers that end with an event, and what is left to show of each.      *)
LEMMA EndReplies ==
  ASSUME NEW reqs \in [Requests -> Calls], NEW r \in Requests, NEW a \in Answers,
         NEW kind, NEW subject, req[r].pc # "unused",
         \A q \in Requests : reqs[q].answer = req[q].answer /\ reqs[q].reply = req[q].reply,
         AuditAndRespond(reqs, r, Event(r, kind, subject), a),
         GivenHandle(r, a), GivenZoom(r, a), GivenRead(r, a)
  PROVE  NewReplies /\ AnswersStay
<1> SUFFICES ASSUME NEW q \in Requests
             PROVE  /\ req'[q].answer = req[q].answer
                    /\ req'[q].reply \in {None, req[q].reply} \/ Given(q, req'[q].reply)
  BY DEF NewReplies, AnswersStay
<1>1. Given(r, Failed)
  BY FailedGiven
<1>2. Written(Event(r, kind, subject), 2) => Given(r, a)
  BY WrittenTrailed DEF Given
<1> QED BY <1>1, <1>2, RespondReplies

LEMMA ServeAgainReplies ==
  ASSUME Typed, NEW r \in Requests, ServeAgain(r)
  PROVE  NewReplies /\ AnswersStay
<1> DEFINE key == AttributedSessionId(req[r].session)
           prior == served[<<key, req[r].file>>]
           reqs(v) == Taken(r, key, v)
<1>1. PICK v \in ContentFor(r), mode \in Delta :
        /\ req[r].pc = "queued" /\ req[r].op = "read" /\ prior # None
        /\ AuditAndRespond(reqs(v), r, Event(r, mode, <<key, req[r].file>>),
                           Answer(mode, v, prior, None))
  BY DEF ServeAgain, Delta
<1>2. Begun(req[r]) /\ Fresh(req[r])
  BY DEF Typed, WellFormed
<1>3. key \in Keys /\ v \in Versions
  BY <1>1, <1>2, KeyType DEF Typed, Begun, ContentFor
<1>4. req[r].file \notin Documents => v = req[r].sent
  BY DEF ContentFor
<1>5. prior \in Versions \cup {None}
  BY <1>1, <1>2, <1>3 DEF Typed, TypeOK, Begun
<1> DEFINE a == Answer(mode, v, prior, None)
<1>6. a \in Answers
  BY <1>3, <1>5, AnswerType DEF Forms, Delta
<1>7. /\ reqs(v) \in [Requests -> Calls]
      /\ \A q \in Requests :
           LET d == reqs(v)[q]
           IN  d.answer = req[q].answer /\ d.reply = req[q].reply
      /\ reqs(v)[r].key = key
  BY <1>1, <1>3, <1>4, TakenShape
<1>8. a.form = mode /\ a.id = None /\ a.base = prior
  BY DEF Answer
<1>9. req'[r].key = reqs(v)[r].key
  <2>1. reqs(v)[r] \in Calls /\ req[r].pc # "unused"
    BY <1>1, <1>7
  <2>2. \/ req' = Closed(reqs(v))
        \/ \E b : req' = Replied(reqs(v), r, b)
    BY <1>1, RespondCases
  <2>3. ASSUME req' = Closed(reqs(v)) PROVE req'[r].key = reqs(v)[r].key
    BY <1>7, <2>1, <2>3, ClosedAt DEF Calls
  <2>4. ASSUME NEW b, req' = Replied(reqs(v), r, b) PROVE req'[r].key = reqs(v)[r].key
    BY <1>7, <2>1, <2>4 DEF Replied, Calls
  <2> QED BY <2>2, <2>3, <2>4
<1>10. GivenHandle(r, a) /\ GivenZoom(r, a)
  BY <1>1, <1>8 DEF GivenHandle, GivenZoom, Full, Delta
<1>11. GivenRead(r, a)
  BY <1>1, <1>2, <1>3, <1>7, <1>8, <1>9 DEF GivenRead, Fresh
<1>12. /\ AuditAndRespond(reqs(v), r, Event(r, mode, <<key, req[r].file>>), a)
       /\ req[r].pc # "unused"
  BY <1>1
<1> HIDE DEF a, key, prior, reqs
<1> QED BY <1>6, <1>7, <1>10, <1>11, <1>12, EndReplies

LEMMA FinishDistillReplies ==
  ASSUME Typed, NEW r \in Requests, FinishDistill(r)
  PROVE  NewReplies /\ AnswersStay
<1>1. PICK i \in ArtifactIds, kind \in Kinds, form \in Full :
        /\ req[r].pc = "distilling"
        /\ artifacts' = [artifacts EXCEPT ![i] = Row(r)]
        /\ AuditAndRespond(req, r, Event(r, kind, i),
                           Answer(form, req[r].content, None, i))
  <2>1. /\ "skeleton" \in Full /\ "gateRaw" \in Full
        /\ "distill" \in Kinds /\ "serve-raw" \in Kinds
    BY DEF Full, Kinds
  <2>2. PICK i \in ArtifactIds, passed \in BOOLEAN :
          /\ req[r].pc = "distilling"
          /\ artifacts' = [artifacts EXCEPT ![i] = Row(r)]
          /\ AuditAndRespond(req, r,
               Event(r, IF passed THEN "distill" ELSE "serve-raw", i),
               Answer(IF passed THEN "skeleton" ELSE "gateRaw", req[r].content, None, i))
    BY DEF FinishDistill
  <2> QED BY <2>1, <2>2
<1> DEFINE a == Answer(form, req[r].content, None, i)
<1>2. req[r].key \in Keys /\ req[r].content \in Versions /\ req[r].op # "zoom"
  BY <1>1 DEF Typed, WellFormed, Staged
<1>3. a \in Answers
  BY <1>2, AnswerType DEF Forms
<1>4. a.form = form /\ a.id = i /\ a.version = req[r].content
  BY DEF Answer
<1>5. artifacts'[i] = Row(r) /\ Row(r) # None
  BY <1>1, <1>2, RowType, NoneAssumption DEF Typed, TypeOK
<1>6. GivenHandle(r, a) /\ GivenZoom(r, a) /\ GivenRead(r, a)
  BY <1>2, <1>4, <1>5, NoneAssumption DEF GivenHandle, GivenZoom, GivenRead, Full, Delta
<1>7. /\ req \in [Requests -> Calls] /\ req[r].pc # "unused"
      /\ AuditAndRespond(req, r, Event(r, kind, i), a)
  BY <1>1 DEF Typed, TypeOK
<1> HIDE DEF a
<1> QED BY <1>3, <1>6, <1>7, EndReplies

LEMMA ZoomByIdReplies ==
  ASSUME Typed, NEW r \in Requests, ZoomById(r)
  PROVE  NewReplies /\ AnswersStay
<1> DEFINE i == req[req[r].target].answer.id
           a == Answer("recovered", artifacts[i].version, None, None)
<1>1. /\ req[r].pc = "queued" /\ req[r].op = "zoom" /\ req[r].by = "id"
      /\ artifacts[i] # None
      /\ AuditAndRespond(req, r, Event(r, "zoom", i), a)
  BY DEF ZoomById
<1>2. i \in ArtifactIds
  BY <1>1, ZoomTarget
<1>3. artifacts[i].version \in Versions
  BY <1>1, <1>2 DEF Typed, TypeOK, Rows
<1>4. a \in Answers
  BY <1>3, AnswerType DEF Forms
<1>5. a.form = "recovered" /\ a.id = None /\ a.version = artifacts[i].version
  BY DEF Answer
<1>6. GivenHandle(r, a) /\ GivenZoom(r, a) /\ GivenRead(r, a)
  BY <1>1, <1>5 DEF GivenHandle, GivenZoom, GivenRead, Full, Delta
<1>7. req \in [Requests -> Calls]
  BY DEF Typed, TypeOK
<1> HIDE DEF a, i
<1> QED BY <1>1, <1>4, <1>6, <1>7, EndReplies

LEMMA ZoomByRefReplies ==
  ASSUME Typed, NEW r \in Requests, ZoomByRef(r)
  PROVE  NewReplies /\ AnswersStay
<1> DEFINE v == req[req[r].target].answer.version
           a == Answer("recovered", v, None, None)
           subject == <<req[req[r].target].file, v>>
<1>1. /\ req[r].pc = "queued" /\ req[r].op = "zoom" /\ req[r].by = "ref"
      /\ AuditAndRespond(req, r, Event(r, "zoom", subject), a)
  BY DEF ZoomByRef
<1>2. v \in Versions \cup {None}
  BY <1>1, ZoomTarget
<1>3. a \in Answers
  BY <1>2, AnswerType DEF Forms
<1>4. a.form = "recovered" /\ a.id = None /\ a.version = v
  BY DEF Answer
<1>5. GivenHandle(r, a) /\ GivenZoom(r, a) /\ GivenRead(r, a)
  BY <1>1, <1>4 DEF GivenHandle, GivenZoom, GivenRead, Full, Delta
<1>6. req \in [Requests -> Calls]
  BY DEF Typed, TypeOK
<1> HIDE DEF a, v, subject
<1> QED BY <1>1, <1>3, <1>5, <1>6, EndReplies

(* A handler that answers without an event.                                *)
LEMMA PlainReplies ==
  ASSUME Typed, NEW r \in Requests, NEW a \in Answers, req' = Replied(req, r, a),
         Given(r, a)
  PROVE  NewReplies /\ AnswersStay
<1>1. req \in [Requests -> Calls]
  BY DEF Typed, TypeOK
<1>2. ASSUME NEW q \in Requests
      PROVE  /\ req'[q].answer = req[q].answer
             /\ req'[q].reply = req[q].reply \/ (q = r /\ req'[q].reply = a)
  <2>1. req[q] \in Calls
    BY <1>1
  <2> QED BY <1>1, <2>1 DEF Replied, Calls
<1> QED BY <1>2 DEF NewReplies, AnswersStay

LEMMA DistillThrowsReplies ==
  ASSUME Typed, NEW r \in Requests, DistillThrows(r)
  PROVE  NewReplies /\ AnswersStay
<1>1. Failed \in Answers
  BY AnswerType DEF Forms, Failed
<1>2. Given(r, Failed)
  BY FailedGiven DEF DistillThrows
<1> QED BY <1>1, <1>2, PlainReplies DEF DistillThrows

LEMMA ZoomMissesReplies ==
  ASSUME Typed, NEW r \in Requests, ZoomMisses(r)
  PROVE  NewReplies /\ AnswersStay
<1> DEFINE a == Answer("missing", None, None, None)
<1>1. a \in Answers
  BY AnswerType DEF Forms
<1>2. a.form = "missing" /\ a.id = None
  BY DEF Answer
<1>3. /\ req[r].pc = "queued" /\ req[r].op = "zoom"
      /\ req[r].by = "id" => artifacts[req[req[r].target].answer.id] = None
      /\ req' = Replied(req, r, a)
  BY DEF ZoomMisses
<1>4. Given(r, a)
  BY <1>2, <1>3 DEF Given, GivenHandle, GivenZoom, GivenRead, Booked, Full, Delta
<1> HIDE DEF a
<1> QED BY <1>1, <1>3, <1>4, PlainReplies

(* The client's own steps.                                                 *)
LEMMA CallReplies ==
  ASSUME Typed, NEW r \in Requests, NEW call \in Calls,
         call.answer = None, call.reply = None, Call(r, call)
  PROVE  NewReplies /\ NewAnswers
<1>1. PICK pc : req' = [req EXCEPT ![r] = [call EXCEPT !.pc = pc]]
  BY DEF Call
<1>2. req \in [Requests -> Calls] /\ req[r].answer = None
  BY DEF Typed, TypeOK, WellFormed, Begun, Call, Made
<1>3. ASSUME NEW q \in Requests
      PROVE  /\ req'[q].answer = req[q].answer
             /\ req'[q].reply \in {None, req[q].reply}
  BY <1>1, <1>2 DEF Calls
<1> QED BY <1>3 DEF NewReplies, NewAnswers

LEMMA ClientReplies ==
  ASSUME Typed, NEW r \in Requests, Client(r)
  PROVE  NewReplies /\ NewAnswers
<1>1. req \in [Requests -> Calls]
  BY DEF Typed, TypeOK
<1>2. ASSUME NEW call, Call(r, call), call \in Calls,
             call.answer = None, call.reply = None
      PROVE  NewReplies /\ NewAnswers
  BY <1>2, CallReplies
<1>3. CASE CallRead(r)
  BY <1>2, <1>3 DEF CallRead, Blank, Calls
<1>4. CASE CallRun(r)
  BY <1>2, <1>4 DEF CallRun, Blank, Calls
<1>5. CASE CallZoom(r)
  <2>1. \A q \in Requests : req[q].session \in Sessions \cup {None}
    BY <1>1 DEF Calls
  <2> QED BY <1>2, <1>5, <2>1 DEF CallZoom, Blank, Calls
<1>6. CASE Receive(r)
  <2>1. req[r].reply # None
    BY <1>6 DEF Receive, Typed, WellFormed, Staged
  <2>2. ASSUME NEW q \in Requests
        PROVE  /\ req'[q].reply \in {None, req[q].reply}
               /\ \/ req'[q].answer = req[q].answer
                  \/ req[q].pc # "unused" /\ req'[q].answer = Fallback(q)
                  \/ /\ q = r /\ req[r].reply.form # "error"
                     /\ req'[q].answer = req[q].reply
    BY <1>1, <1>6 DEF Receive, Calls
  <2> QED BY <2>1, <2>2 DEF NewReplies, NewAnswers
<1>7. CASE GiveUp(r)
  BY <1>1, <1>7 DEF GiveUp, Made, NewReplies, NewAnswers, Calls
<1> QED BY <1>3, <1>4, <1>5, <1>6, <1>7 DEF Client

LEMMA HandlerReplies ==
  ASSUME Typed, NEW r \in Requests, Handler(r)
  PROVE  NewReplies /\ AnswersStay
<1>1. req \in [Requests -> Calls]
  BY DEF Typed, TypeOK
<1>2. ASSUME NEW key, NEW v, req' = [Taken(r, key, v) EXCEPT ![r].pc = "distilling"]
      PROVE  NewReplies /\ AnswersStay
  BY <1>1, <1>2 DEF Taken, NewReplies, AnswersStay, Calls
<1>3. CASE ServeFirst(r)
  BY <1>2, <1>3 DEF ServeFirst
<1>4. CASE StartDistill(r)
  BY <1>2, <1>4 DEF StartDistill
<1> QED BY <1>3, <1>4, ServeAgainReplies, FinishDistillReplies,
           DistillThrowsReplies, ZoomByIdReplies, ZoomByRefReplies, ZoomMissesReplies
    DEF Handler

LEMMA StopReplies ==
  ASSUME Typed, Stop
  PROVE  NewReplies /\ AnswersStay
<1>1. req \in [Requests -> Calls] /\ req' = Closed(req)
  BY DEF Typed, TypeOK, Stop
<1>2. ASSUME NEW q \in Requests
      PROVE  req'[q].answer = req[q].answer /\ req'[q].reply \in {None, req[q].reply}
  <2>1. req[q] \in Calls
    BY <1>1
  <2> QED BY <1>1, <2>1, ClosedAt DEF Calls
<1> QED BY <1>2 DEF NewReplies, AnswersStay

LEMMA NextReplies ==
  ASSUME Typed, [Next]_vars
  PROVE  NewReplies /\ NewAnswers
<1>1. AnswersStay => NewAnswers
  BY DEF AnswersStay, NewAnswers
<1>2. CASE UNCHANGED req
  BY <1>2 DEF NewReplies, NewAnswers
<1> QED BY <1>1, <1>2, HandlerReplies, StopReplies, ClientReplies
    DEF Next, Notify, Start, vars

(***************************************************************************)
(* The store and the trail only grow.                                      *)
(***************************************************************************)
TrailGrows == /\ auditFile \subseteq auditFile' /\ auditDb \subseteq auditDb'
              /\ FileLeadsTable => FileLeadsTable'

ArtifactsStay == \A i \in ArtifactIds : artifacts[i] # None => artifacts'[i] = artifacts[i]

LEMMA RespondTrail ==
  ASSUME NEW reqs, NEW r, NEW e, NEW a, AuditAndRespond(reqs, r, e, a)
  PROVE  TrailGrows
<1>1. PICK n \in 0..2 : Written(e, n)
  BY RespondCases
<1> QED BY <1>1 DEF Written, TrailGrows, FileLeadsTable

LEMMA NextGrows ==
  ASSUME Typed, [Next]_vars
  PROVE  TrailGrows /\ ArtifactsStay
<1>1. UNCHANGED trail => TrailGrows
  BY DEF trail, TrailGrows, FileLeadsTable
<1>2. UNCHANGED artifacts => ArtifactsStay
  BY DEF ArtifactsStay
<1>3. ASSUME NEW r \in Requests, Client(r) PROVE TrailGrows /\ ArtifactsStay
  BY <1>1, <1>2, <1>3
     DEF Client, CallRead, CallRun, CallZoom, Call, Receive, GiveUp, store
<1>4. ASSUME NEW r \in Requests, Handler(r) PROVE TrailGrows /\ ArtifactsStay
  <2>1. CASE ServeFirst(r) \/ StartDistill(r) \/ DistillThrows(r) \/ ZoomMisses(r)
    BY <1>1, <1>2, <2>1 DEF ServeFirst, StartDistill, DistillThrows, ZoomMisses, store
  <2>2. CASE ServeAgain(r)
    BY <1>2, <2>2, RespondTrail DEF ServeAgain
  <2>3. CASE ZoomById(r) \/ ZoomByRef(r)
    BY <1>2, <2>3, RespondTrail DEF ZoomById, ZoomByRef, store
  <2>4. CASE FinishDistill(r)
    <3>1. TrailGrows
      BY <2>4, RespondTrail DEF FinishDistill
    <3>2. ArtifactsStay
      BY <2>4 DEF FinishDistill, ArtifactsStay, Typed, TypeOK
    <3> QED BY <3>1, <3>2
  <2> QED BY <1>4, <2>1, <2>2, <2>3, <2>4 DEF Handler
<1> QED BY <1>1, <1>2, <1>3, <1>4 DEF Next, Notify, Stop, Start, vars, store

(* Whatever crashes or collides, no artifact is replaced and the trail is  *)
(* only ever appended to.                                                  *)
THEOREM NeverRewritten == Spec => NothingRewritten
<1>1. Init => Typed
  BY InitTyped
<1>2. Typed /\ [Next]_vars => Typed'
  BY NextTyped
<1>3. Typed /\ [Next]_vars =>
        [/\ \A i \in ArtifactIds : artifacts[i] # None => artifacts'[i] = artifacts[i]
         /\ auditFile \subseteq auditFile' /\ auditDb \subseteq auditDb']_vars
  BY NextGrows DEF TrailGrows, ArtifactsStay
<1> QED BY <1>1, <1>2, <1>3, PTL DEF Spec, NothingRewritten

(* The table of audit events never leads the file.                         *)
THEOREM FileLeads == Spec => []FileLeadsTable
<1>1. Init => Typed /\ FileLeadsTable
  BY InitTyped DEF Init, FileLeadsTable
<1>2. Typed /\ FileLeadsTable /\ [Next]_vars => Typed' /\ FileLeadsTable'
  BY NextTyped, NextGrows DEF TrailGrows
<1> QED BY <1>1, <1>2, PTL DEF Spec

(***************************************************************************)
(* Handles, zooms and the trail.  The invariants speak of the reply on the *)
(* wire as well as of the answer it becomes.                               *)
(***************************************************************************)
Backed(a, path) ==
  a.id # None => /\ artifacts[a.id] # None
                 /\ artifacts[a.id].version = a.version
                 /\ artifacts[a.id].path = path

Zoomed(q, a) ==
  LET b == req[req[q].target].answer
  IN  /\ a.form = "recovered" => a.version = b.version
      /\ req[q].by = "id" => a.form \in {"recovered", "error", "unavailable"}

Sound(q, a) ==
  a # None =>
    /\ Backed(a, req[q].file)
    /\ a.form \in Booked => Trailed(q)
    /\ req[q].op = "zoom" => Zoomed(q, a)

Soundness == \A q \in Requests : Sound(q, req[q].reply) /\ Sound(q, req[q].answer)

NoErrors == \A q \in Requests : req[q].answer # None => req[q].answer.form # "error"

Safe == Typed /\ Soundness /\ NoErrors

(* What was sound stays so.                                                *)
LEMMA SoundStays ==
  ASSUME Safe, [Next]_vars, NEW q \in Requests, NEW a \in Answers \cup {None}, Sound(q, a),
         req[q].pc # "unused"
  PROVE  Sound(q, a)'
<1> SUFFICES ASSUME a # None PROVE Sound(q, a)'
  BY DEF Sound
<1>1. Typed /\ Steps /\ TrailGrows /\ ArtifactsStay
  BY NextTyped, NextGrows DEF Safe
<1>2. Follows(req[q], req'[q])
  BY <1>1 DEF Steps
<1>3. /\ req'[q].file = req[q].file /\ req'[q].op = req[q].op
      /\ req'[q].target = req[q].target /\ req'[q].by = req[q].by
  BY <1>2 DEF Follows
<1>4. Backed(a, req[q].file)'
  <2>1. a \in Answers
    OBVIOUS
  <2>2. a.id \in ArtifactIds \cup {None} /\ Backed(a, req[q].file)
    BY <2>1 DEF Answers, Sound
  <2> QED BY <1>1, <1>3, <2>2 DEF Backed, ArtifactsStay
<1>5. a.form \in Booked => Trailed(q)'
  BY <1>1 DEF Sound, Trailed, TrailGrows
<1>6. req'[q].op = "zoom" => Zoomed(q, a)'
  <2> SUFFICES ASSUME req[q].op = "zoom" PROVE Zoomed(q, a)'
    BY <1>3
  <2> DEFINE t == req[q].target
  <2>1. t \in Requests /\ req[t].answer # None
    BY <1>1 DEF Typed, WellFormed, Begun, ZoomsHeld, Holds, Answered
  <2>2. req'[t].answer = req[t].answer
    BY <1>1, <2>1 DEF Steps, Follows
  <2> QED BY <1>3, <2>2 DEF Sound, Zoomed
<1> QED BY <1>4, <1>5, <1>6 DEF Sound

(* A reply is sound when it is written.                                    *)
LEMMA GivenSound ==
  ASSUME Safe, [Next]_vars, NEW q \in Requests, NEW a \in Answers, Given(q, a)
  PROVE  Sound(q, a)'
<1>1. Typed /\ Steps
  BY NextTyped DEF Safe
<1>2. Follows(req[q], req'[q]) /\ req[q].pc # "unused"
  BY <1>1 DEF Steps, Given
<1>3. /\ req'[q].file = req[q].file /\ req'[q].op = req[q].op
      /\ req'[q].target = req[q].target /\ req'[q].by = req[q].by
  BY <1>2 DEF Follows
<1>4. Backed(a, req[q].file)'
  <2>1. Row(q).path = req[q].file /\ Row(q).version = req[q].content
    BY DEF Row
  <2> QED BY <1>3, <2>1 DEF Given, GivenHandle, Backed
<1>5. a.form \in Booked => Trailed(q)'
  BY DEF Given
<1>6. req'[q].op = "zoom" => Zoomed(q, a)'
  <2> SUFFICES ASSUME req[q].op = "zoom" PROVE Zoomed(q, a)'
    BY <1>3
  <2> DEFINE t == req[q].target
             b == req[t].answer
  <2>1. t \in Requests /\ b # None /\ Holds(t, req[q].by)
    BY <1>1 DEF Typed, WellFormed, Begun, ZoomsHeld, Holds, Answered
  <2>2. req'[t].answer = b
    BY <1>1, <2>1 DEF Steps, Follows
  <2>3. Backed(b, req[t].file)
    BY <2>1 DEF Safe, Soundness, Sound
  <2>4. req[q].by = "id" => artifacts[b.id] # None /\ artifacts[b.id].version = b.version
    BY <2>1, <2>3 DEF Backed, Holds
  <2> QED BY <1>3, <2>2, <2>4 DEF Given, GivenZoom, Zoomed
<1> QED BY <1>4, <1>5, <1>6 DEF Sound

(* The client's own answer promises nothing.                               *)
LEMMA FallbackSound ==
  ASSUME NEW q \in Requests
  PROVE  /\ Fallback(q).form \notin Booked \cup {"error"}
         /\ Fallback(q).id = None
         /\ req[q].op = "zoom" => Fallback(q).form = "unavailable"
BY DEF Fallback, Answer, Booked, Full, Delta

LEMMA SafeStep ==
  ASSUME Safe, [Next]_vars
  PROVE  Safe'
<1>1. Typed /\ Typed' /\ Steps /\ NewReplies /\ NewAnswers
  BY NextTyped, NextReplies DEF Safe
<1>2. ASSUME NEW q \in Requests PROVE Sound(q, req[q].reply)'
  <2>1. WellFormed(req[q]) /\ req[q] \in Calls /\ req'[q] \in Calls
    BY <1>1 DEF Typed, TypeOK
  <2>2. PICK a \in Answers \cup {None} : a = req'[q].reply
    BY <2>1 DEF Calls
  <2>3. Sound(q, a)'
    <3>1. CASE a = None
      BY <3>1 DEF Sound
    <3>2. CASE a # None /\ a = req[q].reply
      <4>1. req[q].pc # "unused" /\ Sound(q, a)
        BY <2>1, <3>2 DEF Safe, Soundness, WellFormed, Staged
      <4> QED BY <4>1, SoundStays
    <3>3. CASE a # None /\ Given(q, a)
      <4>1. a \in Answers
        BY <3>3
      <4> QED BY <3>3, <4>1, GivenSound
    <3> QED BY <1>1, <2>2, <3>1, <3>2, <3>3 DEF NewReplies
  <2> QED BY <2>2, <2>3 DEF Sound
<1>3. ASSUME NEW q \in Requests
      PROVE  /\ Sound(q, req[q].answer)'
             /\ req'[q].answer # None => req'[q].answer.form # "error"
  <2>1. WellFormed(req[q]) /\ req[q] \in Calls /\ req'[q] \in Calls
    BY <1>1 DEF Typed, TypeOK
  <2>2. PICK a \in Answers \cup {None} : a = req'[q].answer
    BY <2>1 DEF Calls
  <2>3. Sound(q, a)' /\ (a # None => a.form # "error")
    <3>1. CASE a = None
      BY <3>1 DEF Sound
    <3>2. CASE a # None /\ a = req[q].answer
      <4>1. req[q].pc # "unused" /\ Sound(q, a) /\ a.form # "error"
        BY <2>1, <3>2 DEF Safe, Soundness, NoErrors, WellFormed, Begun
      <4> QED BY <4>1, SoundStays
    <3>3. CASE req[q].pc # "unused" /\ a = Fallback(q)
      <4>1. Follows(req[q], req'[q])
        BY <1>1 DEF Steps
      <4>2. req'[q].op = req[q].op
        BY <3>3, <4>1 DEF Follows
      <4>3. /\ a.id = None /\ a.form \notin Booked \cup {"error"}
            /\ req[q].op = "zoom" => a.form = "unavailable"
        BY <3>3, FallbackSound
      <4>4. req'[q].op = "zoom" => Zoomed(q, a)'
        BY <4>2, <4>3 DEF Zoomed
      <4> QED BY <4>3, <4>4 DEF Sound, Backed
    <3>4. CASE a # None /\ a = req[q].reply /\ a.form # "error"
      <4>1. req[q].pc # "unused" /\ Sound(q, a)
        BY <2>1, <3>4 DEF Safe, Soundness, WellFormed, Staged
      <4> QED BY <3>4, <4>1, SoundStays
    <3> QED BY <1>1, <2>2, <3>1, <3>2, <3>3, <3>4 DEF NewAnswers
  <2> QED BY <2>2, <2>3 DEF Sound
<1> QED BY <1>1, <1>2, <1>3 DEF Safe, Soundness, NoErrors

LEMMA InitSafe ==
  ASSUME Init
  PROVE  Safe
<1>1. Blank.reply = None /\ Blank.answer = None
  BY DEF Blank
<1> QED BY <1>1, InitTyped DEF Init, Safe, Soundness, NoErrors, Sound

(* The store keeps what every handle in a context was handed out for.      *)
THEOREM HandlesSafe == Spec => []HandlesRecoverable
<1>1. Safe => HandlesRecoverable
  BY DEF Safe, Soundness, Sound, Backed, HandlesRecoverable
<1> QED BY <1>1, InitSafe, SafeStep, PTL DEF Spec

(* A zoom gives back the content behind the reference, or nothing.         *)
THEOREM ZoomSafe == Spec => []ZoomIsExact
<1>1. Safe => ZoomIsExact
  BY DEF Safe, Soundness, Sound, Zoomed, NoErrors, ZoomIsExact
<1> QED BY <1>1, InitSafe, SafeStep, PTL DEF Spec

(* Nothing stands in for the raw text in a context unless it is filed.     *)
THEOREM AuditSafe == Spec => []AuditedBeforeAnswered
<1>1. Safe => AuditedBeforeAnswered
  BY DEF Safe, Soundness, Sound, Trailed, Booked, AuditedBeforeAnswered
<1> QED BY <1>1, InitSafe, SafeStep, PTL DEF Spec

(***************************************************************************)
(* The store implements module Recoverable.                                *)
(***************************************************************************)
Handle(r) == req[r].answer.id

Holding(r) == Answered(r) /\ req[r].answer.id # None

(* Handles a context holds are ids of kept artifacts.                      *)
LEMMA HandlesKept ==
  ASSUME Safe, NEW r \in Requests, Holding(r)
  PROVE  Handle(r) \in ArtifactIds /\ artifacts[Handle(r)] # None
<1>1. req[r].answer \in Answers
  BY DEF Safe, Typed, TypeOK, Calls, Holding, Answered
<1>2. Backed(req[r].answer, req[r].file)
  BY DEF Safe, Soundness, Sound, Holding, Answered
<1> QED BY <1>1, <1>2 DEF Holding, Handle, Answers, Backed

(* While answers stay, new artifacts leave the handles held as they are.   *)
LEMMA HeldStays ==
  ASSUME Safe, AnswersStay, ArtifactsStay
  PROVE  Held' = Held
<1>1. \A r \in Requests : Holding(r)' = Holding(r) /\ Handle(r)' = Handle(r)
  BY DEF AnswersStay, Holding, Handle, Answered
<1>2. \A r \in Requests : Holding(r) => Kept[Handle(r)]' = Kept[Handle(r)]
  <2> SUFFICES ASSUME NEW r \in Requests, Holding(r)
               PROVE  Kept[Handle(r)]' = Kept[Handle(r)]
    OBVIOUS
  <2>1. Handle(r) \in ArtifactIds /\ artifacts[Handle(r)] # None
    BY HandlesKept
  <2>2. artifacts'[Handle(r)] = artifacts[Handle(r)] /\ Handle(r)' = Handle(r)
    BY <1>1, <2>1 DEF ArtifactsStay
  <2> QED BY <2>1, <2>2 DEF Kept
<1> QED BY <1>1, <1>2 DEF Held, Holding, Handle, Answered, AnswersStay

(* The one step that stores an artifact.                                   *)
LEMMA FinishDistillKeeps ==
  ASSUME Safe, [Next]_vars, NEW r \in Requests, FinishDistill(r)
  PROVE  Promise!Keep
<1>1. PICK i \in ArtifactIds : /\ artifacts[i] = None
                               /\ artifacts' = [artifacts EXCEPT ![i] = Row(r)]
                               /\ req[r].pc = "distilling"
  BY DEF FinishDistill
<1>2. req[r].key \in Keys /\ req[r].content \in Versions
  BY <1>1 DEF Safe, Typed, WellFormed, Staged
<1>3. Row(r) \in Rows /\ Row(r) # None /\ artifacts \in [ArtifactIds -> Rows \cup {None}]
  BY <1>2, RowType, NoneAssumption DEF Safe, Typed, TypeOK
<1> DEFINE c == [path |-> Row(r).path, version |-> Row(r).version]
<1>4. c \in Contents
  BY <1>3 DEF Rows, Contents
<1>5. Kept[i] = None
  BY <1>1 DEF Kept
<1>6. Kept' = [Kept EXCEPT ![i] = c]
  BY <1>1, <1>3 DEF Kept
<1>7. AnswersStay /\ ArtifactsStay
  BY NextGrows, HandlerReplies DEF Safe, Handler
<1>8. UNCHANGED Held
  BY <1>7, HeldStays
<1> QED BY <1>4, <1>5, <1>6, <1>8 DEF Promise!Keep

(* The one step that puts a handle in a context.                           *)
LEMMA AnswerHands ==
  ASSUME Safe, Safe', [Next]_vars, NEW r \in Requests, UNCHANGED artifacts,
         \A q \in Requests : q # r => req'[q].answer = req[q].answer,
         ~Answered(r)
  PROVE  Promise!Hand \/ UNCHANGED <<Kept, Held>>
<1>1. UNCHANGED Kept
  BY DEF Kept
<1>2. ASSUME NEW q \in Requests, q # r
      PROVE  Holding(q)' = Holding(q) /\ Handle(q)' = Handle(q)
  BY <1>2 DEF Holding, Handle, Answered
<1>3. ~Holding(r)
  BY DEF Holding
<1>4. CASE ~Holding(r)'
  <2>1. UNCHANGED Held
    BY <1>1, <1>2, <1>3, <1>4 DEF Held, Holding, Handle
  <2> QED BY <1>1, <2>1
<1>5. CASE Holding(r)'
  <2>1. PICK i : i = Handle(r)'
    OBVIOUS
  <2>2. i \in ArtifactIds /\ artifacts'[i] # None
    <3>1. req'[r].answer \in Answers
      BY <1>5 DEF Safe, Typed, TypeOK, Calls, Holding, Answered
    <3>2. Backed(req[r].answer, req[r].file)'
      BY <1>5 DEF Safe, Soundness, Sound, Holding, Answered
    <3> QED BY <1>5, <2>1, <3>1, <3>2 DEF Holding, Handle, Answers, Backed
  <2>3. artifacts[i] \in Rows
    BY <2>2 DEF Safe, Typed, TypeOK
  <2>4. Kept[i] # None
    BY <2>2, <2>3, NoneAssumption DEF Kept, Rows, Contents
  <2>5. Held' = Held \cup {<<i, Kept[i]>>}
    BY <1>1, <1>2, <1>3, <1>5, <2>1 DEF Held, Holding, Handle
  <2> QED BY <1>1, <2>2, <2>4, <2>5 DEF Promise!Hand
<1> QED BY <1>4, <1>5

(* Every step keeps a content, hands out a handle, or leaves both alone.   *)
LEMMA NextPromised ==
  ASSUME Safe, [Next]_vars
  PROVE  [Promise!Next]_<<Kept, Held>>
<1>1. Safe' /\ ArtifactsStay /\ Typed
  BY SafeStep, NextGrows DEF Safe
<1>2. ASSUME AnswersStay, UNCHANGED artifacts PROVE UNCHANGED <<Kept, Held>>
  <2>1. UNCHANGED Held
    BY <1>1, <1>2, HeldStays
  <2> QED BY <1>2, <2>1 DEF Kept
<1>3. ASSUME NEW r \in Requests, Handler(r), ~FinishDistill(r)
      PROVE  UNCHANGED <<Kept, Held>>
  <2>1. AnswersStay
    BY <1>1, <1>3, HandlerReplies
  <2>2. UNCHANGED artifacts
    BY <1>3 DEF Handler, ServeFirst, ServeAgain, StartDistill, DistillThrows, ZoomById,
                ZoomByRef, ZoomMisses, store
  <2> QED BY <1>2, <2>1, <2>2
<1>4. ASSUME NEW r \in Requests, Client(r)
      PROVE  Promise!Hand \/ UNCHANGED <<Kept, Held>>
  <2>1. UNCHANGED artifacts
    BY <1>4 DEF Client, CallRead, CallRun, CallZoom, Call, Receive, GiveUp, store
  <2>2. \A q \in Requests : q # r => req'[q].answer = req[q].answer
    BY <1>1, <1>4 DEF Client, CallRead, CallRun, CallZoom, Call, Receive, GiveUp, Typed, TypeOK
  <2>3. ~Answered(r)
    BY <1>1, <1>4 DEF Client, CallRead, CallRun, CallZoom, Call, Receive, GiveUp, Typed,
                WellFormed, Begun, Made, Answered
  <2> QED BY <1>1, <2>1, <2>2, <2>3, AnswerHands
<1>5. ASSUME Stop \/ Start \/ UNCHANGED vars \/ \E s \in Sessions : Notify(s)
      PROVE  UNCHANGED <<Kept, Held>>
  <2>1. UNCHANGED artifacts
    BY <1>5 DEF Stop, Start, Notify, vars, store
  <2>2. UNCHANGED req => AnswersStay
    BY DEF AnswersStay
  <2>3. AnswersStay
    BY <1>1, <1>5, <2>2, StopReplies DEF Start, Notify, vars
  <2> QED BY <1>2, <2>1, <2>3
<1> QED BY <1>3, <1>4, <1>5, FinishDistillKeeps DEF Next, Promise!Next

(* The store, the handlers and the client together implement the promise   *)
(* of module Recoverable.                                                  *)
THEOREM PromiseKept == Spec => HandlesRefine
<1>1. Init => Promise!Init
  <2> SUFFICES ASSUME Init PROVE Promise!Init
    OBVIOUS
  <2>1. Kept = [i \in ArtifactIds |-> None]
    BY DEF Init, Kept
  <2>2. Held = {}
    BY DEF Init, Held, Answered, Blank
  <2> QED BY <2>1, <2>2 DEF Promise!Init
<1>2. Safe /\ [Next]_vars => [Promise!Next]_<<Kept, Held>>
  BY NextPromised
<1> QED BY <1>1, <1>2, InitSafe, SafeStep, PTL DEF Spec, HandlesRefine, Promise!Spec

(***************************************************************************)
(* Diffs and references lean on a content some call has brought.           *)
(***************************************************************************)
(* Rows of served_files that are not about a document.                     *)
Tracked == Keys \X (Files \ Documents)

RowsGrounded == \A row \in Tracked : served[row] # None =>
  \E q \in Requests : Carries(q, row[1], row[2], served[row])

(* A caller that gives up on a call no handler has taken works on the text *)
(* it read itself.                                                         *)
EarlyRaw == \A q \in Requests :
  req[q].pc = "queued" /\ req[q].op = "read" /\ req[q].answer # None =>
    req[q].answer.form = "raw" /\ req[q].answer.version = req[q].sent

Leans(r, a) ==
  a # None /\ a.form \in Delta /\ req[r].file \notin Documents =>
    /\ req[r].key \in Keys /\ req[r].file \in Files
    /\ \E q \in Requests \ {r} : Carries(q, req[r].key, req[r].file, a.base)

Leaning == \A r \in Requests : Leans(r, req[r].reply) /\ Leans(r, req[r].answer)

Grounded == Typed /\ EarlyRaw /\ RowsGrounded /\ Leaning

(* A call that carries a content goes on carrying it.                      *)
LEMMA CarriesStays ==
  ASSUME Typed, [Next]_vars, NEW q \in Requests, NEW key \in Keys,
         NEW path \in Files \ Documents, NEW b, Carries(q, key, path, b)
  PROVE  Carries(q, key, path, b)'
<1>1. Typed' /\ Steps /\ NewReplies /\ NewAnswers
  BY NextTyped, NextReplies
<1>2. WellFormed(req[q]) /\ Follows(req[q], req'[q]) /\ WellFormed(req'[q])
  BY <1>1 DEF Typed, Steps
<1>3. /\ req[q].pc # "unused" /\ req[q].op = "read" /\ req[q].key = key
      /\ req[q].file = path /\ req[q].content = b /\ key # None /\ req[q].sent = b
  BY <1>2, NoneAssumption DEF Carries, WellFormed, Begun, Staged
<1>4. /\ req'[q].op = "read" /\ req'[q].key = key /\ req'[q].file = path
      /\ req'[q].content = b
  BY <1>2, <1>3 DEF Follows
<1>5. Brings(Fallback(q), b)
  BY <1>3 DEF Fallback, Brings, Answer
<1>6. req'[q].answer # None => Brings(req'[q].answer, b)
  BY <1>1, <1>5 DEF NewAnswers, Carries, Answered
<1>7. req'[q].reply # None => Brings(req'[q].reply, b) \/ req'[q].reply.form = "error"
  <2>1. Given(q, req'[q].reply) =>
          Brings(req'[q].reply, b) \/ req'[q].reply.form = "error"
    BY <1>3 DEF Given, GivenRead, Brings
  <2> QED BY <1>1, <2>1 DEF NewReplies, Carries
<1> QED BY <1>4, <1>6, <1>7 DEF Carries, Answered, Brings

(* A row changes when a call that carries its new content is filed.        *)
RowStep(row) ==
  \/ served'[row] = served[row]
  \/ \E r \in Requests : Carries(r, row[1], row[2], served[row])'

LEMMA ServeFirstRow ==
  ASSUME Typed, EarlyRaw, NEW r \in Requests, ServeFirst(r), NEW row \in Tracked
  PROVE  RowStep(row)
<1> DEFINE key == AttributedSessionId(req[r].session)
<1>1. PICK v \in ContentFor(r) :
        /\ req[r].pc = "queued" /\ req[r].op = "read"
        /\ served' = [served EXCEPT ![<<key, req[r].file>>] = v]
        /\ req' = [Taken(r, key, v) EXCEPT ![r].pc = "distilling"]
  BY DEF ServeFirst
<1>2. CASE row # <<key, req[r].file>>
  BY <1>1, <1>2 DEF RowStep, Typed, TypeOK, Tracked
<1>3. CASE row = <<key, req[r].file>>
  <2>1. /\ row[1] = key /\ row[2] = req[r].file /\ req[r].file \notin Documents
        /\ served'[row] = v
    BY <1>1, <1>3 DEF Typed, TypeOK, Tracked
  <2>2. v = req[r].sent /\ req[r] \in Calls /\ WellFormed(req[r])
    BY <1>1, <2>1 DEF ContentFor, Typed, TypeOK
  <2>3. req'[r] = [req[r] EXCEPT !.key = key, !.content = v, !.pc = "distilling"]
    BY <1>1 DEF Taken, Typed, TypeOK, Calls
  <2>4. req[r].reply = None
    BY <1>1, <2>2 DEF WellFormed, Staged
  <2>5. req[r].answer # None => Brings(req[r].answer, v)
    BY <1>1, <2>2 DEF EarlyRaw, Brings
  <2>6. /\ req'[r].op = "read" /\ req'[r].key = row[1] /\ req'[r].file = row[2]
        /\ req'[r].content = served'[row] /\ req'[r].answer = req[r].answer
        /\ req'[r].reply = None
    <3>1. req[r] \in Calls /\ req[r].op = "read"
      BY <1>1, <2>2
    <3> HIDE DEF key
    <3>2. /\ req'[r].op = "read" /\ req'[r].key = key /\ req'[r].file = req[r].file
          /\ req'[r].content = v /\ req'[r].answer = req[r].answer
          /\ req'[r].reply = req[r].reply
      BY <2>3, <3>1 DEF Calls
    <3> QED BY <2>1, <2>4, <3>2
  <2>7. Carries(r, row[1], row[2], served[row])'
    BY <2>1, <2>5, <2>6 DEF Carries, Answered, Brings
  <2> QED BY <2>7 DEF RowStep
<1> QED BY <1>2, <1>3

LEMMA ServeAgainRow ==
  ASSUME Typed, EarlyRaw, NEW r \in Requests, ServeAgain(r), NEW row \in Tracked
  PROVE  RowStep(row)
<1> DEFINE key == AttributedSessionId(req[r].session)
           prior == served[<<key, req[r].file>>]
           mode(v) == IF prior = v THEN "unchanged" ELSE "diff"
           a(v) == Answer(mode(v), v, prior, None)
           reqs(v) == Taken(r, key, v)
<1>1. PICK v \in ContentFor(r) :
        /\ req[r].pc = "queued" /\ req[r].op = "read"
        /\ served' = [served EXCEPT ![<<key, req[r].file>>] = v]
        /\ AuditAndRespond(reqs(v), r, Event(r, mode(v), <<key, req[r].file>>), a(v))
  BY DEF ServeAgain
<1>2. Begun(req[r])
  BY DEF Typed, WellFormed
<1>3. key \in Keys /\ v \in Versions
  BY <1>1, <1>2, KeyType DEF Typed, Begun, ContentFor
<1>4. CASE row # <<key, req[r].file>>
  BY <1>1, <1>4 DEF RowStep, Typed, TypeOK, Tracked
<1>5. CASE row = <<key, req[r].file>> /\ prior = v
  BY <1>1, <1>5 DEF RowStep, Typed, TypeOK, Tracked
<1>6. CASE row = <<key, req[r].file>> /\ prior # v
  <2>1. /\ row[1] = key /\ row[2] = req[r].file /\ req[r].file \notin Documents
        /\ served'[row] = v
    BY <1>1, <1>6 DEF Typed, TypeOK, Tracked
  <2>2. v = req[r].sent /\ req[r] \in Calls /\ WellFormed(req[r])
    BY <1>1, <2>1 DEF ContentFor, Typed, TypeOK
  <2>3. prior \in Versions \cup {None}
    BY <1>2, <1>3, <1>1 DEF Typed, TypeOK, Begun
  <2>4. a(v) \in Answers /\ a(v).form = "diff" /\ a(v).version = v
    <3>1. mode(v) = "diff"
      BY <1>6
    <3>2. "diff" \in Forms
      BY DEF Forms, Delta
    <3>3. Answer("diff", v, prior, None) \in Answers
      BY <1>3, <2>3, <3>2, AnswerType
    <3> QED BY <3>1, <3>3 DEF Answer
  <2>5. /\ reqs(v) \in [Requests -> Calls]
        /\ reqs(v)[r].key = key /\ reqs(v)[r].content = v
        /\ reqs(v)[r].answer = req[r].answer /\ reqs(v)[r].op = "read"
        /\ reqs(v)[r].reply = req[r].reply /\ reqs(v)[r].file = req[r].file
    <3>1. reqs(v)[r] = [req[r] EXCEPT !.key = key, !.content = v]
      BY DEF Taken, Typed, TypeOK
    <3>2. reqs(v) \in [Requests -> Calls]
      BY <1>1, <1>3, <2>2, TakenShape
    <3> QED BY <1>1, <2>2, <3>1, <3>2 DEF Calls
  <2>6. /\ req'[r].answer = req[r].answer
        /\ req'[r].reply # None => Brings(req'[r].reply, v) \/ req'[r].reply.form = "error"
    <3>1. req[r].reply = None
      BY <1>1, <2>2 DEF WellFormed, Staged
    <3>2. Failed.form = "error" /\ Brings(a(v), v)
      BY <2>4 DEF Failed, Answer, Brings
    <3> HIDE DEF a, reqs, key, prior, mode
    <3> QED BY <1>1, <2>4, <2>5, <3>1, <3>2, RespondReplies
  <2>7. /\ req'[r].key = key /\ req'[r].content = v /\ req'[r].op = "read"
        /\ req'[r].file = req[r].file
    <3>1. req[r].pc # "unused" /\ reqs(v)[r] \in Calls
      BY <1>1, <2>5
    <3>2. \/ req' = Closed(reqs(v))
          \/ \E b : req' = Replied(reqs(v), r, b)
      BY <1>1, RespondCases
    <3>3. ASSUME req' = Closed(reqs(v))
          PROVE  /\ req'[r].key = key /\ req'[r].content = v /\ req'[r].op = "read"
                 /\ req'[r].file = req[r].file
      <4>1. req'[r] = [reqs(v)[r] EXCEPT !.pc = "closed", !.reply = None]
        BY <2>5, <3>1, <3>3, ClosedAt DEF Made
      <4> HIDE DEF a, reqs, key, prior, mode
      <4> QED BY <2>5, <3>1, <4>1 DEF Calls
    <3>4. ASSUME NEW b, req' = Replied(reqs(v), r, b)
          PROVE  /\ req'[r].key = key /\ req'[r].content = v /\ req'[r].op = "read"
                 /\ req'[r].file = req[r].file
      <4> HIDE DEF a, reqs, key, prior, mode
      <4> QED BY <2>5, <3>1, <3>4 DEF Replied, Calls
    <3> QED BY <3>2, <3>3, <3>4
  <2>8. req[r].answer # None => Brings(req[r].answer, v)
    BY <1>1, <2>2 DEF EarlyRaw, Brings
  <2>9. Carries(r, row[1], row[2], served[row])'
    <3> HIDE DEF a, reqs, key, prior, mode
    <3> QED BY <2>1, <2>6, <2>7, <2>8 DEF Carries, Answered, Brings
  <2> QED BY <2>9 DEF RowStep
<1> QED BY <1>4, <1>5, <1>6

LEMMA NextRow ==
  ASSUME Typed, EarlyRaw, [Next]_vars, NEW row \in Tracked
  PROVE  RowStep(row)
<1>1. UNCHANGED served => RowStep(row)
  BY DEF RowStep
<1>2. ASSUME NEW r \in Requests, Client(r) PROVE RowStep(row)
  BY <1>1, <1>2 DEF Client, CallRead, CallRun, CallZoom, Call, Receive, GiveUp, store
<1>3. ASSUME NEW r \in Requests, Handler(r) PROVE RowStep(row)
  BY <1>1, <1>3, ServeFirstRow, ServeAgainRow
     DEF Handler, StartDistill, FinishDistill, DistillThrows, ZoomById, ZoomByRef,
         ZoomMisses, store
<1> QED BY <1>1, <1>2, <1>3 DEF Next, Notify, Stop, Start, vars, store

(* Every step keeps the ground.                                            *)
LEMMA GroundedStep ==
  ASSUME Grounded, [Next]_vars
  PROVE  Grounded'
<1>1. Typed /\ Typed' /\ Steps /\ NewReplies /\ NewAnswers
  BY NextTyped, NextReplies DEF Grounded
<1>2. EarlyRaw'
  <2> SUFFICES ASSUME NEW q \in Requests,
                      req'[q].pc = "queued", req'[q].op = "read", req'[q].answer # None
               PROVE  req'[q].answer.form = "raw" /\ req'[q].answer.version = req'[q].sent
    BY DEF EarlyRaw
  <2>1. WellFormed(req[q]) /\ Follows(req[q], req'[q])
    BY <1>1 DEF Typed, Steps
  <2>2. req[q].reply = None
    BY <2>1 DEF WellFormed, Staged, Follows
  <2>3. CASE req[q].pc = "unused"
    BY <1>1, <2>1, <2>2, <2>3 DEF NewAnswers, WellFormed, Begun
  <2>4. CASE req[q].pc = "queued"
    <3>1. req[q].op = "read" /\ req'[q].sent = req[q].sent
      BY <2>1, <2>4 DEF Follows
    <3>2. Fallback(q).form = "raw" /\ Fallback(q).version = req[q].sent
      BY <3>1 DEF Fallback, Answer
    <3> QED BY <1>1, <2>2, <2>4, <3>1, <3>2 DEF NewAnswers, Grounded, EarlyRaw
  <2> QED BY <2>1, <2>3, <2>4 DEF Follows
<1>3. RowsGrounded'
  <2> SUFFICES ASSUME NEW row \in Tracked, served'[row] # None
               PROVE  \E q \in Requests : Carries(q, row[1], row[2], served[row])'
    BY DEF RowsGrounded
  <2>1. RowStep(row)
    BY NextRow DEF Grounded
  <2>2. CASE served'[row] = served[row]
    <3>1. PICK q \in Requests : Carries(q, row[1], row[2], served[row])
      BY <2>2 DEF Grounded, RowsGrounded
    <3>2. row[1] \in Keys /\ row[2] \in Files \ Documents
      BY DEF Tracked
    <3>3. PICK b : b = served[row]
      OBVIOUS
    <3>4. Carries(q, row[1], row[2], b)'
      BY <1>1, <3>1, <3>2, <3>3, CarriesStays
    <3> QED BY <2>2, <3>3, <3>4
  <2> QED BY <2>1, <2>2 DEF RowStep
<1>4. ASSUME NEW r \in Requests, NEW a, Leans(r, a), req[r].pc # "unused"
      PROVE  Leans(r, a)'
  <2> SUFFICES ASSUME a # None, a.form \in Delta, req'[r].file \notin Documents
               PROVE  /\ req'[r].key \in Keys /\ req'[r].file \in Files
                      /\ \E q \in Requests \ {r} : Carries(q, req[r].key, req[r].file, a.base)'
    BY DEF Leans
  <2>1. req'[r].file = req[r].file
    BY <1>1, <1>4 DEF Steps, Follows
  <2>2. /\ req[r].key \in Keys /\ req[r].file \in Files \ Documents
    BY <1>4, <2>1 DEF Leans
  <2>3. PICK q \in Requests \ {r} : Carries(q, req[r].key, req[r].file, a.base)
    BY <1>4, <2>1 DEF Leans
  <2>4. req'[r].key = req[r].key
    BY <1>1, <2>2, NoneAssumption DEF Steps, Follows
  <2>5. PICK key \in Keys, path \in Files \ Documents : key = req[r].key /\ path = req[r].file
    BY <2>2
  <2>6. Carries(q, key, path, a.base)'
    BY <1>1, <2>3, <2>5, CarriesStays
  <2> QED BY <2>1, <2>2, <2>4, <2>5, <2>6
<1>5. ASSUME NEW r \in Requests, NEW a, Given(r, a), a = req'[r].reply
      PROVE  Leans(r, a)'
  <2> SUFFICES ASSUME a # None, a.form \in Delta, req'[r].file \notin Documents
               PROVE  /\ req'[r].key \in Keys /\ req'[r].file \in Files
                      /\ \E q \in Requests \ {r} : Carries(q, req[r].key, req[r].file, a.base)'
    BY DEF Leans
  <2>1. req'[r].file = req[r].file /\ req[r].file \in Files
    BY <1>1, <1>5 DEF Given, GivenRead, Steps, Follows, Typed, WellFormed, Begun
  <2>2. PICK key \in Keys, path \in Files \ Documents :
          key = req'[r].key /\ path = req'[r].file
    BY <1>5, <2>1 DEF Given, GivenRead
  <2>3. a.base = served[<<key, path>>] /\ a.base # None /\ req[r].key = None
    BY <1>5, <2>1, <2>2 DEF Given, GivenRead
  <2>4. PICK q \in Requests : Carries(q, key, path, a.base)
    <3>1. <<key, path>> \in Tracked
      BY DEF Tracked
    <3> QED BY <2>3, <3>1 DEF Grounded, RowsGrounded
  <2>5. q # r
    BY <2>3, <2>4, NoneAssumption DEF Carries
  <2>6. Carries(q, key, path, a.base)'
    BY <1>1, <2>4, CarriesStays
  <2> QED BY <2>1, <2>2, <2>5, <2>6
<1>6. ASSUME NEW r \in Requests PROVE Leans(r, req[r].reply)'
  <2>1. PICK a : a = req'[r].reply
    OBVIOUS
  <2>2. CASE a # None /\ a = req[r].reply
    <3>1. req[r].pc # "unused" /\ Leans(r, a)
      BY <1>1, <2>2 DEF Grounded, Leaning, Typed, WellFormed, Staged
    <3> QED BY <1>4, <2>1, <3>1 DEF Leans
  <2>3. CASE Given(r, a)
    BY <1>5, <2>1, <2>3 DEF Leans
  <2>4. CASE a = None
    BY <2>1, <2>4 DEF Leans
  <2> QED BY <1>1, <2>1, <2>2, <2>3, <2>4 DEF NewReplies
<1>7. ASSUME NEW r \in Requests PROVE Leans(r, req[r].answer)'
  <2>1. PICK a : a = req'[r].answer
    OBVIOUS
  <2>2. CASE a # None /\ a = req[r].answer
    <3>1. req[r].pc # "unused" /\ Leans(r, a)
      BY <1>1, <2>2 DEF Grounded, Leaning, Typed, WellFormed, Begun
    <3> QED BY <1>4, <2>1, <3>1 DEF Leans
  <2>3. CASE a = Fallback(r)
    BY <2>1, <2>3, FallbackSound DEF Leans, Booked
  <2>4. CASE req[r].reply # None /\ a = req[r].reply
    <3>1. req[r].pc # "unused" /\ Leans(r, a)
      BY <1>1, <2>4 DEF Grounded, Leaning, Typed, WellFormed, Staged
    <3> QED BY <1>4, <2>1, <3>1 DEF Leans
  <2>5. CASE a = None
    BY <2>1, <2>5 DEF Leans
  <2> QED BY <1>1, <2>1, <2>2, <2>3, <2>4, <2>5 DEF NewAnswers
<1> QED BY <1>1, <1>2, <1>3, <1>6, <1>7 DEF Grounded, Leaning

(* Under any schedule of crashes, time-outs and failed handlers, a diff or *)
(* an "unchanged" reference to a file leans on a content that a call filed *)
(* under the same session key has brought to its caller or will bring.     *)
THEOREM GroundSafe == Spec => []ReferencesGrounded
<1>1. Init => Grounded
  <2>1. /\ Blank.pc = "unused" /\ Blank.reply = None /\ Blank.answer = None
    BY DEF Blank
  <2> QED BY <2>1, InitTyped
      DEF Init, Grounded, EarlyRaw, RowsGrounded, Tracked, Leaning, Leans
<1>2. Grounded => ReferencesGrounded
  BY DEF Grounded, Leaning, Leans, ReferencesGrounded
<1> QED BY <1>1, <1>2, GroundedStep, PTL DEF Spec

(***************************************************************************)
(* The trail books no call twice.                                          *)
(***************************************************************************)
Working(q) == req[q].pc \in {"queued", "distilling"}

Finished(q) == req[q].pc \in {"replied", "closed"}

(* A call with an event is over: its handler will not come back to it.     *)
BookedOver == \A e \in auditFile : Finished(e.req)

Bookkept == Typed /\ BookedOnce /\ BookedOver

(* An event is new at the end of the handler it is about, or not at all.   *)
NewEvents ==
  \/ auditFile' = auditFile
  \/ \E e : /\ e.req \in Requests /\ auditFile' = auditFile \cup {e}
             /\ Working(e.req) /\ Finished(e.req)'

LEMMA RespondBooks ==
  ASSUME NEW reqs \in [Requests -> Calls], NEW r \in Requests, NEW kind, NEW subject,
         NEW a, AuditAndRespond(reqs, r, Event(r, kind, subject), a), Working(r)
  PROVE  NewEvents
<1> DEFINE e == Event(r, kind, subject)
<1>1. e.req = r
  BY DEF Event
<1>2. auditFile' = auditFile \/ auditFile' = auditFile \cup {e}
  <2>1. PICK n \in 0..2 : Written(e, n)
    BY RespondCases
  <2> QED BY <2>1 DEF Written
<1>3. Finished(r)'
  <2>1. reqs[r] \in Calls
    OBVIOUS
  <2>2. CASE req' = Closed(reqs)
    BY <2>1, <2>2, ClosedAt DEF Calls, Made, Working, Finished
  <2>3. ASSUME NEW b, req' = Replied(reqs, r, b) PROVE Finished(r)'
    BY <2>1, <2>3 DEF Replied, Calls, Finished
  <2> QED BY <2>2, <2>3, RespondCases
<1> QED BY <1>1, <1>2, <1>3 DEF NewEvents

LEMMA NextBooks ==
  ASSUME Typed, [Next]_vars
  PROVE  NewEvents
<1>1. UNCHANGED trail => NewEvents
  BY DEF trail, NewEvents
<1>2. ASSUME NEW r \in Requests, Client(r) PROVE NewEvents
  BY <1>1, <1>2 DEF Client, CallRead, CallRun, CallZoom, Call, Receive, GiveUp
<1>3. ASSUME NEW r \in Requests, Handler(r) PROVE NewEvents
  <2>1. req \in [Requests -> Calls]
    BY DEF Typed, TypeOK
  <2>2. CASE ServeFirst(r) \/ StartDistill(r) \/ DistillThrows(r) \/ ZoomMisses(r)
    BY <1>1, <2>2 DEF ServeFirst, StartDistill, DistillThrows, ZoomMisses
  <2>3. CASE ServeAgain(r)
    <3> DEFINE key == AttributedSessionId(req[r].session)
    <3>1. PICK v \in ContentFor(r) :
            /\ req[r].pc = "queued" /\ req[r].op = "read"
            /\ \E mode, a : AuditAndRespond(Taken(r, key, v), r,
                               Event(r, mode, <<key, req[r].file>>), a)
      BY <2>3 DEF ServeAgain
    <3>2. key \in Keys /\ v \in Versions
      BY <3>1, KeyType DEF Typed, WellFormed, Begun, ContentFor
    <3>3. req[r].file \notin Documents => v = req[r].sent
      BY DEF ContentFor
    <3>4. Taken(r, key, v) \in [Requests -> Calls] /\ Working(r)
      BY <3>1, <3>2, <3>3, TakenShape DEF Working
    <3> HIDE DEF key
    <3> QED BY <3>1, <3>4, RespondBooks
  <2>4. CASE FinishDistill(r)
    <3>1. PICK i, kind, a : AuditAndRespond(req, r, Event(r, kind, i), a)
      BY <2>4 DEF FinishDistill
    <3>2. Working(r)
      BY <2>4 DEF FinishDistill, Working
    <3> QED BY <2>1, <3>1, <3>2, RespondBooks
  <2>5. CASE ZoomById(r) \/ ZoomByRef(r)
    <3>1. PICK subject, a : AuditAndRespond(req, r, Event(r, "zoom", subject), a)
      BY <2>5 DEF ZoomById, ZoomByRef
    <3>2. Working(r)
      BY <2>5 DEF ZoomById, ZoomByRef, Working
    <3> QED BY <2>1, <3>1, <3>2, RespondBooks
  <2> QED BY <1>3, <2>2, <2>3, <2>4, <2>5 DEF Handler
<1> QED BY <1>1, <1>2, <1>3 DEF Next, Notify, Stop, Start, vars

LEMMA BookkeptStep ==
  ASSUME Bookkept, [Next]_vars
  PROVE  Bookkept'
<1>1. Typed /\ Typed' /\ Steps /\ NewEvents
  BY NextTyped, NextBooks DEF Bookkept
<1>2. \A q \in Requests : Finished(q) => Finished(q)' /\ ~Working(q)
  BY <1>1 DEF Steps, Follows, Finished, Working
<1>3. \A e \in auditFile : e.req \in Requests /\ Finished(e.req)
  BY DEF Bookkept, BookedOver, Typed, TypeOK
<1>4. CASE auditFile' = auditFile
  BY <1>1, <1>2, <1>3, <1>4 DEF Bookkept, BookedOnce, BookedOver
<1>5. ASSUME NEW r \in Requests, NEW e, e.req = r, auditFile' = auditFile \cup {e},
             Working(r), Finished(r)'
      PROVE  BookedOnce' /\ BookedOver'
  <2>1. \A d \in auditFile : d.req # r /\ Finished(d.req)'
    BY <1>2, <1>3, <1>5
  <2>2. BookedOver'
    BY <1>5, <2>1 DEF BookedOver
  <2>3. BookedOnce'
    BY <1>5, <2>1 DEF Bookkept, BookedOnce
  <2> QED BY <2>2, <2>3
<1> QED BY <1>1, <1>4, <1>5 DEF NewEvents, Bookkept

(* Crashes, time-outs and failed writes included, no call is booked twice  *)
(* in audit.jsonl: a first serve leaves its distill event alone.           *)
THEOREM BookedOnceSafe == Spec => []BookedOnce
<1>1. Init => Bookkept
  BY InitTyped DEF Init, Bookkept, BookedOnce, BookedOver
<1>2. Bookkept => BookedOnce
  BY DEF Bookkept
<1> QED BY <1>1, <1>2, BookkeptStep, PTL DEF Spec

(***************************************************************************)
(* References that came with a distillate stay recoverable.                *)
(***************************************************************************)
(* A read in hand has a row in served_files, and a distillate a handle.    *)
Filed(q) == req[q].op = "read" /\ req[q].key # None =>
  req[q].key \in Keys /\ served[<<req[q].key, req[q].file>>] # None

Handled(q, a) ==
  a # None /\ a.form \in Full => a.id # None /\ req[q].key # None

Referable ==
  /\ Safe
  /\ \A q \in Requests : /\ Filed(q)
                         /\ Handled(q, req[q].reply) /\ Handled(q, req[q].answer)

(* A row of served_files is replaced, never removed.                       *)
RowsStay == \A row \in Keys \X Files : served[row] # None => served'[row] # None

LEMMA NextRows ==
  ASSUME Typed, [Next]_vars
  PROVE  RowsStay
<1>1. UNCHANGED served => RowsStay
  BY DEF RowsStay
<1>2. ASSUME NEW r \in Requests, Client(r) PROVE RowsStay
  BY <1>1, <1>2 DEF Client, CallRead, CallRun, CallZoom, Call, Receive, GiveUp, store
<1>3. ASSUME NEW r \in Requests, ServeFirst(r) \/ ServeAgain(r) PROVE RowsStay
  <2>1. WellFormed(req[r]) /\ req[r].op = "read"
    BY <1>3 DEF Typed, ServeFirst, ServeAgain
  <2> DEFINE row == <<AttributedSessionId(req[r].session), req[r].file>>
  <2>2. PICK v \in ContentFor(r) : served' = [served EXCEPT ![row] = v]
    BY <1>3 DEF ServeFirst, ServeAgain
  <2> HIDE DEF row
  <2>3. v # None
    BY <2>1, NoneAssumption DEF ContentFor, WellFormed, Begun
  <2> QED BY <2>2, <2>3 DEF RowsStay, Typed, TypeOK
<1>4. ASSUME NEW r \in Requests, Handler(r) PROVE RowsStay
  BY <1>1, <1>3, <1>4 DEF Handler, StartDistill, FinishDistill, DistillThrows, ZoomById,
     ZoomByRef, ZoomMisses, store
<1> QED BY <1>1, <1>2, <1>4 DEF Next, Notify, Stop, Start, vars, store

(* A read is filed under a key by the step that writes its row.            *)
NewKeys == \A q \in Requests :
  \/ req'[q].key = req[q].key
  \/ req[q].op = "run"
  \/ req[q].pc # "unused" /\ served'[<<req'[q].key, req[q].file>>] # None

(* The end of a handler files the call as it was.                          *)
LEMMA RespondKeys ==
  ASSUME NEW reqs \in [Requests -> Calls], NEW r \in Requests, NEW e, NEW a,
         AuditAndRespond(reqs, r, e, a), NEW q \in Requests
  PROVE  req'[q].key = reqs[q].key
<1>1. reqs[q] \in Calls
  OBVIOUS
<1>2. CASE req' = Closed(reqs)
  BY <1>1, <1>2, ClosedAt DEF Calls
<1>3. ASSUME NEW b, req' = Replied(reqs, r, b) PROVE req'[q].key = reqs[q].key
  BY <1>1, <1>3 DEF Replied, Calls
<1> QED BY <1>2, <1>3, RespondCases

LEMMA ServeKeys ==
  ASSUME Typed, NEW r \in Requests, ServeFirst(r) \/ ServeAgain(r)
  PROVE  NewKeys
<1> DEFINE key == AttributedSessionId(req[r].session)
           reqs(v) == Taken(r, key, v)
<1>1. PICK v \in ContentFor(r) :
        /\ req[r].pc = "queued" /\ req[r].op = "read"
        /\ served' = [served EXCEPT ![<<key, req[r].file>>] = v]
        /\ \/ req' = [reqs(v) EXCEPT ![r].pc = "distilling"]
           \/ \E e, a : AuditAndRespond(reqs(v), r, e, a)
  BY DEF ServeFirst, ServeAgain
<1>2. Begun(req[r])
  BY DEF Typed, WellFormed
<1>3. key \in Keys /\ v \in Versions /\ req[r].file \in Files
  BY <1>1, <1>2, KeyType DEF Typed, Begun, ContentFor
<1>4. req[r].file \notin Documents => v = req[r].sent
  BY DEF ContentFor
<1>5. reqs(v) \in [Requests -> Calls] /\ reqs(v)[r].key = key
  BY <1>1, <1>3, <1>4, TakenShape
<1>6. \A q \in Requests : q # r => reqs(v)[q] = req[q]
  BY <1>1, <1>3, <1>4, TakenShape
<1>7. served'[<<key, req[r].file>>] # None /\ req[r].pc # "unused"
  BY <1>1, <1>3, NoneAssumption DEF Typed, TypeOK
<1>8. ASSUME NEW q \in Requests PROVE req'[q].key = reqs(v)[q].key
  <2>1. reqs(v)[q] \in Calls
    BY <1>5
  <2> HIDE DEF key, reqs
  <2>2. CASE req' = [reqs(v) EXCEPT ![r].pc = "distilling"]
    BY <1>5, <2>1, <2>2 DEF Calls
  <2> QED BY <1>1, <1>5, <2>2, RespondKeys
<1> HIDE DEF key, reqs
<1> QED BY <1>5, <1>6, <1>7, <1>8 DEF NewKeys

LEMMA NextKeys ==
  ASSUME Typed, [Next]_vars
  PROVE  NewKeys
<1>1. req \in [Requests -> Calls] /\ \A q \in Requests : WellFormed(req[q])
  BY DEF Typed, TypeOK
<1>2. ASSUME \A q \in Requests : req'[q].key = req[q].key PROVE NewKeys
  BY <1>2 DEF NewKeys
<1>3. ASSUME NEW r \in Requests, Client(r) PROVE NewKeys
  <2>1. ASSUME NEW call, Call(r, call), call \in Calls, call.key = None PROVE NewKeys
    <3>1. req[r].key = None
      BY <1>1, <2>1 DEF Call, Made, WellFormed, Begun
    <3>2. \A q \in Requests : req'[q].key = req[q].key
      BY <1>1, <2>1, <3>1 DEF Call, Calls
    <3> QED BY <1>2, <3>2
  <2>2. CASE CallRead(r) \/ CallRun(r)
    BY <2>1, <2>2 DEF CallRead, CallRun, Blank, Calls
  <2>3. CASE CallZoom(r)
    <3>1. \A q \in Requests : req[q].session \in Sessions \cup {None}
      BY <1>1 DEF Calls
    <3> QED BY <2>1, <2>3, <3>1 DEF CallZoom, Blank, Calls
  <2>4. CASE Receive(r) \/ GiveUp(r)
    <3>1. \A q \in Requests : req'[q].key = req[q].key
      BY <1>1, <2>4 DEF Receive, GiveUp, Calls
    <3> QED BY <1>2, <3>1
  <2> QED BY <1>3, <2>2, <2>3, <2>4 DEF Client
<1>4. ASSUME NEW r \in Requests, Handler(r) PROVE NewKeys
  <2>1. CASE FinishDistill(r) \/ ZoomById(r) \/ ZoomByRef(r)
    <3>1. PICK e, a : AuditAndRespond(req, r, e, a)
      BY <2>1 DEF FinishDistill, ZoomById, ZoomByRef
    <3> QED BY <1>1, <1>2, <3>1, RespondKeys
  <2>2. CASE StartDistill(r)
    BY <1>1, <2>2 DEF StartDistill, Taken, NewKeys, Calls
  <2>3. CASE DistillThrows(r) \/ ZoomMisses(r)
    <3>1. PICK a : req' = Replied(req, r, a)
      BY <2>3 DEF DistillThrows, ZoomMisses
    <3>2. \A q \in Requests : req'[q].key = req[q].key
      BY <1>1, <3>1 DEF Replied, Calls
    <3> QED BY <1>2, <3>2
  <2> QED BY <1>4, <2>1, <2>2, <2>3, ServeKeys DEF Handler
<1>5. CASE Stop
  <2>1. ASSUME NEW q \in Requests PROVE req'[q].key = req[q].key
    <3>1. req[q] \in Calls
      BY <1>1
    <3> QED BY <1>1, <1>5, <3>1, ClosedAt DEF Stop, Calls
  <2> QED BY <1>2, <2>1
<1>6. UNCHANGED req => NewKeys
  BY <1>2
<1> QED BY <1>3, <1>4, <1>5, <1>6 DEF Next, Notify, Start, vars

LEMMA ReferableStep ==
  ASSUME Referable, [Next]_vars
  PROVE  Referable'
<1>1. /\ Typed /\ Typed' /\ Safe' /\ Steps /\ RowsStay /\ NewKeys
      /\ NewReplies /\ NewAnswers
  BY SafeStep, NextTyped, NextRows, NextKeys, NextReplies DEF Referable, Safe
<1>2. ASSUME NEW q \in Requests PROVE Filed(q)'
  <2> SUFFICES ASSUME req'[q].op = "read", req'[q].key # None
               PROVE  /\ req'[q].key \in Keys
                      /\ served'[<<req'[q].key, req'[q].file>>] # None
    BY DEF Filed
  <2>1. Follows(req[q], req'[q]) /\ WellFormed(req[q]) /\ WellFormed(req'[q])
    BY <1>1 DEF Typed, Steps
  <2>2. req'[q].key \in Keys
    BY <1>1 DEF Typed, TypeOK, Calls
  <2>3. req'[q].pc # "unused"
    BY <2>1 DEF WellFormed, Begun
  <2>4. CASE req[q].key # None
    <3>1. req[q].pc # "unused"
      BY <2>1, <2>4 DEF WellFormed, Begun
    <3>2. /\ req'[q].key = req[q].key /\ req'[q].file = req[q].file
          /\ req[q].op = "read" /\ req[q].file \in Files
      BY <2>1, <2>4, <3>1 DEF Follows, WellFormed, Begun
    <3>3. served[<<req[q].key, req[q].file>>] # None
      BY <2>4, <3>2 DEF Referable, Filed
    <3>4. <<req[q].key, req[q].file>> \in Keys \X Files
      BY <2>2, <3>2
    <3>5. served'[<<req[q].key, req[q].file>>] # None
      BY <1>1, <3>3, <3>4 DEF RowsStay
    <3> QED BY <2>2, <3>2, <3>5
  <2>5. CASE req[q].key = None
    <3>1. req[q].pc # "unused"
      BY <1>1, <2>1, <2>5, NoneAssumption DEF Steps, Fresh, NewKeys, WellFormed, Begun
    <3>2. req'[q].file = req[q].file /\ req[q].op = "read"
      BY <2>1, <3>1 DEF Follows
    <3> QED BY <1>1, <2>2, <2>5, <3>2 DEF NewKeys
  <2> QED BY <2>4, <2>5
<1>3. ASSUME NEW q \in Requests, NEW a, Handled(q, a) PROVE Handled(q, a)'
  <2>1. req[q].key # None => req'[q].key # None
    BY <1>1 DEF Steps, Follows
  <2> QED BY <1>3, <2>1 DEF Handled
<1>4. ASSUME NEW q \in Requests, NEW a, Given(q, a) PROVE Handled(q, a)'
  <2>1. req[q].key # None => req'[q].key # None
    BY <1>1 DEF Steps, Follows
  <2> QED BY <1>4, <2>1 DEF Given, GivenHandle, Handled
<1>5. ASSUME NEW q \in Requests PROVE Handled(q, req[q].reply)'
  <2>1. PICK a : a = req'[q].reply
    OBVIOUS
  <2>2. Handled(q, a)'
    BY <1>1, <1>3, <1>4, <2>1 DEF NewReplies, Referable, Handled
  <2> QED BY <2>1, <2>2 DEF Handled
<1>6. ASSUME NEW q \in Requests PROVE Handled(q, req[q].answer)'
  <2>1. PICK a : a = req'[q].answer
    OBVIOUS
  <2>2. Handled(q, Fallback(q))
    BY FallbackSound DEF Handled, Booked
  <2>3. Handled(q, a)
    BY <1>1, <2>1, <2>2 DEF NewAnswers, Referable
  <2> QED BY <1>3, <2>1, <2>3 DEF Handled
<1> QED BY <1>1, <1>2, <1>5, <1>6 DEF Referable

(* The store resolves F-id@hash of a distillate as long as its artifact is *)
(* among the RefLimit newest of its path.                                  *)
LEMMA ReferableRecovers ==
  ASSUME Referable
  PROVE  FullRefsRecoverable
<1> SUFFICES ASSUME NEW r \in Requests, req[r].answer # None, req[r].op = "read",
                    req[r].answer.form \in Full
             PROVE  LET a == req[r].answer
                    IN  \/ ResolveFileRef(req[r].file, a.version)
                        \/ artifacts[a.id].nth + RefLimit < Cardinality(RowsOf(req[r].file))
  BY DEF FullRefsRecoverable
<1> DEFINE a == req[r].answer
           path == req[r].file
<1>1. Typed /\ Filed(r) /\ Handled(r, a) /\ Backed(a, path)
  BY DEF Referable, Safe, Soundness, Sound
<1>2. a.id # None /\ req[r].key \in Keys /\ served[<<req[r].key, path>>] # None
  BY <1>1 DEF Filed, Handled
<1>3. a \in Answers
  BY <1>1 DEF Typed, TypeOK, Calls
<1>4. a.id \in ArtifactIds
  BY <1>2, <1>3 DEF Answers
<1>5. /\ a.id \in RowsOf(path) /\ artifacts[a.id].version = a.version
      /\ artifacts[a.id] \in Rows
  BY <1>1, <1>2, <1>4 DEF Backed, RowsOf, Typed, TypeOK
<1>6. artifacts[a.id].nth \in Nat
  BY <1>5 DEF Rows
<1>7. Cardinality(RowsOf(path)) \in Nat
  <2>1. IsFiniteSet(RowsOf(path))
    BY ArtifactIdsAssumption, FS_Subset DEF RowsOf
  <2> QED BY <2>1, FS_CardinalityType
<1>8. CASE artifacts[a.id].nth + RefLimit >= Cardinality(RowsOf(path))
  BY <1>2, <1>5, <1>8 DEF ResolveFileRef, Found
<1> QED BY <1>6, <1>7, <1>8, RefLimitAssumption

(* A reference that came with a distillate goes on being resolved while    *)
(* newer diffs replace the registry's copy and rows of other calls arrive. *)
THEOREM FullRefsSafe == Spec => []FullRefsRecoverable
<1>1. Init => Referable
  <2>1. Blank.key = None /\ Blank.reply = None /\ Blank.answer = None
    BY DEF Blank
  <2> QED BY <2>1, InitSafe DEF Init, Referable, Filed, Handled
<1> QED BY <1>1, ReferableStep, ReferableRecovers, PTL DEF Spec

=============================================================================
