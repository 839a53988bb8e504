---------------------------- MODULE SessionProofs ----------------------------
(***************************************************************************)
(* Nobody idles who did not decide to, and the receipts add up to what was *)
(* avoided: proved for any number of sessions, files, commands, calls and  *)
(* restarts of the daemon.                                                 *)
(***************************************************************************)
EXTENDS Session, FiniteFacts

-----------------------------------------------------------------------------
(* Types, and what a hook is at. *)

Postures == {"idle", "light", "full"}
Stages == {"probe", "prepare", "notify", "run"}

TypeOK ==
    /\ up \in BOOLEAN
    /\ active \in Sessions \cup {None}
    /\ repo \in [size : 0..2, knows : BOOLEAN]
    /\ fresh \subseteq Files
    /\ record \in {None} \cup [session : Sessions, posture : Postures]
    /\ sess \in [Sessions -> [at : {"closed", "assessed", "open"},
                              posture : Postures \cup {None}, written : BOOLEAN]]
    /\ call \in [Sessions -> {Idle} \cup [at : Stages, c : Calls, prepared : BOOLEAN]]
    /\ orphans \subseteq [file : Files \cup {None}, by : Sessions]
    /\ trail \in [Sessions -> [distill : Nat, mirror : Nat, prepared : Nat, raw : Nat,
                               passthrough : Nat]]
    /\ real \in [Sessions -> Nat]
    /\ left \in [calls : Nat, starts : Nat, changes : Nat]
    /\ past \in [idled : SUBSET (Sessions \X (Postures \cup {None}) \X BOOLEAN),
                 under : Nat, over : Nat]

\* A hook prepares, or has had prepared, what it wants to serve from the mirror,
\* and announces that or a wrapped command.
Staged(k) ==
    /\ k.at = "prepare" => Wanted(k.c) = "mirror"
    /\ k.at = "notify" => Wanted(k.c) \in {"mirror", "wrap"} /\ (k.prepared => Wanted(k.c) = "mirror")
InStage == \A s \in Sessions : Staged(call[s])

\* The record, if it is of a session whose last start wrote it, says what that
\* start decided.
Recorded ==
    \A s \in Sessions :
        /\ sess[s].at = "open" => sess[s].posture \in Postures
        /\ sess[s].at = "open" /\ sess[s].written /\ record # None /\ record.session = s
              => sess[s].posture = record.posture

-----------------------------------------------------------------------------
(* The balance that holds while hooks are at work: a build that its hook has *)
(* had answered is booked, and its skeleton not yet read.                    *)

Pending(s) == IF call[s].at = "notify" /\ call[s].prepared THEN 1 ELSE 0
Owed == [s \in Sessions |-> real[s] + Pending(s)]
Balanced == SumOf(Saved, Sessions) + past.under = SumOf(Owed, Sessions) + past.over

IInv == TypeOK /\ InStage /\ Recorded /\ IdleWasDecided /\ Balanced

-----------------------------------------------------------------------------
(* What the helpers of the actions return. *)

LEMMA ReadsWant ==
    ASSUME NEW c \in Calls, Wanted(c) = "mirror"
    PROVE  c.tool = "Read" /\ c.file \in Files
<1>1. c.tool = "Read"
  BY DEF Wanted, Calls
<1> QED BY <1>1 DEF Calls

LEMMA AtWork ==
    ASSUME TypeOK, NEW s \in Sessions, call[s].at # "none"
    PROVE  /\ call[s] \in [at : Stages, c : Calls, prepared : BOOLEAN]
           /\ call[s].c \in Calls /\ call[s].prepared \in BOOLEAN
  BY DEF TypeOK, Idle

LEMMA AttributedIn == ASSUME TypeOK, NEW s \in Sessions PROVE Attributed(s) \in Sessions
  BY DEF TypeOK, Attributed

Kinds == {"distill", "mirror", "prepared", "raw", "passthrough"}

LEMMA AuditedTypes ==
    ASSUME TypeOK, NEW s \in Sessions, NEW kind \in Kinds, Audited(s, kind)
    PROVE  trail' \in [Sessions -> [distill : Nat, mirror : Nat, prepared : Nat, raw : Nat,
                                    passthrough : Nat]]
  BY DEF TypeOK, Audited, Kinds

LEMMA OverTypes ==
    ASSUME TypeOK, InStage, NEW s \in Sessions, Over(s)
    PROVE  /\ call' \in [Sessions -> {Idle} \cup [at : Stages, c : Calls, prepared : BOOLEAN]]
           /\ InStage'
<1>1. /\ call'[s] = Idle
      /\ \A r \in Sessions : r # s => call'[r] = call[r]
      /\ DOMAIN call' = Sessions
  BY DEF TypeOK, Over
<1>2. call' \in [Sessions -> {Idle} \cup [at : Stages, c : Calls, prepared : BOOLEAN]]
  BY DEF TypeOK, Over
<1> QED BY <1>1, <1>2 DEF InStage, Staged, Idle

LEMMA AtTypes ==
    ASSUME TypeOK, InStage, NEW s \in Sessions, NEW step \in Stages, NEW prepared \in BOOLEAN,
           call[s].at # "none", At(s, step, prepared),
           step = "prepare" => Wanted(call[s].c) = "mirror",
           step = "notify" => Wanted(call[s].c) \in {"mirror", "wrap"},
           prepared => Wanted(call[s].c) = "mirror"
    PROVE  /\ call' \in [Sessions -> {Idle} \cup [at : Stages, c : Calls, prepared : BOOLEAN]]
           /\ InStage'
           /\ call'[s].at = step /\ call'[s].prepared = prepared
           /\ \A r \in Sessions : r # s => call'[r] = call[r]
<1>1. call[s] \in [at : Stages, c : Calls, prepared : BOOLEAN]
  BY AtWork
<1>2. /\ call'[s] = [at |-> step, c |-> call[s].c, prepared |-> prepared]
      /\ \A r \in Sessions : r # s => call'[r] = call[r]
      /\ DOMAIN call' = Sessions
  BY <1>1 DEF TypeOK, At
<1>3. call' \in [Sessions -> {Idle} \cup [at : Stages, c : Calls, prepared : BOOLEAN]]
  BY <1>1, <1>2 DEF TypeOK, At
<1> QED BY <1>2, <1>3 DEF InStage, Staged

-----------------------------------------------------------------------------
(* Every step keeps the types and the stages. *)

Typed == TypeOK /\ InStage

LEMMA TypedInit == ASSUME Init PROVE Typed
<1>1. up \in BOOLEAN /\ active \in Sessions \cup {None} /\ fresh \subseteq Files /\ orphans = {}
  BY DEF Init
<1>2. repo \in [size : 0..2, knows : BOOLEAN] /\ record \in {None} \cup [session : Sessions, posture : Postures]
  <2>1. PICK r \in [size : {0, 1}, knows : {FALSE}] : repo = r
    BY DEF Init
  <2>2. r = [size |-> r.size, knows |-> r.knows]
    OBVIOUS
  <2>3. r.size \in 0..2
    OBVIOUS
  <2>4. r.knows \in BOOLEAN
    BY Zenon
  <2>5. record \in {None} \cup [session : Sessions, posture : Postures]
    BY DEF Init
  <2> QED BY <2>1, <2>2, <2>3, <2>4, <2>5
<1>3. sess \in [Sessions -> [at : {"closed", "assessed", "open"},
                             posture : Postures \cup {None}, written : BOOLEAN]]
  BY DEF Init
<1>4. call = [s \in Sessions |-> Idle]
  BY DEF Init
<1>5. /\ trail \in [Sessions -> [distill : Nat, mirror : Nat, prepared : Nat, raw : Nat, passthrough : Nat]]
      /\ real \in [Sessions -> Nat]
  BY DEF Init, Nothing
<1>6. left \in [calls : Nat, starts : Nat, changes : Nat]
  BY SessionAssumption DEF Init
<1>7. past \in [idled : SUBSET (Sessions \X (Postures \cup {None}) \X BOOLEAN), under : Nat, over : Nat]
  <2>1. {} \in SUBSET (Sessions \X (Postures \cup {None}) \X BOOLEAN)
    OBVIOUS
  <2> QED BY <2>1 DEF Init
<1>8. InStage
  BY <1>4 DEF InStage, Staged, Idle
<1> QED BY <1>1, <1>2, <1>3, <1>4, <1>5, <1>6, <1>7, <1>8 DEF Typed, TypeOK

LEMMA PostureIn == ASSUME TypeOK PROVE PostureOf \in Postures
  BY DEF TypeOK, PostureOf, Postures

LEMMA StartTypes ==
    ASSUME Typed, NEW s \in Sessions, Assess(s) \/ Decide(s) PROVE Typed'
<1>1. CASE Assess(s)
  <2>1. left' \in [calls : Nat, starts : Nat, changes : Nat]
    <3>1. left \in [calls : Nat, starts : Nat, changes : Nat]
      BY DEF Typed, TypeOK
    <3>2. left.starts > 0 /\ left' = [left EXCEPT !.starts = @ - 1]
      BY <1>1 DEF Assess
    <3> QED BY <3>1, <3>2
  <2>2. sess' \in [Sessions -> [at : {"closed", "assessed", "open"},
                                posture : Postures \cup {None}, written : BOOLEAN]]
    BY <1>1 DEF Assess, Typed, TypeOK
  <2> QED BY <1>1, <2>1, <2>2 DEF Assess, Typed, TypeOK, InStage
<1>2. CASE Decide(s)
  <2>1. PICK written \in BOOLEAN :
          /\ sess' = [sess EXCEPT ![s].at = "open", ![s].posture = PostureOf, ![s].written = written]
          /\ record' = IF written THEN [session |-> s, posture |-> PostureOf] ELSE record
    BY <1>2 DEF Decide
  <2>2. PostureOf \in Postures
    BY PostureIn DEF Typed
  <2>3. sess' \in [Sessions -> [at : {"closed", "assessed", "open"},
                                posture : Postures \cup {None}, written : BOOLEAN]]
    <3>1. sess[s] \in [at : {"closed", "assessed", "open"}, posture : Postures \cup {None}, written : BOOLEAN]
      BY DEF Typed, TypeOK
    <3>2. sess = [r \in Sessions |-> sess[r]]
      BY DEF Typed, TypeOK
    <3>3. /\ DOMAIN sess' = Sessions /\ \A r \in Sessions : r # s => sess'[r] = sess[r]
          /\ sess'[s] = [sess[s] EXCEPT !.at = "open", !.posture = PostureOf, !.written = written]
      BY <2>1, <3>2
    <3>4. sess'[s] = [at |-> "open", posture |-> PostureOf, written |-> written]
      BY <3>1, <3>3
    <3>5. sess' = [r \in Sessions |-> sess'[r]]
      BY <2>1, <3>2
    <3>6. ASSUME NEW r \in Sessions
          PROVE  sess'[r] \in [at : {"closed", "assessed", "open"}, posture : Postures \cup {None}, written : BOOLEAN]
      <4>1. CASE r = s
        BY <2>2, <3>4, <4>1
      <4>2. CASE r # s
        BY <3>3, <4>2 DEF Typed, TypeOK
      <4> QED BY <4>1, <4>2
    <3> QED BY <3>5, <3>6
  <2>4. record' \in {None} \cup [session : Sessions, posture : Postures]
    BY <2>1, <2>2 DEF Typed, TypeOK
  <2> QED BY <1>2, <2>3, <2>4 DEF Decide, Typed, TypeOK, InStage
<1> QED BY <1>1, <1>2

LEMMA IdledIn ==
    ASSUME Typed, NEW s \in Sessions
    PROVE  Idled(s) \subseteq Sessions \X (Postures \cup {None}) \X BOOLEAN
  BY DEF Typed, TypeOK, Idled

LEMMA PreToolUseTypes ==
    ASSUME Typed, NEW s \in Sessions, NEW c \in Calls, PreToolUse(s, c) PROVE Typed'
<1> DEFINE new == IF Slept(s, c) \/ Wanted(c) \in {"pass", "deny"} THEN Passed(c)
                  ELSE [at |-> "probe", c |-> c, prepared |-> FALSE]
<1>1. new \in {Idle} \cup [at : Stages, c : Calls, prepared : BOOLEAN] /\ Staged(new)
  BY DEF Passed, Staged, Stages, Idle
<1>2. call' = [call EXCEPT ![s] = new]
  BY DEF PreToolUse
<1>3. left' \in [calls : Nat, starts : Nat, changes : Nat]
  BY DEF PreToolUse, Typed, TypeOK
<1>4. past' \in [idled : SUBSET (Sessions \X (Postures \cup {None}) \X BOOLEAN), under : Nat, over : Nat]
  BY IdledIn DEF PreToolUse, Typed, TypeOK
<1> HIDE DEF new
<1>5. call' \in [Sessions -> {Idle} \cup [at : Stages, c : Calls, prepared : BOOLEAN]] /\ InStage'
  BY <1>1, <1>2 DEF Typed, TypeOK, InStage
<1> QED BY <1>3, <1>4, <1>5 DEF PreToolUse, Typed, TypeOK

LEMMA UnderTypes ==
    ASSUME TypeOK, NEW few,
           \/ past' = [past EXCEPT !.under = @ + IF few THEN 1 ELSE 0]
           \/ past' = [past EXCEPT !.over = @ + IF few THEN 0 ELSE 1]
    PROVE  past' \in [idled : SUBSET (Sessions \X (Postures \cup {None}) \X BOOLEAN), under : Nat, over : Nat]
<1>1. past.under \in Nat /\ past.over \in Nat
  BY DEF TypeOK
<1>2. CASE few
  <2>1. \/ past' = [past EXCEPT !.under = @ + 1]
        \/ past' = [past EXCEPT !.over = @ + 0]
    BY <1>2
  <2> QED BY <1>1, <2>1 DEF TypeOK
<1>3. CASE ~few
  <2>1. \/ past' = [past EXCEPT !.under = @ + 0]
        \/ past' = [past EXCEPT !.over = @ + 1]
    BY <1>3
  <2> QED BY <1>1, <2>1 DEF TypeOK
<1> QED BY <1>2, <1>3

LEMMA ProbeTypes == ASSUME Typed, NEW s \in Sessions, Probe(s) PROVE Typed'
<1>1. call[s].at # "none"
  BY DEF Probe
<1>2. call[s].c \in Calls
  BY <1>1, AtWork DEF Typed
<1>3. call' \in [Sessions -> {Idle} \cup [at : Stages, c : Calls, prepared : BOOLEAN]] /\ InStage'
  <2>1. CASE Over(s)
    BY <2>1, OverTypes DEF Typed
  <2>2. CASE Wanted(call[s].c) = "wrap" /\ At(s, "notify", FALSE)
    BY <1>1, <2>2, AtTypes DEF Typed, Stages
  <2>3. CASE Wanted(call[s].c) = "mirror" /\ At(s, IF call[s].c.file \in fresh THEN "notify" ELSE "prepare", FALSE)
    BY <1>1, <2>3, AtTypes DEF Typed, Stages
  <2> QED BY <2>1, <2>2, <2>3 DEF Probe, Answered
<1> QED BY <1>3 DEF Probe, Typed, TypeOK

\* What preparing, however it ends, does to the trail and the entries.
LEMMA BuiltTypes ==
    ASSUME Typed, NEW f \in Files, NEW by \in Sessions, Built(f, by)
    PROVE  /\ fresh' \subseteq Files
           /\ trail' \in [Sessions -> [distill : Nat, mirror : Nat, prepared : Nat, raw : Nat,
                                       passthrough : Nat]]
<1>1. fresh' \subseteq Files
  BY DEF Built, Typed, TypeOK
<1>2. CASE UNCHANGED trail
  BY <1>1, <1>2 DEF Typed, TypeOK
<1>3. CASE Audited(by, "distill")
  BY <1>1, <1>3, AuditedTypes DEF Typed, Kinds
<1> QED BY <1>2, <1>3 DEF Built

LEMMA RefusedTypes ==
    ASSUME Typed, NEW by \in Sessions, Refused(by)
    PROVE  trail' \in [Sessions -> [distill : Nat, mirror : Nat, prepared : Nat, raw : Nat,
                                    passthrough : Nat]]
<1>1. CASE Audited(by, "passthrough")
  BY <1>1, AuditedTypes DEF Typed, Kinds
<1>2. CASE trail' = [trail EXCEPT ![by].raw = @ + 1, ![by].passthrough = @ + 1]
  BY <1>2 DEF Typed, TypeOK
<1> QED BY <1>1, <1>2 DEF Refused

LEMMA PreparesRead ==
    ASSUME Typed, NEW s \in Sessions, call[s].at = "prepare"
    PROVE  /\ call[s].at # "none" /\ call[s].c \in Calls /\ Wanted(call[s].c) = "mirror"
           /\ call[s].c.file \in Files
<1>1. call[s].c \in Calls /\ Wanted(call[s].c) = "mirror"
  BY AtWork DEF Typed, InStage, Staged
<1> QED BY <1>1, ReadsWant

LEMMA PrepareTypes == ASSUME Typed, NEW s \in Sessions, Prepare(s) PROVE Typed'
<1> DEFINE f == call[s].c.file
<1> DEFINE by == Attributed(s)
<1>1. call[s].at # "none" /\ Wanted(call[s].c) = "mirror" /\ f \in Files /\ by \in Sessions
  BY PreparesRead, AttributedIn DEF Prepare, Typed
<1>2. CASE /\ Built(f, by) /\ At(s, "notify", TRUE)
           /\ past' = [past EXCEPT !.under = @ + IF f \in fresh THEN 1 ELSE 0]
  <2>1. past' \in [idled : SUBSET (Sessions \X (Postures \cup {None}) \X BOOLEAN), under : Nat, over : Nat]
    BY <1>2, UnderTypes DEF Typed
  <2>2. call' \in [Sessions -> {Idle} \cup [at : Stages, c : Calls, prepared : BOOLEAN]] /\ InStage'
    BY <1>1, <1>2, AtTypes DEF Typed, Stages
  <2>3. /\ fresh' \subseteq Files
        /\ trail' \in [Sessions -> [distill : Nat, mirror : Nat, prepared : Nat, raw : Nat, passthrough : Nat]]
    BY <1>1, <1>2, BuiltTypes
  <2> QED BY <2>1, <2>2, <2>3 DEF Prepare, Typed, TypeOK
<1>3. CASE /\ f \notin fresh /\ Refused(by) /\ Over(s)
           /\ UNCHANGED <<fresh, past>>
  <2>1. call' \in [Sessions -> {Idle} \cup [at : Stages, c : Calls, prepared : BOOLEAN]] /\ InStage'
    BY <1>3, OverTypes DEF Typed
  <2>2. trail' \in [Sessions -> [distill : Nat, mirror : Nat, prepared : Nat, raw : Nat, passthrough : Nat]]
    BY <1>1, <1>3, RefusedTypes
  <2> QED BY <1>3, <2>1, <2>2 DEF Prepare, Typed, TypeOK
<1> QED BY <1>2, <1>3 DEF Prepare

LEMMA PrepareLateTypes == ASSUME Typed, NEW s \in Sessions, PrepareLate(s) PROVE Typed'
<1>1. call' \in [Sessions -> {Idle} \cup [at : Stages, c : Calls, prepared : BOOLEAN]] /\ InStage'
  BY OverTypes DEF PrepareLate, Typed
<1>2. orphans' \subseteq [file : Files \cup {None}, by : Sessions]
  BY PreparesRead, AttributedIn DEF PrepareLate, Typed, TypeOK
<1> QED BY <1>1, <1>2 DEF PrepareLate, Typed, TypeOK

LEMMA OrphanTypes == ASSUME Typed, NEW o \in orphans, OrphanBuilt(o) PROVE Typed'
<1>1. o \in [file : Files \cup {None}, by : Sessions]
  BY DEF Typed, TypeOK
<1>2. /\ fresh' \subseteq Files
      /\ trail' \in [Sessions -> [distill : Nat, mirror : Nat, prepared : Nat, raw : Nat, passthrough : Nat]]
  <2>1. CASE o.file = None /\ Audited(o.by, "distill") /\ UNCHANGED fresh
    BY <1>1, <2>1, AuditedTypes DEF Typed, TypeOK, Kinds
  <2>2. CASE o.file # None /\ Built(o.file, o.by)
    BY <1>1, <2>2, BuiltTypes
  <2> QED BY <2>1, <2>2 DEF OrphanBuilt
<1>3. past' \in [idled : SUBSET (Sessions \X (Postures \cup {None}) \X BOOLEAN), under : Nat, over : Nat]
  BY UnderTypes DEF OrphanBuilt, Typed
<1>4. orphans' \subseteq [file : Files \cup {None}, by : Sessions]
  BY DEF OrphanBuilt, Typed, TypeOK
<1> QED BY <1>2, <1>3, <1>4 DEF OrphanBuilt, Typed, TypeOK, InStage

LEMMA NotifyTypes == ASSUME Typed, NEW s \in Sessions, Notify(s) PROVE Typed'
<1>1. call[s].at # "none"
  BY DEF Notify
<1>2. PICK heard \in BOOLEAN :
        /\ active' = IF heard THEN s ELSE active
        /\ IF Wanted(call[s].c) = "wrap"
           THEN At(s, "run", FALSE) /\ UNCHANGED <<trail, real, past>>
           ELSE /\ Over(s) /\ Served(s)
                /\ IF heard THEN Audited(s, IF call[s].prepared THEN "prepared" ELSE "mirror")
                   ELSE UNCHANGED trail
                /\ past' = [past EXCEPT !.under = @ + IF ~heard /\ ~call[s].prepared THEN 1 ELSE 0]
  BY DEF Notify
<1>3. active' \in Sessions \cup {None}
  BY <1>2 DEF Typed, TypeOK
<1>4. CASE Wanted(call[s].c) = "wrap"
  <2>1. call' \in [Sessions -> {Idle} \cup [at : Stages, c : Calls, prepared : BOOLEAN]] /\ InStage'
    BY <1>1, <1>2, <1>4, AtTypes DEF Typed, Stages
  <2> QED BY <1>2, <1>3, <1>4, <2>1 DEF Notify, Typed, TypeOK
<1>5. CASE Wanted(call[s].c) # "wrap"
  <2>1. call' \in [Sessions -> {Idle} \cup [at : Stages, c : Calls, prepared : BOOLEAN]] /\ InStage'
    BY <1>2, <1>5, OverTypes DEF Typed
  <2>2. trail' \in [Sessions -> [distill : Nat, mirror : Nat, prepared : Nat, raw : Nat, passthrough : Nat]]
    <3>1. CASE heard
      BY <1>2, <1>5, <3>1, AuditedTypes DEF Typed, Kinds
    <3>2. CASE ~heard
      BY <1>2, <1>5, <3>2 DEF Typed, TypeOK
    <3> QED BY <3>1, <3>2
  <2>3. real' \in [Sessions -> Nat]
    BY <1>2, <1>5 DEF Served, Typed, TypeOK
  <2>4. past' \in [idled : SUBSET (Sessions \X (Postures \cup {None}) \X BOOLEAN), under : Nat, over : Nat]
    BY <1>2, <1>5, UnderTypes DEF Typed
  <2> QED BY <1>3, <2>1, <2>2, <2>3, <2>4 DEF Notify, Typed, TypeOK
<1> QED BY <1>4, <1>5

LEMMA PipeTypes == ASSUME Typed, NEW s \in Sessions, Pipe(s) PROVE Typed'
<1>1. call' \in [Sessions -> {Idle} \cup [at : Stages, c : Calls, prepared : BOOLEAN]] /\ InStage'
  BY OverTypes DEF Pipe, Typed
<1>2. Attributed(s) \in Sessions
  BY AttributedIn DEF Typed
<1>3. trail' \in [Sessions -> [distill : Nat, mirror : Nat, prepared : Nat, raw : Nat, passthrough : Nat]]
  <2>1. ASSUME NEW kind \in Kinds, Audited(Attributed(s), kind)
        PROVE  trail' \in [Sessions -> [distill : Nat, mirror : Nat, prepared : Nat, raw : Nat, passthrough : Nat]]
    BY <1>2, <2>1, AuditedTypes DEF Typed
  <2>2. CASE UNCHANGED trail
    BY <2>2 DEF Typed, TypeOK
  <2> QED BY <2>1, <2>2 DEF Pipe, Kinds
<1>4. real' \in [Sessions -> Nat]
  BY DEF Pipe, Served, Typed, TypeOK
<1>5. orphans' \subseteq [file : Files \cup {None}, by : Sessions]
  BY <1>2 DEF Pipe, Typed, TypeOK
<1> QED BY <1>1, <1>3, <1>4, <1>5 DEF Pipe, Typed, TypeOK

LEMMA RegisterTypes ==
    ASSUME Typed, NEW s \in Sessions, PostToolUse(s) \/ Prompt(s) \/ SessionEnd(s) PROVE Typed'
<1>1. CASE PostToolUse(s) \/ SessionEnd(s)
  BY <1>1 DEF PostToolUse, SessionEnd, Typed, TypeOK, InStage
<1>2. CASE Prompt(s)
  <2>1. past' \in [idled : SUBSET (Sessions \X (Postures \cup {None}) \X BOOLEAN), under : Nat, over : Nat]
    BY <1>2, IdledIn DEF Prompt, Typed, TypeOK
  <2> QED BY <1>2, <2>1 DEF Prompt, Typed, TypeOK, InStage
<1> QED BY <1>1, <1>2

Around == SidecarUp \/ SidecarDown \/ RepoChanges \/ \E f \in Files : Edit(f) \/ Refresh(f)

LEMMA AroundTypes == ASSUME Typed, Around PROVE Typed'
<1>1. left' \in [calls : Nat, starts : Nat, changes : Nat]
  BY DEF Around, SidecarUp, SidecarDown, RepoChanges, Edit, Refresh, Change, Typed, TypeOK
<1>2. repo' \in [size : 0..2, knows : BOOLEAN]
  BY DEF Around, SidecarUp, SidecarDown, RepoChanges, Edit, Refresh, Typed, TypeOK
<1>3. fresh' \subseteq Files
  BY DEF Around, SidecarUp, SidecarDown, RepoChanges, Edit, Refresh, Typed, TypeOK
<1>4. up' \in BOOLEAN /\ active' \in Sessions \cup {None} /\ orphans' \subseteq orphans
  BY DEF Around, SidecarUp, SidecarDown, RepoChanges, Edit, Refresh, Typed, TypeOK
<1>5. UNCHANGED <<record, sess, call, trail, real, past>>
  BY DEF Around, SidecarUp, SidecarDown, RepoChanges, Edit, Refresh
<1> QED BY <1>1, <1>2, <1>3, <1>4, <1>5 DEF Typed, TypeOK, InStage

-----------------------------------------------------------------------------
(* Who idles. *)

LEMMA RecordedStart ==
    ASSUME Typed, Recorded, NEW s \in Sessions, Assess(s) \/ Decide(s) PROVE Recorded'
<1>0. sess = [r \in Sessions |-> sess[r]]
  BY DEF Typed, TypeOK
<1>1. CASE Assess(s)
  <2>1. /\ \A r \in Sessions : r # s => sess'[r] = sess[r]
        /\ sess'[s].at = "assessed" /\ UNCHANGED record
    BY <1>0, <1>1 DEF Assess
  <2> QED BY <2>1 DEF Recorded
<1>2. CASE Decide(s)
  <2>1. PICK written \in BOOLEAN :
          /\ sess' = [sess EXCEPT ![s].at = "open", ![s].posture = PostureOf, ![s].written = written]
          /\ record' = IF written THEN [session |-> s, posture |-> PostureOf] ELSE record
    BY <1>2 DEF Decide
  <2>2. sess[s] \in [at : {"closed", "assessed", "open"}, posture : Postures \cup {None}, written : BOOLEAN]
    BY DEF Typed, TypeOK
  <2>3. /\ \A r \in Sessions : r # s => sess'[r] = sess[r]
        /\ sess'[s] = [sess[s] EXCEPT !.at = "open", !.posture = PostureOf, !.written = written]
    BY <1>0, <2>1
  <2>4. sess'[s].posture = PostureOf /\ sess'[s].written = written
    BY <2>2, <2>3
  <2>5. PostureOf \in Postures
    BY PostureIn DEF Typed
  <2>6. ASSUME NEW r \in Sessions
        PROVE  /\ sess'[r].at = "open" => sess'[r].posture \in Postures
               /\ sess'[r].at = "open" /\ sess'[r].written /\ record' # None /\ record'.session = r
                     => sess'[r].posture = record'.posture
    <3>1. CASE r = s
      <4>1. CASE written
        BY <2>1, <2>4, <2>5, <3>1, <4>1
      <4>2. CASE ~written
        BY <2>4, <2>5, <3>1, <4>2
      <4> QED BY <4>1, <4>2
    <3>2. CASE r # s
      <4>1. CASE written
        BY <2>1, <2>3, <3>2, <4>1 DEF Recorded
      <4>2. CASE ~written
        BY <2>1, <2>3, <3>2, <4>2 DEF Recorded
      <4> QED BY <4>1, <4>2
    <3> QED BY <3>1, <3>2
  <2> QED BY <2>6 DEF Recorded
<1> QED BY <1>1, <1>2

\* A hook that idles read a record of its own session.
LEMMA IdlesByOwn ==
    ASSUME Typed, Recorded, IdleWasDecided, NEW s \in Sessions, sess[s].at = "open",
           UNCHANGED past \/ (IdleFor(s) /\ past' = [past EXCEPT !.idled = Idled(s)])
    PROVE  IdleWasDecided'
<1>1. CASE UNCHANGED past
  BY <1>1 DEF IdleWasDecided
<1>2. CASE IdleFor(s) /\ past' = [past EXCEPT !.idled = Idled(s)]
  <2>1. past'.idled = Idled(s)
    BY <1>2 DEF Typed, TypeOK
  <2>2. sess[s].posture = "idle" \/ ~sess[s].written
    BY <1>2 DEF IdleFor, Recorded
  <2>3. ASSUME NEW t \in Idled(s) PROVE t[2] = "idle" \/ ~t[3]
    <3>1. CASE t \in past.idled
      BY <3>1 DEF IdleWasDecided
    <3>2. CASE t = <<s, sess[s].posture, sess[s].written>>
      BY <2>2, <3>2
    <3> QED BY <3>1, <3>2 DEF Idled
  <2> QED BY <2>1, <2>3 DEF IdleWasDecided
<1> QED BY <1>1, <1>2

LEMMA IdledUse ==
    ASSUME Typed, Recorded, IdleWasDecided, NEW s \in Sessions, NEW c \in Calls, PreToolUse(s, c)
    PROVE  IdleWasDecided'
<1>1. past = [past EXCEPT !.idled = past.idled]
  BY DEF Typed, TypeOK
<1>2. UNCHANGED past \/ (IdleFor(s) /\ past' = [past EXCEPT !.idled = Idled(s)])
  BY <1>1 DEF PreToolUse, Slept
<1> QED BY <1>2, IdlesByOwn DEF PreToolUse

-----------------------------------------------------------------------------
(* What is booked and what is owed. *)

LEMMA SavedIntegral == (TypeOK => Integral(Saved, Sessions)) /\ (TypeOK' => Integral(Saved', Sessions))
  BY SessionAssumption DEF TypeOK, Integral, Saved, Avoided, Measured

LEMMA OwedIntegral == (TypeOK => Integral(Owed, Sessions)) /\ (TypeOK' => Integral(Owed', Sessions))
  BY SessionAssumption DEF TypeOK, Integral, Owed, Pending

\* An audit event raises the sum by one, unless it is of a kind that says that
\* nothing was avoided, or that the build has been booked.
Worth(kind) == IF kind \in {"distill", "mirror"} THEN 1 ELSE 0

LEMMA SavedOnce ==
    ASSUME TypeOK, TypeOK', NEW s \in Sessions, NEW kind \in Kinds, Audited(s, kind)
    PROVE  SumOf(Saved', Sessions) = SumOf(Saved, Sessions) + Worth(kind)
<1>1. Integral(Saved, Sessions) /\ Integral(Saved', Sessions)
  BY SavedIntegral
<1>2. \A r \in Sessions \ {s} : trail'[r] = trail[r]
  BY DEF Audited, TypeOK
<1>3. \A r \in Sessions \ {s} : Saved'[r] = Saved[r]
  BY <1>2 DEF Saved, Avoided, Measured
<1>4. Saved'[s] - Saved[s] = Worth(kind)
  BY DEF Saved, Avoided, Measured, Audited, TypeOK, Worth, Kinds
<1>5. SumOf(Saved', Sessions) = SumOf(Saved, Sessions) + (Saved'[s] - Saved[s])
  BY <1>1, <1>3, SumChange
<1> QED BY <1>4, <1>5

\* One session owes more, or less; the others what they did.
LEMMA OwedChange ==
    ASSUME TypeOK, TypeOK', NEW s \in Sessions,
           \A r \in Sessions \ {s} : real'[r] = real[r] /\ call'[r] = call[r]
    PROVE  SumOf(Owed', Sessions) = SumOf(Owed, Sessions) + ((real'[s] + Pending(s)') - (real[s] + Pending(s)))
<1>1. \A r \in Sessions \ {s} : Owed'[r] = Owed[r]
  BY DEF Owed, Pending
<1>2. Owed'[s] = real'[s] + Pending(s)' /\ Owed[s] = real[s] + Pending(s)
  BY DEF Owed, Pending
<1>3. SumOf(Owed', Sessions) = SumOf(Owed, Sessions) + (Owed'[s] - Owed[s])
  BY <1>1, OwedIntegral, SumChange
<1> QED BY <1>2, <1>3

LEMMA SavedKept == ASSUME UNCHANGED trail PROVE SumOf(Saved', Sessions) = SumOf(Saved, Sessions)
<1>1. Saved' = Saved
  BY DEF Saved, Avoided, Measured
<1> QED BY <1>1

LEMMA SumTypes ==
    ASSUME TypeOK
    PROVE  SumOf(Saved, Sessions) \in Int /\ SumOf(Owed, Sessions) \in Int /\ past.under \in Nat /\ past.over \in Nat
  BY SavedIntegral, OwedIntegral, SumType DEF TypeOK

\* Nothing is booked and nothing owed by a hook's beginning, by its giving up
\* before the answer, or by what happens around it.
LEMMA BalancedIdle ==
    ASSUME Typed, Typed', Balanced, NEW s \in Sessions, UNCHANGED <<trail, real>>,
           past'.under = past.under /\ past'.over = past.over,
           \A r \in Sessions \ {s} : call'[r] = call[r],
           Pending(s)' = Pending(s)
    PROVE  Balanced'
<1>1. SumOf(Owed', Sessions) = SumOf(Owed, Sessions) + ((real'[s] + Pending(s)') - (real[s] + Pending(s)))
  BY OwedChange DEF Typed
<1>2. real[s] \in Nat /\ Pending(s) \in Nat
  BY DEF Typed, TypeOK, Pending
<1>3. SumOf(Owed', Sessions) = SumOf(Owed, Sessions)
  BY <1>1, <1>2, SumTypes DEF Typed
<1> QED BY <1>3, SavedKept DEF Balanced

LEMMA CallOf ==
    ASSUME TypeOK, NEW s \in Sessions, NEW k, call' = [call EXCEPT ![s] = k]
    PROVE  call'[s] = k /\ \A r \in Sessions \ {s} : call'[r] = call[r]
  BY DEF TypeOK

LEMMA RealOf ==
    ASSUME TypeOK, NEW s \in Sessions, Served(s)
    PROVE  real'[s] = real[s] + 1 /\ \A r \in Sessions \ {s} : real'[r] = real[r]
  BY DEF TypeOK, Served

LEMMA PreToolUseBalanced ==
    ASSUME Typed, Typed', Balanced, NEW s \in Sessions, NEW c \in Calls, PreToolUse(s, c)
    PROVE  Balanced'
<1> DEFINE k == IF Slept(s, c) \/ Wanted(c) \in {"pass", "deny"} THEN Passed(c)
                ELSE [at |-> "probe", c |-> c, prepared |-> FALSE]
<1>1. call' = [call EXCEPT ![s] = k] /\ call[s] = Idle
  BY DEF PreToolUse
<1>2. k.at # "notify"
  BY DEF Passed, Idle
<1> HIDE DEF k
<1>3. call'[s] = k /\ \A r \in Sessions \ {s} : call'[r] = call[r]
  BY <1>1, CallOf DEF Typed
<1>4. Pending(s)' = 0 /\ Pending(s) = 0
  BY <1>1, <1>2, <1>3 DEF Pending, Idle
<1>5. past'.under = past.under /\ past'.over = past.over
  BY DEF PreToolUse, Typed, TypeOK
<1> QED BY <1>3, <1>4, <1>5, BalancedIdle DEF PreToolUse

LEMMA ProbeBalanced ==
    ASSUME Typed, Typed', Balanced, NEW s \in Sessions, Probe(s) \/ PrepareLate(s) PROVE Balanced'
<1>1. call[s].at \in {"probe", "prepare"} /\ call[s].at # "none"
  BY DEF Probe, PrepareLate
<1>2. call[s] \in [at : Stages, c : Calls, prepared : BOOLEAN]
  BY <1>1, AtWork DEF Typed
<1>3. PICK k : call' = [call EXCEPT ![s] = k] /\ (k.at = "notify" => ~k.prepared)
  <2>1. CASE Over(s)
    <3>1. Idle.at # "notify"
      BY DEF Idle
    <3> QED BY <2>1, <3>1 DEF Over
  <2>2. ASSUME NEW step \in Stages, At(s, step, FALSE)
        PROVE  \E k : call' = [call EXCEPT ![s] = k] /\ (k.at = "notify" => ~k.prepared)
    <3> DEFINE k == [call[s] EXCEPT !.at = step, !.prepared = FALSE]
    <3>1. call' = [call EXCEPT ![s] = k]
      BY <2>2 DEF At
    <3>2. ~k.prepared
      BY <1>2
    <3> HIDE DEF k
    <3> QED BY <3>1, <3>2
  <2> QED BY <2>1, <2>2 DEF Probe, PrepareLate, Answered, Stages
<1>4. call'[s] = k /\ \A r \in Sessions \ {s} : call'[r] = call[r]
  BY <1>3, CallOf DEF Typed
<1>5. Pending(s)' = 0 /\ Pending(s) = 0
  BY <1>1, <1>3, <1>4 DEF Pending
<1>6. UNCHANGED <<trail, real, past>>
  BY DEF Probe, PrepareLate
<1> QED BY <1>4, <1>5, <1>6, BalancedIdle

\* A build is booked, and owed until the skeleton is read; an entry that was
\* fresh after all is owed without having been booked.
LEMMA PrepareBalanced ==
    ASSUME Typed, Typed', Balanced, NEW s \in Sessions, Prepare(s) PROVE Balanced'
<1> DEFINE f == call[s].c.file
<1> DEFINE by == Attributed(s)
<1>1. call[s].at = "prepare" /\ UNCHANGED real
  BY DEF Prepare
<1>2. call[s] \in [at : Stages, c : Calls, prepared : BOOLEAN] /\ by \in Sessions
  BY <1>1, AtWork, AttributedIn DEF Typed
<1>3. Pending(s) = 0
  BY <1>1 DEF Pending
<1>4. real[s] \in Nat
  BY DEF Typed, TypeOK
<1>5. CASE /\ Built(f, by) /\ At(s, "notify", TRUE)
           /\ past' = [past EXCEPT !.under = @ + IF f \in fresh THEN 1 ELSE 0]
  <2>1. call'[s] = [call[s] EXCEPT !.at = "notify", !.prepared = TRUE]
        /\ \A r \in Sessions \ {s} : call'[r] = call[r]
    BY <1>5, CallOf DEF At, Typed
  <2>2. Pending(s)' = 1
    BY <1>2, <2>1 DEF Pending
  <2>3. SumOf(Owed', Sessions) = SumOf(Owed, Sessions) + 1
    <3>1. SumOf(Owed', Sessions) = SumOf(Owed, Sessions) + ((real'[s] + Pending(s)') - (real[s] + Pending(s)))
      BY <1>1, <2>1, OwedChange DEF Typed
    <3> QED BY <1>1, <1>3, <1>4, <2>2, <3>1, SumTypes DEF Typed
  <2>4. CASE f \in fresh
    <3>1. past'.under = past.under + 1 /\ past'.over = past.over
      BY <1>5, <2>4 DEF Typed, TypeOK
    <3>2. SumOf(Saved', Sessions) = SumOf(Saved, Sessions)
      BY <1>5, <2>4, SavedKept DEF Built
    <3> QED BY <2>3, <3>1, <3>2, SumTypes DEF Balanced, Typed
  <2>5. CASE f \notin fresh
    <3>1. past'.under = past.under /\ past'.over = past.over
      BY <1>5, <2>5 DEF Typed, TypeOK
    <3>2. SumOf(Saved', Sessions) = SumOf(Saved, Sessions) + 1
      BY <1>2, <1>5, <2>5, SavedOnce DEF Built, Typed, Kinds, Worth
    <3> QED BY <2>3, <3>1, <3>2, SumTypes DEF Balanced, Typed
  <2> QED BY <2>4, <2>5
<1>6. CASE f \notin fresh /\ Refused(by) /\ Over(s) /\ UNCHANGED <<fresh, past>>
  <2>1. call'[s] = Idle /\ \A r \in Sessions \ {s} : call'[r] = call[r]
    BY <1>6, CallOf DEF Over, Typed
  <2>2. SumOf(Owed', Sessions) = SumOf(Owed, Sessions)
    <3>1. SumOf(Owed', Sessions) = SumOf(Owed, Sessions) + ((real'[s] + Pending(s)') - (real[s] + Pending(s)))
      BY <1>1, <2>1, OwedChange DEF Typed
    <3>2. Pending(s)' = 0
      BY <2>1 DEF Pending, Idle
    <3> QED BY <1>1, <1>3, <1>4, <3>1, <3>2, SumTypes DEF Typed
  <2>3. SumOf(Saved', Sessions) = SumOf(Saved, Sessions)
    <3>1. ASSUME NEW r \in Sessions PROVE Saved'[r] = Saved[r]
      <4>1. CASE Audited(by, "passthrough")
        BY <1>2, <4>1 DEF Audited, Saved, Avoided, Measured, Typed, TypeOK
      <4>2. CASE trail' = [trail EXCEPT ![by].raw = @ + 1, ![by].passthrough = @ + 1]
        BY <1>2, <4>2 DEF Saved, Avoided, Measured, Typed, TypeOK
      <4> QED BY <1>6, <4>1, <4>2 DEF Refused
    <3> QED BY <3>1, SavedIntegral, SumSame DEF Typed
  <2> QED BY <1>6, <2>2, <2>3 DEF Balanced
<1> QED BY <1>5, <1>6 DEF Prepare

LEMMA OrphanBalanced ==
    ASSUME Typed, Typed', Balanced, NEW o \in orphans, OrphanBuilt(o) PROVE Balanced'
<1>1. o \in [file : Files \cup {None}, by : Sessions]
  BY DEF Typed, TypeOK
<1>2. SumOf(Owed', Sessions) = SumOf(Owed, Sessions)
  <2>1. Owed' = Owed
    BY DEF OrphanBuilt, Owed, Pending
  <2> QED BY <2>1
<1>3. CASE o.file \in fresh
  <2>1. o.file # None
    BY <1>3, SessionAssumption DEF Typed, TypeOK
  <2>2. SumOf(Saved', Sessions) = SumOf(Saved, Sessions)
    BY <1>3, <2>1, SavedKept DEF OrphanBuilt, Built
  <2>3. past'.under = past.under /\ past'.over = past.over
    BY <1>3 DEF OrphanBuilt, Typed, TypeOK
  <2> QED BY <1>2, <2>2, <2>3 DEF Balanced
<1>4. CASE o.file \notin fresh
  <2>1. Audited(o.by, "distill")
    BY <1>4 DEF OrphanBuilt, Built
  <2>2. SumOf(Saved', Sessions) = SumOf(Saved, Sessions) + 1
    BY <1>1, <2>1, SavedOnce DEF Typed, Kinds, Worth
  <2>3. past'.under = past.under /\ past'.over = past.over + 1
    BY <1>4 DEF OrphanBuilt, Typed, TypeOK
  <2> QED BY <1>2, <2>2, <2>3, SumTypes DEF Balanced, Typed
<1> QED BY <1>3, <1>4

\* Reading the skeleton settles what its build left owing; a hit is booked by
\* the daemon, if it hears of it.
LEMMA NotifyBalanced ==
    ASSUME Typed, Typed', Balanced, NEW s \in Sessions, Notify(s) PROVE Balanced'
<1>1. call[s].at = "notify" /\ call[s].at # "none"
  BY DEF Notify
<1>2. call[s] \in [at : Stages, c : Calls, prepared : BOOLEAN]
  BY <1>1, AtWork DEF Typed
<1>3. PICK heard \in BOOLEAN :
        /\ IF Wanted(call[s].c) = "wrap"
           THEN At(s, "run", FALSE) /\ UNCHANGED <<trail, real, past>>
           ELSE /\ Over(s) /\ Served(s)
                /\ IF heard THEN Audited(s, IF call[s].prepared THEN "prepared" ELSE "mirror")
                   ELSE UNCHANGED trail
                /\ past' = [past EXCEPT !.under = @ + IF ~heard /\ ~call[s].prepared THEN 1 ELSE 0]
  BY DEF Notify
<1>4. real[s] \in Nat
  BY DEF Typed, TypeOK
<1>5. CASE Wanted(call[s].c) = "wrap"
  <2>1. ~call[s].prepared
    BY <1>1, <1>5 DEF Typed, InStage, Staged
  <2>2. call'[s] = [call[s] EXCEPT !.at = "run", !.prepared = FALSE]
        /\ \A r \in Sessions \ {s} : call'[r] = call[r]
    BY <1>3, <1>5, CallOf DEF At, Typed
  <2>3. Pending(s) = 0 /\ Pending(s)' = 0
    BY <1>2, <2>1, <2>2 DEF Pending
  <2> QED BY <1>3, <1>5, <2>2, <2>3, BalancedIdle
<1>6. CASE Wanted(call[s].c) # "wrap"
  <2>1. /\ call'[s] = Idle /\ \A r \in Sessions \ {s} : call'[r] = call[r]
        /\ real'[s] = real[s] + 1 /\ \A r \in Sessions \ {s} : real'[r] = real[r]
    BY <1>3, <1>6, CallOf, RealOf DEF Over, Typed
  <2>2. Pending(s)' = 0
    BY <2>1 DEF Pending, Idle
  <2>3. SumOf(Owed', Sessions) = SumOf(Owed, Sessions) + ((real'[s] + Pending(s)') - (real[s] + Pending(s)))
    BY <2>1, OwedChange DEF Typed
  <2>4. past'.over = past.over
    BY <1>3, <1>6 DEF Typed, TypeOK
  <2>5. CASE call[s].prepared
    <3>1. SumOf(Owed', Sessions) = SumOf(Owed, Sessions)
      BY <1>1, <1>4, <2>1, <2>2, <2>3, <2>5, SumTypes DEF Typed, Pending
    <3>2. SumOf(Saved', Sessions) = SumOf(Saved, Sessions)
      <4>1. CASE heard
        <5>1. Audited(s, "prepared")
          BY <1>3, <1>6, <2>5, <4>1
        <5>2. SumOf(Saved', Sessions) = SumOf(Saved, Sessions) + 0
          BY <5>1, SavedOnce DEF Typed, Kinds, Worth
        <5> QED BY <5>2, SumTypes DEF Typed
      <4>2. CASE ~heard
        BY <1>3, <1>6, <4>2, SavedKept
      <4> QED BY <4>1, <4>2
    <3>3. past'.under = past.under
      BY <1>3, <1>6, <2>5 DEF Typed, TypeOK
    <3> QED BY <2>4, <3>1, <3>2, <3>3 DEF Balanced
  <2>6. CASE ~call[s].prepared
    <3>1. SumOf(Owed', Sessions) = SumOf(Owed, Sessions) + 1
      BY <1>4, <2>1, <2>2, <2>3, <2>6, SumTypes DEF Typed, Pending
    <3>2. CASE heard
      <4>1. Audited(s, "mirror")
        BY <1>3, <1>6, <2>6, <3>2
      <4>2. SumOf(Saved', Sessions) = SumOf(Saved, Sessions) + 1
        BY <4>1, SavedOnce DEF Typed, Kinds, Worth
      <4>3. past'.under = past.under
        BY <1>3, <1>6, <3>2 DEF Typed, TypeOK
      <4> QED BY <2>4, <3>1, <4>2, <4>3, SumTypes DEF Balanced, Typed
    <3>3. CASE ~heard
      <4>1. past'.under = past.under + 1
        BY <1>3, <1>6, <2>6, <3>3 DEF Typed, TypeOK
      <4>2. SumOf(Saved', Sessions) = SumOf(Saved, Sessions)
        BY <1>3, <1>6, <3>3, SavedKept
      <4> QED BY <2>4, <3>1, <4>1, <4>2, SumTypes DEF Balanced, Typed
    <3> QED BY <3>2, <3>3
  <2> QED BY <2>5, <2>6
<1> QED BY <1>5, <1>6

LEMMA PipeBalanced ==
    ASSUME Typed, Typed', Balanced, NEW s \in Sessions, Pipe(s) PROVE Balanced'
<1>1. call[s].at = "run" /\ UNCHANGED past
  BY DEF Pipe
<1>2. call'[s] = Idle /\ \A r \in Sessions \ {s} : call'[r] = call[r]
  BY CallOf DEF Pipe, Over, Typed
<1>3. Pending(s) = 0 /\ Pending(s)' = 0
  BY <1>1, <1>2 DEF Pending, Idle
<1>4. Attributed(s) \in Sessions
  BY AttributedIn DEF Typed
<1>5. CASE Audited(Attributed(s), "distill") /\ Served(s)
  <2>1. SumOf(Saved', Sessions) = SumOf(Saved, Sessions) + 1
    BY <1>4, <1>5, SavedOnce DEF Typed, Kinds, Worth
  <2>2. real'[s] = real[s] + 1 /\ \A r \in Sessions \ {s} : real'[r] = real[r]
    BY <1>5, RealOf DEF Typed
  <2>3. SumOf(Owed', Sessions) = SumOf(Owed, Sessions) + ((real'[s] + Pending(s)') - (real[s] + Pending(s)))
    BY <1>2, <2>2, OwedChange DEF Typed
  <2>4. real[s] \in Nat
    BY DEF Typed, TypeOK
  <2>5. SumOf(Owed', Sessions) = SumOf(Owed, Sessions) + 1
    BY <1>3, <2>2, <2>3, <2>4, SumTypes DEF Typed
  <2> QED BY <1>1, <2>1, <2>5, SumTypes DEF Balanced, Typed
<1>6. CASE Audited(Attributed(s), "raw") /\ UNCHANGED real
  <2>1. SumOf(Saved', Sessions) = SumOf(Saved, Sessions) + 0
    BY <1>4, <1>6, SavedOnce DEF Typed, Kinds, Worth
  <2>2. SumOf(Owed', Sessions) = SumOf(Owed, Sessions) + ((real'[s] + Pending(s)') - (real[s] + Pending(s)))
    BY <1>2, <1>6, OwedChange DEF Typed
  <2>3. real[s] \in Nat
    BY DEF Typed, TypeOK
  <2>4. SumOf(Owed', Sessions) = SumOf(Owed, Sessions)
    BY <1>3, <1>6, <2>2, <2>3, SumTypes DEF Typed
  <2> QED BY <1>1, <2>1, <2>4, SumTypes DEF Balanced, Typed
<1>7. CASE UNCHANGED <<trail, real>>
  BY <1>1, <1>2, <1>3, <1>7, BalancedIdle
<1> QED BY <1>5, <1>6, <1>7 DEF Pipe

LEMMA BalancedKept ==
    ASSUME Balanced, UNCHANGED <<call, trail, real>>,
           past'.under = past.under, past'.over = past.over
    PROVE  Balanced'
<1>1. Saved' = Saved /\ Owed' = Owed
  BY DEF Saved, Avoided, Measured, Owed, Pending
<1> QED BY <1>1 DEF Balanced

-----------------------------------------------------------------------------
(* The induction. *)

LEMMA Initially == Init => IInv
<1>1. SUFFICES ASSUME Init PROVE IInv
  OBVIOUS
<1>2. Typed
  BY <1>1, TypedInit
<1>3. Recorded /\ IdleWasDecided
  BY <1>1 DEF Init, Recorded, IdleWasDecided
<1>4. SumOf(Saved, Sessions) = SumOf(Owed, Sessions)
  <2>1. ASSUME NEW s \in Sessions PROVE Saved[s] = Owed[s]
    BY <1>1 DEF Init, Saved, Avoided, Measured, Nothing, Owed, Pending, Idle
  <2> QED BY <1>2, <2>1, SavedIntegral, SumSame DEF Typed
<1>5. past.under = 0 /\ past.over = 0
  BY <1>1 DEF Init
<1> QED BY <1>2, <1>3, <1>4, <1>5 DEF IInv, Typed, Balanced

LEMMA InductiveStep == IInv /\ [Next]_vars => IInv'
<1>1. SUFFICES ASSUME IInv, [Next]_vars PROVE IInv'
  OBVIOUS
<1>2. Typed /\ Recorded /\ IdleWasDecided /\ Balanced
  BY <1>1 DEF IInv, Typed
<1> DEFINE Kept == Recorded' /\ IdleWasDecided' /\ Balanced'
<1>3. SUFFICES Typed' /\ Kept
  BY DEF IInv, Typed
<1>4. ASSUME UNCHANGED <<sess, record>>, past'.idled = past.idled
      PROVE  Recorded' /\ IdleWasDecided'
  BY <1>2, <1>4 DEF Recorded, IdleWasDecided
<1>5. ASSUME UNCHANGED past PROVE past'.idled = past.idled /\ past'.under = past.under /\ past'.over = past.over
  BY <1>5
<1>6. CASE UNCHANGED vars
  <2>1. UNCHANGED <<up, active, repo, fresh, record, sess, call, orphans, trail, real, left, past>>
    BY <1>6 DEF vars
  <2>2. Typed'
    BY <1>2, <2>1 DEF Typed, TypeOK, InStage
  <2> QED BY <1>2, <1>4, <1>5, <2>1, <2>2, BalancedKept
<1>7. ASSUME NEW s \in Sessions, Assess(s) \/ Decide(s) PROVE Typed' /\ Kept
  <2>1. UNCHANGED <<call, trail, real, past>>
    BY <1>7 DEF Assess, Decide
  <2>2. IdleWasDecided'
    BY <1>2, <2>1 DEF IdleWasDecided
  <2> QED BY <1>2, <1>5, <1>7, <2>1, <2>2, StartTypes, RecordedStart, BalancedKept
<1>8. ASSUME NEW s \in Sessions, NEW c \in Calls, PreToolUse(s, c) PROVE Typed' /\ Kept
  <2>1. Typed'
    BY <1>2, <1>8, PreToolUseTypes
  <2>2. Recorded'
    BY <1>2, <1>8 DEF PreToolUse, Recorded
  <2> QED BY <1>2, <1>8, <2>1, <2>2, IdledUse, PreToolUseBalanced
<1>9. ASSUME NEW s \in Sessions, Probe(s) \/ PrepareLate(s) PROVE Typed' /\ Kept
  <2>1. Typed'
    BY <1>2, <1>9, ProbeTypes, PrepareLateTypes
  <2>2. UNCHANGED <<sess, record, past>>
    BY <1>9 DEF Probe, PrepareLate
  <2> QED BY <1>2, <1>4, <1>5, <1>9, <2>1, <2>2, ProbeBalanced
<1>10. ASSUME NEW s \in Sessions, Prepare(s) PROVE Typed' /\ Kept
  <2>1. Typed'
    BY <1>2, <1>10, PrepareTypes
  <2>2. UNCHANGED <<sess, record>> /\ past'.idled = past.idled
    BY <1>2, <1>10 DEF Prepare, Typed, TypeOK
  <2> QED BY <1>2, <1>4, <1>10, <2>1, <2>2, PrepareBalanced
<1>11. ASSUME NEW s \in Sessions, Notify(s) PROVE Typed' /\ Kept
  <2>1. Typed'
    BY <1>2, <1>11, NotifyTypes
  <2>2. UNCHANGED <<sess, record>> /\ past'.idled = past.idled
    BY <1>2, <1>11 DEF Notify, Typed, TypeOK
  <2> QED BY <1>2, <1>4, <1>11, <2>1, <2>2, NotifyBalanced
<1>12. ASSUME NEW s \in Sessions, Pipe(s) PROVE Typed' /\ Kept
  <2>1. Typed'
    BY <1>2, <1>12, PipeTypes
  <2>2. UNCHANGED <<sess, record, past>>
    BY <1>12 DEF Pipe
  <2> QED BY <1>2, <1>4, <1>5, <1>12, <2>1, <2>2, PipeBalanced
<1>13. ASSUME NEW s \in Sessions, PostToolUse(s) \/ Prompt(s) \/ SessionEnd(s) PROVE Typed' /\ Kept
  <2>1. Typed'
    BY <1>2, <1>13, RegisterTypes
  <2>2. /\ UNCHANGED <<sess, record, call, trail, real>> /\ sess[s].at = "open"
        /\ UNCHANGED past \/ (IdleFor(s) /\ past' = [past EXCEPT !.idled = Idled(s)])
    BY <1>13 DEF PostToolUse, Prompt, SessionEnd
  <2>3. past'.under = past.under /\ past'.over = past.over
    BY <1>2, <2>2 DEF Typed, TypeOK
  <2>4. Recorded'
    BY <1>2, <2>2 DEF Recorded
  <2> QED BY <1>2, <2>1, <2>2, <2>3, <2>4, IdlesByOwn, BalancedKept
<1>14. ASSUME NEW o \in orphans, OrphanBuilt(o) PROVE Typed' /\ Kept
  <2>1. Typed'
    BY <1>2, <1>14, OrphanTypes
  <2>2. UNCHANGED <<sess, record>> /\ past'.idled = past.idled
    BY <1>2, <1>14 DEF OrphanBuilt, Typed, TypeOK
  <2> QED BY <1>2, <1>4, <1>14, <2>1, <2>2, OrphanBalanced
<1>15. CASE Around
  <2>1. UNCHANGED <<record, sess, call, trail, real, past>>
    BY <1>15 DEF Around, SidecarUp, SidecarDown, RepoChanges, Edit, Refresh
  <2> QED BY <1>2, <1>4, <1>5, <1>15, <2>1, AroundTypes, BalancedKept
<1> QED
  BY <1>1, <1>3, <1>6, <1>7, <1>8, <1>9, <1>10, <1>11, <1>12, <1>13, <1>14, <1>15
  DEF Next, Hook, Around

LEMMA Always == Spec => []IInv
  BY Initially, InductiveStep, PTL DEF Spec

\* Every reachable state is well typed, whatever hooks and daemon are at.
THEOREM SessionTyped == Spec => []TypeOK
<1>1. IInv => TypeOK
  BY DEF IInv
<1> QED BY <1>1, Always, PTL

\* A session whose turns pass untouched on account of the posture has itself,
\* at its last start, decided to idle, or that start could not write its record
\* (decidePosture and postureForSession in hooks/src/handlers.ts).
THEOREM IdleSafe == Spec => []IdleWasDecided
<1>1. IInv => IdleWasDecided
  BY DEF IInv
<1> QED BY <1>1, Always, PTL

\* When no hook is at work, the receipts of all sessions together count what
\* entered context as a skeleton or a distillate, but for what the daemon could
\* not count and what it built after its caller gave up (measuredServes and
\* computeSessionSavings in meter/src/savings.ts).
THEOREM SavingsSafe == Spec => []SavingsAddUp
<1>1. ASSUME IInv, Quiet PROVE SumFunction(Saved) + past.under = SumFunction(real) + past.over
  <2>1. TypeOK /\ Balanced
    BY <1>1 DEF IInv
  <2>2. DOMAIN Saved = Sessions /\ DOMAIN real = Sessions
    BY <2>1 DEF Saved, TypeOK
  <2>3. \A s \in Sessions : Owed[s] = real[s]
    BY <1>1, <2>1 DEF Quiet, Owed, Pending, Idle, TypeOK
  <2>4. SumOf(Owed, Sessions) = SumOf(real, Sessions)
    BY <2>1, <2>3, OwedIntegral, SumSame
  <2>5. SumFunction(Saved) = SumOf(Saved, Sessions) /\ SumFunction(real) = SumOf(real, Sessions)
    BY <2>2 DEF SumFunction, SumOf
  <2> QED BY <2>1, <2>4, <2>5 DEF Balanced
<1>2. IInv => SavingsAddUp
  BY <1>1 DEF SavingsAddUp
<1> QED BY <1>2, Always, PTL
=============================================================================
