------------------------------ MODULE Session ------------------------------
(***************************************************************************)
(* What the hooks do to the turns of a session, and what the session's     *)
(* receipt says they did. SessionStart decides the posture of its session  *)
(* and writes it to session-posture.json, the one record all sessions of   *)
(* the repository share; PreToolUse lets a call pass, caps it, denies it,  *)
(* or rewrites it to the skeleton mirror or through redutok-pipe; the      *)
(* daemon audits the rewrites and the builds; Stop adds the audit events   *)
(* of the session up (hooks/handlers.ts, sidecar/daemon.ts, meter/pipe.ts, *)
(* meter/scoring.ts, meter/savings.ts, meter/receipt.ts).                  *)
(*                                                                         *)
(* A step of a hook runs from one request to the daemon to the next; the   *)
(* daemon may be gone, or the hook may have stopped waiting, at each. File *)
(* sizes are the classes the thresholds make of them, the size of the      *)
(* repository is its class too, and what is counted is serves, not bytes.  *)
(***************************************************************************)
EXTENDS Naturals, FiniteSets, Functions

CONSTANTS Sessions,
          Files,       \* files a Read may name
          Size,        \* the size class of each
          Commands,    \* commands a Bash call may run
          Allow, Deny, \* shapes the allowlist in force wraps, and those it never does
          None,
          MaxCalls,    \* tool calls, of all sessions together
          MaxStarts,   \* SessionStart events: a session resumes under its id
          MaxChanges   \* what happens around: the daemon, the repository, the disk

\* At most SMALL_READ_BYTES, LARGE_READ_BYTES, under and from
\* GOVERN_ANY_ARTIFACT_BYTES.
Sizes == {"small", "mid", "large", "huge"}

Shapes == Allow \cup Deny \cup {"merge"}

\* prefix: the shapes of a leading cd; tail: those of the rest of the command,
\* "merge" for a merge of descriptors; piped: it runs redutok-pipe as it is.
ASSUME SessionAssumption ==
    /\ Size \in [Files -> Sizes]
    /\ Commands \subseteq [piped : BOOLEAN, prefix : SUBSET Shapes, tail : SUBSET Shapes]
    /\ None \notin Sessions \cup Files
    /\ IsFiniteSet(Sessions)
    /\ {MaxCalls, MaxStarts, MaxChanges} \subseteq Nat

VARIABLES
    up,      \* the repository's own daemon answers
    active,  \* its session.activeId
    repo,    \* the size class of the repository, and whether its codex knows anything
    fresh,   \* files whose mirror entry matches them
    record,  \* session-posture.json
    sess,    \* by session: its SessionStart
    call,    \* by session: the call its PreToolUse hook, or its pipe, is at
    orphans, \* skeleton builds and distillations nobody waits for any more
    trail,   \* by session id: audit events, counted by what the meter makes of them
    real,    \* by session: serves that entered its context
    left,    \* what is left of the bounds
    past     \* history the properties speak about

vars == <<up, active, repo, fresh, record, sess, call, orphans, trail, real, left, past>>

Calls == [tool : {"Read"}, file : Files, sliced : BOOLEAN]
    \cup [tool : {"Bash"}, command : Commands]
    \cup [tool : {"Grep"}, scoped : BOOLEAN]
    \cup [tool : {"Write"}, wholesale : BOOLEAN]

Idle == [at |-> "none"]

\* distill and rewrite events a serve stands behind, rewrites of a prepared
\* entry, serve-raw and passthrough events.
Nothing == [distill |-> 0, mirror |-> 0, prepared |-> 0, raw |-> 0, passthrough |-> 0]

Init ==
    /\ up \in BOOLEAN
    /\ active = None
    /\ repo \in [size : {0, 1}, knows : {FALSE}]
    /\ fresh = {}
    /\ record = None
    /\ sess = [s \in Sessions |-> [at |-> "closed", posture |-> None, written |-> FALSE]]
    /\ call = [s \in Sessions |-> Idle]
    /\ orphans = {}
    /\ trail = [s \in Sessions |-> Nothing]
    /\ real = [s \in Sessions |-> 0]
    /\ left = [calls |-> MaxCalls, starts |-> MaxStarts, changes |-> MaxChanges]
    /\ past = [idled |-> {}, under |-> 0, over |-> 0]

-----------------------------------------------------------------------------
(* The daemon *)

\* attributedSessionId: the last session registered, else the caller's.
Attributed(s) == IF active = None THEN s ELSE active

Audited(s, kind) == trail' = [trail EXCEPT ![s][kind] = @ + 1]

-----------------------------------------------------------------------------
(* SessionStart: handleSessionStart, decidePosture *)

\* Knowledge keeps a small repository light; size makes a large one full.
PostureOf ==
    IF repo.size = 2 THEN "full"
    ELSE IF repo.size = 0 /\ ~repo.knows THEN "idle" ELSE "light"

\* resolveGovernance and registerSession.
Assess(s) ==
    /\ left.starts > 0 /\ sess[s].at # "assessed" /\ call[s] = Idle
    /\ sess' = [sess EXCEPT ![s] = [at |-> "assessed", posture |-> None, written |-> FALSE]]
    /\ active' = IF up THEN s ELSE active
    /\ left' = [left EXCEPT !.starts = @ - 1]
    /\ UNCHANGED <<up, repo, fresh, record, call, orphans, trail, real, past>>

\* The record is written as well as it can be, and the decision posted.
Decide(s) ==
    /\ sess[s].at = "assessed"
    /\ \E written \in BOOLEAN :
          /\ sess' = [sess EXCEPT ![s].at = "open", ![s].posture = PostureOf, ![s].written = written]
          /\ record' = IF written
                       THEN [session |-> s, posture |-> PostureOf]
                       ELSE record
    /\ active' = IF up THEN s ELSE active
    /\ UNCHANGED <<up, repo, fresh, call, orphans, trail, real, left, past>>

-----------------------------------------------------------------------------
(* PreToolUse: handlePreToolUse *)

\* Mutant of IdleFor: the record of whichever session.
IdleForAny(s) == record # None /\ record.posture = "idle"
IdleFor(s) == record # None /\ record.posture = "idle" /\ record.session = s

\* A command is wrapped that is no pipe yet, does nothing the allowlist denies
\* and is of a shape it allows. A cd before it and a merge of its descriptors
\* are no composition.
DecideRewrite(command) ==
    /\ ~command.piped
    /\ (command.tail \ {"merge"}) \cap Deny = {}
    /\ command.tail \cap Allow # {}

Oversized(c) == c.tool = "Read" /\ ~c.sliced /\ Size[c.file] = "huge"

\* What the hook wants to do with a call, once the daemon has answered. A call
\* "pass"es, and a "deny" of a wholesale rewrite needs no daemon.
Wanted(c) ==
    CASE c.tool = "Read"  -> IF Size[c.file] = "small" THEN "pass"
                             ELSE IF Size[c.file] = "mid" THEN "cap"
                             ELSE IF c.sliced THEN "pass" ELSE "mirror"
      [] c.tool = "Write" -> IF c.wholesale THEN "deny" ELSE "pass"
      [] c.tool = "Bash"  -> IF DecideRewrite(c.command) THEN "wrap" ELSE "pass"
      [] c.tool = "Grep"  -> IF c.scoped THEN "pass" ELSE "redirect"

At(s, step, prepared) == call' = [call EXCEPT ![s] = [@ EXCEPT !.at = step, !.prepared = prepared]]
Over(s) == call' = [call EXCEPT ![s] = Idle]
Served(s) == real' = [real EXCEPT ![s] = @ + 1]
\* What is left of a call that the hook lets pass: a command may be a pipe.
Passed(c) ==
    IF c.tool = "Bash" /\ c.command.piped THEN [at |-> "run", c |-> c, prepared |-> FALSE] ELSE Idle

\* Idle gear, with the one exception of an oversized artifact.
Slept(s, c) == IdleFor(s) /\ ~Oversized(c)
Idled(s) == past.idled \cup {<<s, sess[s].posture, sess[s].written>>}

PreToolUse(s, c) ==
    /\ sess[s].at = "open" /\ call[s] = Idle /\ left.calls > 0
    /\ left' = [left EXCEPT !.calls = @ - 1]
    /\ past' = [past EXCEPT !.idled = IF Slept(s, c) THEN Idled(s) ELSE @]
    /\ call' = [call EXCEPT ![s] =
                   IF Slept(s, c) \/ Wanted(c) \in {"pass", "deny"} THEN Passed(c)
                   ELSE [at |-> "probe", c |-> c, prepared |-> FALSE]]
    /\ UNCHANGED real
    /\ UNCHANGED <<up, active, repo, fresh, record, sess, orphans, trail>>

\* The daemon answered: a fresh entry is served without asking it to build one.
Answered(s) ==
    LET c == call[s].c
    IN  \/ Wanted(c) \in {"cap", "redirect"} /\ Over(s)
        \/ Wanted(c) = "wrap" /\ At(s, "notify", FALSE)
        \/ Wanted(c) = "mirror" /\ At(s, IF c.file \in fresh THEN "notify" ELSE "prepare", FALSE)

\* Mutant of Probe: the hook insists on a daemon.
ProbeInsisting(s) ==
    /\ call[s].at = "probe" /\ up
    /\ Answered(s)
    /\ UNCHANGED <<up, active, repo, fresh, record, sess, orphans, trail, real, left, past>>

\* sidecarUp. Down means that the call passes.
Probe(s) ==
    /\ call[s].at = "probe"
    /\ IF up THEN Answered(s) ELSE Over(s)
    /\ UNCHANGED <<up, active, repo, fresh, record, sess, orphans, trail, real, left, past>>

\* /prepare-skeleton: an entry that became fresh meanwhile; a build, audited as
\* a distill; a build the gates refuse, audited as served raw and passed
\* through; a file type without a builder, audited as passed through.
Built(f, by) ==
    \/ f \in fresh /\ UNCHANGED <<trail, fresh>>
    \/ f \notin fresh /\ fresh' = fresh \cup {f} /\ Audited(by, "distill")
Refused(by) ==
    \/ trail' = [trail EXCEPT ![by].raw = @ + 1, ![by].passthrough = @ + 1]
    \/ Audited(by, "passthrough")

Prepare(s) ==
    LET f == call[s].c.file
    IN  /\ call[s].at = "prepare" /\ up
        /\ \/ /\ Built(f, Attributed(s)) /\ At(s, "notify", TRUE)
              /\ past' = [past EXCEPT !.under = @ + IF f \in fresh THEN 1 ELSE 0]
           \/ /\ f \notin fresh /\ Refused(Attributed(s)) /\ Over(s)
              /\ UNCHANGED <<fresh, past>>
        /\ UNCHANGED <<up, active, repo, record, sess, orphans, real, left>>

\* Eight seconds are over or the daemon is gone: the Read passes raw. A build
\* under way goes on.
PrepareLate(s) ==
    /\ call[s].at = "prepare"
    /\ Over(s)
    /\ \/ UNCHANGED orphans
       \/ up /\ orphans' = orphans \cup {[file |-> call[s].c.file, by |-> Attributed(s)]}
    /\ UNCHANGED <<up, active, repo, fresh, record, sess, trail, real, left, past>>

OrphanBuilt(o) ==
    /\ up
    /\ orphans' = orphans \ {o}
    /\ \/ o.file = None /\ Audited(o.by, "distill") /\ UNCHANGED fresh
       \/ o.file # None /\ Built(o.file, o.by)
    /\ past' = [past EXCEPT !.over = @ + IF o.file \in fresh THEN 0 ELSE 1]
    /\ UNCHANGED <<up, active, repo, record, sess, call, real, left>>

\* The rewrite is announced, which registers the session, and handed back
\* whether or not the daemon heard of it. Claude Code then reads the entry.
Notify(s) ==
    LET c == call[s].c
    IN  /\ call[s].at = "notify"
        /\ \E heard \in BOOLEAN :
              /\ heard => up
              /\ active' = IF heard THEN s ELSE active
              /\ IF Wanted(c) = "wrap"
                 THEN At(s, "run", FALSE) /\ UNCHANGED <<trail, real, past>>
                 ELSE /\ Over(s) /\ Served(s)
                      /\ IF heard THEN Audited(s, IF call[s].prepared THEN "prepared" ELSE "mirror")
                         ELSE UNCHANGED trail
                      /\ past' = [past EXCEPT !.under =
                             @ + IF ~heard /\ ~call[s].prepared THEN 1 ELSE 0]
        /\ UNCHANGED <<up, repo, fresh, record, sess, orphans, left>>

\* redutok-pipe: the command has run; its output is distilled, served raw
\* because a gate refused it, or replayed raw because the daemon was gone or
\* late, in which case it may still distil.
Pipe(s) ==
    /\ call[s].at = "run"
    /\ Over(s)
    /\ \/ up /\ Audited(Attributed(s), "distill") /\ Served(s) /\ UNCHANGED orphans
       \/ up /\ Audited(Attributed(s), "raw") /\ UNCHANGED <<real, orphans>>
       \/ UNCHANGED <<trail, real, orphans>>
       \/ /\ up /\ orphans' = orphans \cup {[file |-> None, by |-> Attributed(s)]}
          /\ UNCHANGED <<trail, real>>
    /\ UNCHANGED <<up, active, repo, fresh, record, sess, left, past>>

\* PostToolUse registers the session unless it sleeps.
PostToolUse(s) ==
    /\ sess[s].at = "open" /\ call[s] = Idle /\ up /\ ~IdleFor(s)
    /\ active' = s
    /\ UNCHANGED <<up, repo, fresh, record, sess, call, orphans, trail, real, left, past>>

\* UserPromptSubmit and PreCompact say nothing in idle gear.
Prompt(s) ==
    /\ sess[s].at = "open" /\ call[s] = Idle /\ IdleFor(s)
    /\ past' = [past EXCEPT !.idled = Idled(s)]
    /\ UNCHANGED <<up, active, repo, fresh, record, sess, call, orphans, trail, real, left>>

\* Stop and SessionEnd notify the daemon whatever the posture.
SessionEnd(s) ==
    /\ sess[s].at = "open" /\ call[s] = Idle /\ up
    /\ active' = s
    /\ UNCHANGED <<up, repo, fresh, record, sess, call, orphans, trail, real, left, past>>

-----------------------------------------------------------------------------
(* Stop: measuredServes, computeSessionSavings, buildSessionReceipt *)

\* Mutant of Measured: every rewrite to the mirror is a serve.
MeasuredTwice(s) == trail[s].distill + trail[s].mirror + trail[s].prepared + trail[s].raw

\* Serves with a raw byte count. A rewrite to a prepared entry is left out: the
\* build was audited with the same raw.
Measured(s) == trail[s].distill + trail[s].mirror + trail[s].raw

\* A raw serve avoided nothing.
Avoided(s) == Measured(s) - trail[s].raw

-----------------------------------------------------------------------------
(* Around the hooks *)

Change == left.changes > 0 /\ left' = [left EXCEPT !.changes = @ - 1]

\* A daemon that stops forgets its active session and the requests it was at.
SidecarUp ==
    /\ Change /\ ~up /\ up' = TRUE
    /\ UNCHANGED <<active, repo, fresh, record, sess, call, orphans, trail, real, past>>
SidecarDown ==
    /\ Change /\ up /\ up' = FALSE
    /\ active' = None /\ orphans' = {}
    /\ UNCHANGED <<repo, fresh, record, sess, call, trail, real, past>>

\* The repository grows or shrinks, a lesson graduates or is withdrawn.
RepoChanges ==
    /\ Change
    /\ \/ \E n \in 0..2 : repo' = [repo EXCEPT !.size = n] /\ repo' # repo
       \/ repo' = [repo EXCEPT !.knows = ~@]
    /\ UNCHANGED <<up, active, fresh, record, sess, call, orphans, trail, real, past>>

\* A file changes; a refresh catches up with one.
Edit(f) ==
    /\ Change /\ f \in fresh /\ fresh' = fresh \ {f}
    /\ UNCHANGED <<up, active, repo, record, sess, call, orphans, trail, real, past>>
Refresh(f) ==
    /\ Change /\ up /\ f \notin fresh /\ fresh' = fresh \cup {f}
    /\ UNCHANGED <<up, active, repo, record, sess, call, orphans, trail, real, past>>

Hook(s) == Probe(s) \/ Prepare(s) \/ PrepareLate(s) \/ Notify(s) \/ Pipe(s)

Next ==
    \/ \E s \in Sessions :
          \/ Assess(s) \/ Decide(s) \/ Hook(s) \/ PostToolUse(s) \/ Prompt(s) \/ SessionEnd(s)
          \/ \E c \in Calls : PreToolUse(s, c)
    \/ \E o \in orphans : OrphanBuilt(o)
    \/ SidecarUp \/ SidecarDown \/ RepoChanges
    \/ \E f \in Files : Edit(f) \/ Refresh(f)

\* Every request of a hook has a timeout, and commands end.
Spec == Init /\ [][Next]_vars /\ \A s \in Sessions : WF_vars(Hook(s))

-----------------------------------------------------------------------------
(* Properties *)

\* "The failure direction is never a wrongly idle session": a session whose
\* turns pass untouched on account of the posture has itself, at its last
\* start, decided to idle, whatever other sessions wrote to the one record all
\* of them share; unless the record of that start could not be written.
IdleWasDecided == \A t \in past.idled : t[2] = "idle" \/ ~t[3]

\* No serve is counted twice and none is made up: over all receipts, what
\* counts as avoided is what entered context as a skeleton or a distillate, but
\* for the rewrites the daemon could not count (it was gone, or had found the
\* entry fresh after all) and what it went on building after its caller gave up.
Saved == [s \in Sessions |-> Avoided(s)]
Quiet == \A s \in Sessions : call[s] = Idle
SavingsAddUp ==
    Quiet => SumFunction(Saved) + past.under = SumFunction(real) + past.over

\* Fail-open: with the daemon in whatever state, every call ends.
FailOpen == \A s \in Sessions : call[s] # Idle ~> call[s] = Idle
=============================================================================
