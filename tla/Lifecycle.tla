----------------------------- MODULE Lifecycle -----------------------------
(***************************************************************************)
(* The life of a repository's sidecar daemon, and how the short-lived      *)
(* processes around it find it, judge it, revive it and stop it: the       *)
(* daemon itself (sidecar/daemon.ts), `redutok up` and `redutok down`      *)
(* (meter/sidecar-cli.ts) and the hooks of a session (hooks/hook-main.ts,  *)
(* liveness.ts, handlers.ts). They share nothing but files under .dcp and  *)
(* TCP ports: the pidfile and the restart marker are read and written by   *)
(* several processes with no lock, and a port may belong to another        *)
(* repository's daemon.                                                    *)
(*                                                                         *)
(* A step runs from one await of a process to the next; the claim of a     *)
(* restart is split between its read and its write, which two processes    *)
(* interleave without any await.                                           *)
(***************************************************************************)
EXTENDS Naturals, FiniteSets

CONSTANTS Sessions,   \* sessions opened in this repository
          Ports,      \* TCP ports of the machine
          CfgPort,    \* the port .dcp/config.json names
          None,
          MaxDaemons, \* processes of this repository's daemon ever spawned
          MaxFaults,  \* crashes and hangs, together
          MaxCmds,    \* up and down commands
          MaxOpens,   \* SessionStart events
          MaxForeign  \* daemons of other repositories that ever appear

ASSUME LifecycleAssumption ==
    /\ CfgPort \in Ports
    /\ None \notin Ports \cup Sessions \cup [pid : Nat, port : Ports]
    /\ {MaxDaemons, MaxFaults, MaxCmds, MaxOpens, MaxForeign} \subseteq Nat

Pids == 1..MaxDaemons

VARIABLES
    daemon,    \* by pid: how far the process is, its port, its activeId
    hung,      \* daemons whose event loop does not answer
    foreign,   \* ports held by other repositories' daemons
    pidfile,   \* .dcp/sidecar.pid.json
    marker,    \* .dcp/sidecar-restart.json
    hook,      \* by session: its SessionStart, from probe over mark and wait to register
    cli,       \* the one up or down command in progress
    left,      \* what is left of the bounds
    past       \* history the properties speak about

vars == <<daemon, hung, foreign, pidfile, marker, hook, cli, left, past>>

\* A daemon goes from unborn over spawned, listen and up to close and stopped, or
\* dies. listen: bound to its port, pidfile not yet written, no request handled
\* yet. close: the server is closed, the pidfile not yet removed.

\* A session whose SessionStart hook is not running.
Returned(at) == [at |-> at, port |-> CfgPort, seen |-> None, governed |-> FALSE, met |-> FALSE]

\* `redutok up` was just run in a repository that had no daemon.
Init ==
    /\ daemon = [d \in Pids |-> [at |-> IF d = 1 THEN "spawned" ELSE "unborn",
                                 port |-> None, session |-> None]]
    /\ hung = {}
    /\ foreign = {}
    /\ pidfile = None
    /\ marker = None
    /\ hook = [s \in Sessions |-> Returned("closed")]
    /\ cli = [at |-> "none", seen |-> None]
    /\ left = [fault |-> MaxFaults, cmd |-> MaxCmds, open |-> MaxOpens, foreign |-> MaxForeign]
    /\ past = [claims |-> {}, twice |-> FALSE, rivals |-> FALSE, overlap |-> FALSE]

-----------------------------------------------------------------------------
(* What a process can find out about a daemon *)

Alive(d) == daemon[d].at \in {"spawned", "listen", "up", "close"}
Answers(d) == daemon[d].at = "up" /\ d \notin hung
Owner(p) == {d \in Pids : daemon[d].port = p /\ daemon[d].at \in {"listen", "up"}}
Free(p) == Owner(p) = {} /\ p \notin foreign

\* Mutant of Healthy: any daemon will do.
HealthyWhoever(p) == p \in foreign \/ \E d \in Owner(p) : Answers(d)

\* GET /health on a port, matched with the caller's repository: a foreign
\* daemon's answer is never governance.
Healthy(p) == \E d \in Owner(p) : Answers(d)

\* hook-main.ts, pipe.ts and mcp/config.ts agree: the pidfile beats config.
Discovered == IF pidfile = None THEN CfgPort ELSE pidfile.port

\* A POST that names its session and its repository: the daemon on the port
\* makes the session its active one, another repository's daemon refuses it.
Notified(p, s) ==
    daemon' = [d \in Pids |-> IF d \in Owner(p) /\ Answers(d)
                              THEN [daemon[d] EXCEPT !.session = s] ELSE daemon[d]]

\* What is left of a process that no longer listens.
Gone(how) == [at |-> how, port |-> None, session |-> None]

Unborn == {d \in Pids : daemon[d].at = "unborn"}
Spawned(d) ==
    /\ d \in Unborn /\ \A e \in Unborn : d <= e
    /\ daemon' = [daemon EXCEPT ![d].at = "spawned"]

InFlight(s) == hook[s].at \notin {"closed", "open"}

\* Two live daemons of one repository are rivals from then on.
Rivalry(d) == past.rivals \/ \E e \in Pids : e # d /\ Alive(e)

-----------------------------------------------------------------------------
(* The daemon: sidecar/daemon-main.ts, startDaemon and its close *)

\* Mutant of Listen: no second attempt on an ephemeral port.
ListenConfigured(d) ==
    /\ daemon[d].at = "spawned" /\ Free(CfgPort)
    /\ daemon' = [daemon EXCEPT ![d].at = "listen", ![d].port = CfgPort]
    /\ UNCHANGED <<hung, foreign, pidfile, marker, hook, cli, left, past>>

\* listenOn: the configured port, or an ephemeral one when it is taken.
Listen(d) ==
    /\ daemon[d].at = "spawned"
    /\ \E p \in Ports :
          /\ Free(p)
          /\ Free(CfgPort) => p = CfgPort
          /\ daemon' = [daemon EXCEPT ![d].at = "listen", ![d].port = p]
    /\ UNCHANGED <<hung, foreign, pidfile, marker, hook, cli, left, past>>

WritePidfile(d) ==
    /\ daemon[d].at = "listen"
    /\ daemon' = [daemon EXCEPT ![d].at = "up"]
    /\ pidfile' = [pid |-> d, port |-> daemon[d].port]
    /\ hook' = [s \in Sessions |-> [hook[s] EXCEPT !.met = @ \/ InFlight(s)]]
    /\ UNCHANGED <<hung, foreign, marker, cli, left, past>>

\* Mutant of Stop: the pidfile is left behind.
StopKeepingPidfile(d) ==
    /\ daemon[d].at = "close"
    /\ daemon' = [daemon EXCEPT ![d] = Gone("stopped")]
    /\ UNCHANGED <<hung, foreign, pidfile, marker, hook, cli, left, past>>

\* The end of close: whichever pidfile is there is removed, then the process ends.
Stop(d) ==
    /\ daemon[d].at = "close"
    /\ daemon' = [daemon EXCEPT ![d] = Gone("stopped")]
    /\ pidfile' = None
    /\ UNCHANGED <<hung, foreign, marker, hook, cli, left, past>>

\* A crash, at any point of its life, leaves the pidfile as it is.
Crash(d) ==
    /\ Alive(d)
    /\ left.fault > 0
    /\ daemon' = [daemon EXCEPT ![d] = Gone("dead")]
    /\ hung' = hung \ {d}
    /\ left' = [left EXCEPT !.fault = @ - 1]
    /\ UNCHANGED <<foreign, pidfile, marker, hook, cli, past>>

Hang(d) ==
    /\ daemon[d].at = "up" /\ d \notin hung
    /\ left.fault > 0
    /\ hung' = hung \cup {d}
    /\ left' = [left EXCEPT !.fault = @ - 1]
    /\ UNCHANGED <<daemon, foreign, pidfile, marker, hook, cli, past>>

\* Another repository's daemon comes up on a free port, and stays.
ForeignUp(p) ==
    /\ left.foreign > 0 /\ Free(p)
    /\ foreign' = foreign \cup {p}
    /\ left' = [left EXCEPT !.foreign = @ - 1]
    /\ UNCHANGED <<daemon, hung, pidfile, marker, hook, cli, past>>

-----------------------------------------------------------------------------
(* redutok up, redutok down: sidecar-cli.ts *)

Command(c) ==
    /\ cli.at = "none" /\ left.cmd > 0
    /\ cli' = IF c = "down" /\ pidfile = None THEN cli ELSE [at |-> c, seen |-> pidfile]
    /\ left' = [left EXCEPT !.cmd = @ - 1]
    /\ UNCHANGED <<daemon, hung, foreign, pidfile, marker, hook, past>>

\* Up finds its own daemon answering on the port of the pidfile it read, or
\* spawns one; what it then waits for changes nothing.
Up ==
    /\ cli.at = "up"
    /\ cli' = [at |-> "none", seen |-> None]
    /\ IF cli.seen # None /\ Healthy(cli.seen.port)
       THEN UNCHANGED <<daemon, past>>
       ELSE \E d \in Pids : Spawned(d) /\ past' = [past EXCEPT !.rivals = Rivalry(d)]
    /\ UNCHANGED <<hung, foreign, pidfile, marker, hook, left>>

\* Down posts /shutdown, which names no repository, to the port of the pidfile
\* it read: whoever answers there closes. When nobody does it kills the pid.
Down ==
    LET p == cli.seen.port
        k == cli.seen.pid
    IN  /\ cli.at = "down"
        /\ cli' = [at |-> "none", seen |-> None]
        /\ foreign' = foreign \ {p}
        /\ daemon' = [d \in Pids |->
                 IF d \in Owner(p) /\ Answers(d) THEN Gone("close")
                 ELSE IF d = k /\ Alive(d) /\ ~Healthy(p) /\ p \notin foreign
                      THEN Gone("dead") ELSE daemon[d]]
        /\ hung' = {d \in hung : daemon'[d].at = "up"}
        /\ UNCHANGED <<pidfile, marker, hook, left, past>>

-----------------------------------------------------------------------------
(* SessionStart: resolveGovernance and registerSession *)

\* hook-main discovers the port, then the assessment reads the pidfile.
Open(s) ==
    /\ ~InFlight(s) /\ left.open > 0
    /\ hook' = [hook EXCEPT ![s] = [at |-> "probe", port |-> Discovered, seen |-> pidfile,
                                    governed |-> FALSE, met |-> \E d \in Pids : Answers(d)]]
    /\ left' = [left EXCEPT !.open = @ - 1]
    /\ past' = [past EXCEPT !.overlap = @ \/ \E t \in Sessions : InFlight(t)]
    /\ UNCHANGED <<daemon, hung, foreign, pidfile, marker, cli>>

\* Mutant of Probe: the marker is not consulted.
ProbeUnmarked(s) ==
    LET h == hook[s]
        port == IF h.seen = None THEN h.port ELSE h.seen.port
        stale == h.seen # None /\ port \notin foreign /\ ~Alive(h.seen.pid)
    IN  /\ h.at = "probe"
        /\ hook' = [hook EXCEPT ![s] =
              IF Healthy(port) THEN [h EXCEPT !.at = "register", !.governed = TRUE]
              ELSE IF stale /\ pidfile # None
                   THEN [h EXCEPT !.at = "mark", !.seen = pidfile]
                   ELSE [h EXCEPT !.at = "register"]]
        /\ UNCHANGED <<daemon, hung, foreign, pidfile, marker, cli, left, past>>

\* One health probe on the pidfile's port; only a pidfile whose process is
\* gone is a corpse. The corpse's pidfile is then read again, and a restart
\* is not attempted when the marker names it.
Probe(s) ==
    LET h == hook[s]
        port == IF h.seen = None THEN h.port ELSE h.seen.port
        stale == h.seen # None /\ port \notin foreign /\ ~Alive(h.seen.pid)
    IN  /\ h.at = "probe"
        /\ hook' = [hook EXCEPT ![s] =
              IF Healthy(port) THEN [h EXCEPT !.at = "register", !.governed = TRUE]
              ELSE IF stale /\ pidfile # None /\ marker # pidfile
                   THEN [h EXCEPT !.at = "mark", !.seen = pidfile]
                   ELSE [h EXCEPT !.at = "register"]]
        /\ UNCHANGED <<daemon, hung, foreign, pidfile, marker, cli, left, past>>

\* The claim is written and the daemon spawned. Spawning is left out once the
\* bound on processes is reached, as for a spawn that fails.
Mark(s) ==
    /\ hook[s].at = "mark"
    /\ marker' = hook[s].seen
    /\ hook' = [hook EXCEPT ![s].at = "wait"]
    /\ past' = [past EXCEPT !.claims = @ \cup {hook[s].seen},
                            !.twice = @ \/ hook[s].seen \in past.claims,
                            !.rivals = @ \/ (Unborn # {} /\ \E e \in Pids : Alive(e))]
    /\ \/ \E d \in Pids : Spawned(d)
       \/ Unborn = {} /\ UNCHANGED daemon
    /\ UNCHANGED <<hung, foreign, pidfile, cli, left>>

\* The wait ends when the pidfile names a live process that answers, or at
\* the deadline, which may come first.
Wait(s) ==
    /\ hook[s].at = "wait"
    /\ \E up \in BOOLEAN :
          /\ up => pidfile # None /\ Alive(pidfile.pid) /\ Healthy(pidfile.port)
          /\ hook' = [hook EXCEPT ![s].at = "register", ![s].governed = up]
    /\ UNCHANGED <<daemon, hung, foreign, pidfile, marker, cli, left, past>>

\* The session is announced at the port discovered when the hook began.
Register(s) ==
    /\ hook[s].at = "register"
    /\ Notified(hook[s].port, s)
    /\ hook' = [hook EXCEPT ![s] = Returned("open")]
    /\ UNCHANGED <<hung, foreign, pidfile, marker, cli, left, past>>

\* Mutant of ToolUse: config beats pidfile.
ToolUseConfigured(s) ==
    /\ hook[s].at = "open"
    /\ Notified(CfgPort, s)
    /\ UNCHANGED <<hung, foreign, pidfile, marker, hook, cli, left, past>>

\* PostToolUse: every notify registers the session again, at the port that a
\* new hook process discovers.
ToolUse(s) ==
    /\ hook[s].at = "open"
    /\ Notified(Discovered, s)
    /\ UNCHANGED <<hung, foreign, pidfile, marker, hook, cli, left, past>>

Starts(d) == Listen(d) \/ WritePidfile(d)
Opens(s) == Probe(s) \/ Mark(s) \/ Wait(s) \/ Register(s)

Next ==
    \/ \E d \in Pids : Starts(d) \/ Stop(d) \/ Crash(d) \/ Hang(d)
    \/ \E p \in Ports : ForeignUp(p)
    \/ \E c \in {"up", "down"} : Command(c)
    \/ Up \/ Down
    \/ \E s \in Sessions : Open(s) \/ Opens(s) \/ ToolUse(s)

\* A spawned process runs, a close completes, and a hook's steps are bounded
\* by timeouts; nothing obliges a user, another repository or a crash.
Fairness ==
    /\ \A d \in Pids : WF_vars(Starts(d)) /\ WF_vars(Stop(d))
    /\ \A s \in Sessions : WF_vars(Opens(s))

Spec == Init /\ [][Next]_vars /\ Fairness

-----------------------------------------------------------------------------
(* Properties *)

\* As long as no two daemons of the repository were ever alive together, the
\* pidfile names every daemon that serves, with its real port, and never one
\* that was closed cleanly: a daemon stopped with `redutok down` is not taken
\* for a crash by the next SessionStart (the pidfile written after listenOn
\* and removed at the end of close, the only thing discovery goes by).
PidfileFaithful ==
    ~past.rivals =>
        /\ \A d \in Pids : daemon[d].at = "up" => pidfile = [pid |-> d, port |-> daemon[d].port]
        /\ pidfile # None => daemon[pidfile.pid].at \in {"up", "close", "dead"}

\* A session whose SessionStart says governance is active, or that it was
\* restarted, did meet a daemon of its own repository that answered while the
\* hook ran: never a foreign daemon on the pidfile's or the default port.
GovernedMetItsDaemon == \A s \in Sessions : hook[s].governed => hook[s].met

\* One auto-restart per dead (pid, port): while no two SessionStarts ran at
\* once, no corpse is claimed twice, however many sessions open over it, other
\* corpses are claimed in between, or the restarted daemon dies on startup.
RestartedOnce == ~past.overlap => ~past.twice

\* Once nothing more crashes, a claimed restart brings a daemon up, also when
\* another repository took the configured port meanwhile.
Revived ==
    \A s \in Sessions :
        hook[s].at = "mark" /\ Unborn # {} /\ left.fault = 0 ~> \E d \in Pids : daemon[d].at = "up"

\* Attribution is regained: in a repository whose pidfile has settled on a
\* daemon that answers, a session that keeps using tools is again and
\* again the daemon's active session, also when its SessionStart registered it
\* at the port of a daemon that is gone.
Settled == pidfile # None /\ daemon[pidfile.pid].port = pidfile.port /\ Answers(pidfile.pid)
AttributionRegained ==
    \A s \in Sessions :
        <>[]Settled /\ []<><<ToolUse(s)>>_vars
            => []<>(pidfile # None /\ daemon[pidfile.pid].session = s)

=============================================================================
