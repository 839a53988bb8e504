--------------------------- MODULE LifecycleProofs ---------------------------
(***************************************************************************)
(* What the daemon's pidfile, the restart marker and a SessionStart can be *)
(* relied on for, proved for any number of sessions, ports, processes of   *)
(* the daemon, foreign daemons, commands, crashes and hangs.               *)
(***************************************************************************)
EXTENDS Lifecycle, TLAPS

-----------------------------------------------------------------------------
(* Types. *)

Stages == {"unborn", "spawned", "listen", "up", "close", "stopped", "dead"}
Daemons == [at : Stages, port : Ports \cup {None}, session : Sessions \cup {None}]
Records == [pid : Pids, port : Ports]
Steps == {"closed", "open", "probe", "mark", "wait", "register"}
Hooks == [at : Steps, port : Ports, seen : Records \cup {None}, governed : BOOLEAN, met : BOOLEAN]

TypeOK ==
    /\ daemon \in [Pids -> Daemons]
    /\ hung \in SUBSET Pids
    /\ foreign \in SUBSET Ports
    /\ pidfile \in Records \cup {None}
    /\ marker \in Records \cup {None}
    /\ hook \in [Sessions -> Hooks]
    /\ cli \in [at : {"none", "up", "down"}, seen : Records \cup {None}]
    /\ left \in [fault : Nat, cmd : Nat, open : Nat, foreign : Nat]
    /\ past \in [claims : SUBSET Records, twice : BOOLEAN, rivals : BOOLEAN, overlap : BOOLEAN]

\* A daemon that is bound has a port; a hook about to mark a corpse has seen
\* one, and down has read a pidfile.
Bound == \A d \in Pids : daemon[d].at \in {"listen", "up"} => daemon[d].port \in Ports
Sighted ==
    /\ \A s \in Sessions : hook[s].at = "mark" => hook[s].seen # None
    /\ cli.at = "down" => cli.seen # None

Typed == TypeOK /\ Bound /\ Sighted

-----------------------------------------------------------------------------
(* The invariants. *)

\* A daemon that answers while a SessionStart is in flight has been met by it.
Meeting == \A s \in Sessions :
    /\ InFlight(s) /\ (\E d \in Pids : Answers(d)) => hook[s].met
    /\ hook[s].governed => hook[s].met

\* A process writes the pidfile once in its life: what is in the pidfile, was
\* claimed or is about to be is of a process that has done so.
Writers == {"up", "close", "stopped", "dead"}
HasWritten(d) == daemon[d].at \in Writers
WrittenOnce ==
    /\ pidfile # None => HasWritten(pidfile.pid)
    /\ \A c \in past.claims : HasWritten(c.pid)
    /\ \A s \in Sessions : hook[s].at = "mark" => HasWritten(hook[s].seen.pid)

\* While no two SessionStarts have overlapped, the marker names the pidfile if
\* any claim does, and what is about to be claimed has not been.
ClaimedOnce == ~past.overlap =>
    /\ ~past.twice
    /\ \A s, t \in Sessions : InFlight(s) /\ InFlight(t) => s = t
    /\ pidfile \in past.claims => pidfile = marker
    /\ \A s \in Sessions : hook[s].at = "mark" =>
         hook[s].seen \notin past.claims /\ pidfile \notin past.claims

\* While no two daemons of the repository were alive together, one at most is
\* now.
AtMostOne == ~past.rivals => \A d, e \in Pids : Alive(d) /\ Alive(e) => d = e

-----------------------------------------------------------------------------
(* Type correctness. *)

LEMMA NoneApart == None \notin Ports /\ None \notin Sessions /\ None \notin Records
<1>1. Records \subseteq [pid : Nat, port : Ports]
  BY DEF Records, Pids
<1> QED BY <1>1, LifecycleAssumption

LEMMA GoneType == ASSUME NEW how \in Stages PROVE Gone(how) \in Daemons
BY DEF Gone, Daemons

\* A daemon that moves on, and the rest as they are.
LEMMA DaemonSet ==
    ASSUME Typed, NEW d \in Pids, NEW b \in Daemons, b.at \in {"listen", "up"} => b.port \in Ports,
           daemon' = [daemon EXCEPT ![d] = b]
    PROVE  daemon' \in [Pids -> Daemons] /\ Bound'
BY DEF Typed, TypeOK, Bound

LEMMA SpawnedType ==
    ASSUME Typed, NEW d \in Pids, Spawned(d) PROVE daemon' \in [Pids -> Daemons] /\ Bound'
<1>1. daemon[d] \in Daemons
  BY DEF Typed, TypeOK
<1>2. [daemon[d] EXCEPT !.at = "spawned"] \in Daemons
  BY <1>1 DEF Daemons, Stages
<1>3. [daemon[d] EXCEPT !.at = "spawned"].at = "spawned"
  BY <1>1 DEF Daemons
<1> QED BY <1>2, <1>3, DaemonSet DEF Spawned

LEMMA NotifiedType ==
    ASSUME Typed, NEW p, NEW s \in Sessions, Notified(p, s)
    PROVE  daemon' \in [Pids -> Daemons] /\ Bound'
<1>1. ASSUME NEW d \in Pids
      PROVE  daemon'[d] \in Daemons /\ daemon'[d].at = daemon[d].at /\ daemon'[d].port = daemon[d].port
  <2>1. daemon[d] \in Daemons /\ s \in Sessions \cup {None}
    BY DEF Typed, TypeOK
  <2> DEFINE b == [daemon[d] EXCEPT !.session = s]
  <2>2. b \in Daemons /\ b.at = daemon[d].at /\ b.port = daemon[d].port
    BY <2>1 DEF Daemons
  <2>3. daemon'[d] = b \/ daemon'[d] = daemon[d]
    BY DEF Notified
  <2> HIDE DEF b
  <2> QED BY <2>1, <2>2, <2>3
<1>2. daemon' = [d \in Pids |-> daemon'[d]]
  BY DEF Notified
<1> QED BY <1>1, <1>2 DEF Typed, Bound

\* A hook that moves on.
LEMMA HookSet ==
    ASSUME Typed, NEW s \in Sessions, NEW h \in Hooks, h.at = "mark" => h.seen # None,
           hook' = [hook EXCEPT ![s] = h], UNCHANGED cli
    PROVE  hook' \in [Sessions -> Hooks] /\ Sighted'
BY DEF Typed, TypeOK, Sighted

LEMMA InitTyped == Init => Typed
<1> SUFFICES ASSUME Init PROVE Typed
  OBVIOUS
<1>1. daemon \in [Pids -> Daemons] /\ Bound
  BY DEF Init, Daemons, Stages, Bound
<1>2. hook \in [Sessions -> Hooks] /\ \A s \in Sessions : hook[s].at = "closed"
  BY LifecycleAssumption DEF Init, Returned, Hooks, Steps
<1>3. left \in [fault : Nat, cmd : Nat, open : Nat, foreign : Nat]
  BY LifecycleAssumption DEF Init
<1>4. past \in [claims : SUBSET Records, twice : BOOLEAN, rivals : BOOLEAN, overlap : BOOLEAN]
  BY DEF Init
<1> QED BY <1>1, <1>2, <1>3, <1>4 DEF Init, Typed, TypeOK, Sighted

LEMMA ListenTyped == ASSUME Typed, NEW d \in Pids, Listen(d) PROVE Typed'
<1>1. PICK p \in Ports : daemon' = [daemon EXCEPT ![d].at = "listen", ![d].port = p]
  BY DEF Listen
<1> DEFINE b == [daemon[d] EXCEPT !.at = "listen", !.port = p]
<1>2. daemon[d] \in Daemons
  BY DEF Typed, TypeOK
<1>3. b \in Daemons /\ b.port \in Ports
  BY <1>2 DEF Daemons, Stages
<1>4. daemon' = [daemon EXCEPT ![d] = b]
  BY <1>1 DEF Typed, TypeOK
<1>5. daemon' \in [Pids -> Daemons] /\ Bound'
  BY <1>3, <1>4, DaemonSet
<1> QED BY <1>5 DEF Listen, Typed, TypeOK, Sighted

\* A hook that meets a daemon, or does not.
LEMMA MetType ==
    ASSUME NEW h \in Hooks, NEW met \in BOOLEAN
    PROVE  /\ [h EXCEPT !.met = met] \in Hooks
           /\ [h EXCEPT !.met = met].at = h.at
           /\ [h EXCEPT !.met = met].seen = h.seen
BY DEF Hooks

LEMMA WritePidfileTyped == ASSUME Typed, NEW d \in Pids, WritePidfile(d) PROVE Typed'
<1>1. daemon[d] \in Daemons /\ daemon[d].port \in Ports
  BY DEF Typed, TypeOK, Bound, WritePidfile
<1> DEFINE b == [daemon[d] EXCEPT !.at = "up"]
<1>2. b \in Daemons /\ b.port \in Ports
  BY <1>1 DEF Daemons, Stages
<1>3. daemon' \in [Pids -> Daemons] /\ Bound'
  BY <1>2, DaemonSet DEF WritePidfile
<1>4. pidfile' \in Records
  BY <1>1 DEF WritePidfile, Records
<1>5. hook' \in [Sessions -> Hooks] /\ Sighted'
  <2>1. \A s \in Sessions :
          /\ [hook[s] EXCEPT !.met = @ \/ InFlight(s)] \in Hooks
          /\ [hook[s] EXCEPT !.met = @ \/ InFlight(s)].at = hook[s].at
          /\ [hook[s] EXCEPT !.met = @ \/ InFlight(s)].seen = hook[s].seen
    <3> TAKE s \in Sessions
    <3> DEFINE met == hook[s].met \/ InFlight(s)
    <3>1. hook[s] \in Hooks /\ met \in BOOLEAN
      BY DEF Typed, TypeOK
    <3> HIDE DEF met
    <3>2. /\ [hook[s] EXCEPT !.met = met] \in Hooks
          /\ [hook[s] EXCEPT !.met = met].at = hook[s].at
          /\ [hook[s] EXCEPT !.met = met].seen = hook[s].seen
      BY <3>1, MetType
    <3> QED BY <3>2 DEF met
  <2> QED BY <2>1 DEF WritePidfile, Typed, Sighted
<1> QED BY <1>3, <1>4, <1>5 DEF WritePidfile, Typed, TypeOK

LEMMA StopTyped == ASSUME Typed, NEW d \in Pids, Stop(d) PROVE Typed'
<1>1. daemon' \in [Pids -> Daemons] /\ Bound'
  BY GoneType, DaemonSet DEF Stop, Gone, Stages
<1> QED BY <1>1 DEF Stop, Typed, TypeOK, Sighted

LEMMA LeftType ==
    ASSUME TypeOK
    PROVE  /\ left.fault > 0 => [left EXCEPT !.fault = @ - 1] \in [fault : Nat, cmd : Nat, open : Nat, foreign : Nat]
           /\ left.cmd > 0 => [left EXCEPT !.cmd = @ - 1] \in [fault : Nat, cmd : Nat, open : Nat, foreign : Nat]
           /\ left.open > 0 => [left EXCEPT !.open = @ - 1] \in [fault : Nat, cmd : Nat, open : Nat, foreign : Nat]
           /\ left.foreign > 0 => [left EXCEPT !.foreign = @ - 1] \in [fault : Nat, cmd : Nat, open : Nat, foreign : Nat]
BY DEF TypeOK

LEMMA CrashTyped == ASSUME Typed, NEW d \in Pids, Crash(d) PROVE Typed'
<1>1. daemon' \in [Pids -> Daemons] /\ Bound'
  BY GoneType, DaemonSet DEF Crash, Gone, Stages
<1> QED BY <1>1, LeftType DEF Crash, Typed, TypeOK, Sighted

LEMMA HangTyped == ASSUME Typed, NEW d \in Pids, Hang(d) PROVE Typed'
BY LeftType DEF Hang, Typed, TypeOK, Sighted, Bound

LEMMA ForeignUpTyped == ASSUME Typed, NEW p \in Ports, ForeignUp(p) PROVE Typed'
BY LeftType DEF ForeignUp, Typed, TypeOK, Sighted, Bound

LEMMA CommandTyped == ASSUME Typed, NEW c \in {"up", "down"}, Command(c) PROVE Typed'
<1>1. /\ cli' \in [at : {"none", "up", "down"}, seen : Records \cup {None}]
      /\ cli'.at = "down" => cli'.seen # None
  BY DEF Command, Typed, TypeOK, Sighted
<1> QED BY <1>1, LeftType DEF Command, Typed, TypeOK, Sighted, Bound

LEMMA UpTyped == ASSUME Typed, Up PROVE Typed'
<1>1. cli' \in [at : {"none", "up", "down"}, seen : Records \cup {None}] /\ cli'.at = "none"
  BY DEF Up
<1>2. CASE UNCHANGED <<daemon, past>>
  BY <1>1, <1>2 DEF Up, Typed, TypeOK, Sighted, Bound
<1>3. ASSUME NEW d \in Pids, Spawned(d), past' = [past EXCEPT !.rivals = Rivalry(d)] PROVE Typed'
  <2>1. past' \in [claims : SUBSET Records, twice : BOOLEAN, rivals : BOOLEAN, overlap : BOOLEAN]
    BY <1>3 DEF Typed, TypeOK, Rivalry
  <2> QED BY <1>1, <1>3, <2>1, SpawnedType DEF Up, Typed, TypeOK, Sighted
<1> QED BY <1>2, <1>3 DEF Up

LEMMA DownTyped == ASSUME Typed, Down PROVE Typed'
<1>1. cli' \in [at : {"none", "up", "down"}, seen : Records \cup {None}] /\ cli'.at = "none"
  BY DEF Down
<1>2. ASSUME NEW d \in Pids
      PROVE  daemon'[d] \in {daemon[d], Gone("close"), Gone("dead")}
  BY DEF Down
<1>3. daemon' = [d \in Pids |-> daemon'[d]]
  BY DEF Down
<1>4. \A d \in Pids : daemon'[d] \in Daemons /\ (daemon'[d].at \in {"listen", "up"} => daemon'[d].port \in Ports)
  BY <1>2, GoneType DEF Typed, TypeOK, Bound, Gone, Stages
<1>5. daemon' \in [Pids -> Daemons] /\ Bound'
  BY <1>3, <1>4 DEF Bound
<1>6. hung' \in SUBSET Pids
  BY DEF Down, Typed, TypeOK
<1> QED BY <1>1, <1>5, <1>6 DEF Down, Typed, TypeOK, Sighted

LEMMA DiscoveredType == ASSUME Typed PROVE Discovered \in Ports
BY LifecycleAssumption DEF Typed, TypeOK, Discovered, Records

LEMMA OpenTyped == ASSUME Typed, NEW s \in Sessions, Open(s) PROVE Typed'
<1> DEFINE h == [at |-> "probe", port |-> Discovered, seen |-> pidfile, governed |-> FALSE,
                 met |-> \E d \in Pids : Answers(d)]
<1>1. h \in Hooks /\ h.at = "probe"
  BY DiscoveredType DEF Hooks, Steps, Typed, TypeOK
<1>2. hook' \in [Sessions -> Hooks] /\ Sighted'
  BY <1>1, HookSet DEF Open
<1>3. past' \in [claims : SUBSET Records, twice : BOOLEAN, rivals : BOOLEAN, overlap : BOOLEAN]
  BY DEF Open, Typed, TypeOK
<1> QED BY <1>2, <1>3, LeftType DEF Open, Typed, TypeOK, Bound

\* Where a probe leads: governance is reported of a daemon that answers, and a
\* corpse is marked that is in the pidfile and not in the marker.
LEMMA ProbeShape ==
    ASSUME Typed, NEW s \in Sessions, Probe(s)
    PROVE  \E h \in Hooks :
             /\ hook' = [hook EXCEPT ![s] = h]
             /\ h.met = hook[s].met
             /\ h.governed => hook[s].governed \/ \E d \in Pids : Answers(d)
             /\ \/ h.at = "register"
                \/ h.at = "mark" /\ h.seen = pidfile /\ pidfile # None /\ marker # pidfile
<1> DEFINE h == hook[s]
           port == IF h.seen = None THEN h.port ELSE h.seen.port
           stale == h.seen # None /\ port \notin foreign /\ ~Alive(h.seen.pid)
           governed == [h EXCEPT !.at = "register", !.governed = TRUE]
           marks == [h EXCEPT !.at = "mark", !.seen = pidfile]
           registers == [h EXCEPT !.at = "register"]
<1>1. h \in Hooks /\ pidfile \in Records \cup {None}
  BY DEF Typed, TypeOK
<1>2. /\ governed \in Hooks /\ governed.at = "register" /\ governed.met = h.met
      /\ marks \in Hooks /\ marks.at = "mark" /\ marks.met = h.met /\ marks.seen = pidfile
      /\ marks.governed = h.governed
      /\ registers \in Hooks /\ registers.at = "register" /\ registers.met = h.met
      /\ registers.governed = h.governed
  BY <1>1 DEF Hooks, Steps
<1>3. hook' = [hook EXCEPT ![s] =
              IF Healthy(port) THEN governed
              ELSE IF stale /\ pidfile # None /\ marker # pidfile THEN marks ELSE registers]
  BY DEF Probe
<1>4. Healthy(port) => \E d \in Pids : Answers(d)
  BY DEF Healthy, Owner
<1> HIDE DEF governed, marks, registers, stale, port
<1>5. CASE Healthy(port)
  <2>1. hook' = [hook EXCEPT ![s] = governed]
    BY <1>3, <1>5
  <2> QED BY <1>2, <1>4, <1>5, <2>1
<1>6. CASE ~Healthy(port) /\ stale /\ pidfile # None /\ marker # pidfile
  <2>1. hook' = [hook EXCEPT ![s] = marks]
    BY <1>3, <1>6
  <2> QED BY <1>2, <1>6, <2>1
<1>7. CASE ~Healthy(port) /\ ~(stale /\ pidfile # None /\ marker # pidfile)
  <2>1. hook' = [hook EXCEPT ![s] = registers]
    BY <1>3, <1>7
  <2> QED BY <1>2, <2>1
<1> QED BY <1>5, <1>6, <1>7

LEMMA ProbeTyped == ASSUME Typed, NEW s \in Sessions, Probe(s) PROVE Typed'
<1>1. PICK h \in Hooks :
        /\ hook' = [hook EXCEPT ![s] = h]
        /\ h.at = "register" \/ (h.at = "mark" /\ h.seen = pidfile /\ pidfile # None)
  BY ProbeShape
<1>2. UNCHANGED <<daemon, hung, foreign, pidfile, marker, cli, left, past>>
  BY DEF Probe
<1>3. hook' \in [Sessions -> Hooks] /\ Sighted'
  BY <1>1, <1>2, HookSet
<1> QED BY <1>2, <1>3 DEF Typed, TypeOK, Bound

LEMMA MarkTyped == ASSUME Typed, NEW s \in Sessions, Mark(s) PROVE Typed'
<1>1. hook[s] \in Hooks /\ hook[s].seen \in Records
  BY DEF Mark, Typed, TypeOK, Sighted, Hooks
<1> DEFINE h == [hook[s] EXCEPT !.at = "wait"]
<1>2. h \in Hooks /\ h.at = "wait"
  BY <1>1 DEF Hooks, Steps
<1>3. hook' \in [Sessions -> Hooks] /\ Sighted'
  BY <1>2, HookSet DEF Mark
<1>4. daemon' \in [Pids -> Daemons] /\ Bound'
  BY SpawnedType DEF Mark, Typed, TypeOK, Bound
<1>5. past' \in [claims : SUBSET Records, twice : BOOLEAN, rivals : BOOLEAN, overlap : BOOLEAN]
  BY <1>1 DEF Mark, Typed, TypeOK
<1> QED BY <1>1, <1>3, <1>4, <1>5 DEF Mark, Typed, TypeOK

LEMMA WaitShape ==
    ASSUME Typed, NEW s \in Sessions, Wait(s)
    PROVE  \E h \in Hooks :
             /\ hook' = [hook EXCEPT ![s] = h]
             /\ h.met = hook[s].met /\ h.at = "register"
             /\ h.governed => \E d \in Pids : Answers(d)
<1>1. PICK up \in BOOLEAN :
        /\ up => Healthy(pidfile.port)
        /\ hook' = [hook EXCEPT ![s].at = "register", ![s].governed = up]
  BY DEF Wait
<1> DEFINE h == [hook[s] EXCEPT !.at = "register", !.governed = up]
<1>2. hook[s] \in Hooks /\ hook \in [Sessions -> Hooks]
  BY DEF Typed, TypeOK
<1>3. h \in Hooks /\ h.met = hook[s].met /\ h.at = "register" /\ h.governed = up
  BY <1>2 DEF Hooks, Steps
<1>4. hook' = [hook EXCEPT ![s] = h]
  BY <1>1, <1>2
<1>5. up => \E d \in Pids : Answers(d)
  BY <1>1 DEF Healthy, Owner
<1> HIDE DEF h
<1> QED BY <1>3, <1>4, <1>5

LEMMA WaitTyped == ASSUME Typed, NEW s \in Sessions, Wait(s) PROVE Typed'
<1>1. hook' \in [Sessions -> Hooks] /\ Sighted'
  BY WaitShape, HookSet DEF Wait
<1> QED BY <1>1 DEF Wait, Typed, TypeOK, Bound

LEMMA RegisterTyped == ASSUME Typed, NEW s \in Sessions, Register(s) PROVE Typed'
<1>1. Returned("open") \in Hooks /\ Returned("open").at = "open"
  BY LifecycleAssumption DEF Returned, Hooks, Steps
<1>2. hook' \in [Sessions -> Hooks] /\ Sighted'
  BY <1>1, HookSet DEF Register
<1> QED BY <1>2, NotifiedType DEF Register, Typed, TypeOK

LEMMA ToolUseTyped == ASSUME Typed, NEW s \in Sessions, ToolUse(s) PROVE Typed'
BY NotifiedType DEF ToolUse, Typed, TypeOK, Sighted

LEMMA NextTyped == ASSUME Typed, [Next]_vars PROVE Typed'
<1>1. CASE UNCHANGED vars
  BY <1>1 DEF vars, Typed, TypeOK, Bound, Sighted
<1> QED BY <1>1, ListenTyped, WritePidfileTyped, StopTyped, CrashTyped, HangTyped, ForeignUpTyped,
           CommandTyped, UpTyped, DownTyped, OpenTyped, ProbeTyped, MarkTyped, WaitTyped,
           RegisterTyped, ToolUseTyped DEF Next, Starts, Opens

\* Every reachable state of the daemon's life cycle is well typed.
THEOREM LifecycleTyped == Spec => []Typed
<1>1. Typed /\ [Next]_vars => Typed'
  BY NextTyped
<1> QED BY <1>1, InitTyped, PTL DEF Spec

-----------------------------------------------------------------------------
(* What a step does to a daemon. *)

Served(d) == daemon[d].at \in {"up", "close", "dead"}
Alone(d) == past'.rivals \/ \A e \in Pids \ {d} : ~Alive(e)
Moves(d) ==
    /\ HasWritten(d) => HasWritten(d)'
    /\ Served(d) => Served(d)' \/ Stop(d)
    /\ Answers(d)' => Answers(d)
    /\ daemon'[d].at = "up" => daemon[d].at = "up" /\ daemon'[d].port = daemon[d].port
    /\ Alive(d)' => Alive(d) \/ (Spawned(d) /\ Alone(d))

LEMMA SpawnedMoves ==
    ASSUME Typed, NEW e \in Pids, Spawned(e), Alone(e), UNCHANGED hung, NEW d \in Pids PROVE Moves(d)
<1>1. daemon[e].at = "unborn" /\ daemon'[e].at = "spawned" /\ \A c \in Pids \ {e} : daemon'[c] = daemon[c]
  BY DEF Spawned, Unborn, Typed, TypeOK, Daemons
<1> QED BY <1>1 DEF Moves, HasWritten, Writers, Served, Answers, Alive

LEMMA SameMoves == ASSUME UNCHANGED <<daemon, hung>>, NEW d \in Pids PROVE Moves(d)
BY DEF Moves, HasWritten, Writers, Served, Answers, Alive

LEMMA NotifiedMoves ==
    ASSUME Typed, NEW p, NEW s \in Sessions, Notified(p, s), UNCHANGED hung, NEW d \in Pids PROVE Moves(d)
<1>1. daemon'[d].at = daemon[d].at /\ daemon'[d].port = daemon[d].port
  BY DEF Notified, Typed, TypeOK, Daemons
<1> QED BY <1>1 DEF Moves, HasWritten, Writers, Served, Answers, Alive

LEMMA DownMoves == ASSUME Typed, Down, NEW d \in Pids PROVE Moves(d)
<1>1. \/ daemon'[d] = daemon[d]
      \/ Alive(d) /\ daemon'[d].at = "dead"
      \/ daemon[d].at = "up" /\ daemon'[d].at = "close"
  BY DEF Down, Gone, Owner, Answers
<1>2. d \in hung /\ daemon'[d].at = "up" => d \in hung'
  BY DEF Down
<1> QED BY <1>1, <1>2 DEF Moves, HasWritten, Writers, Served, Answers, Alive

LEMMA NextMoves ==
    ASSUME Typed, [Next]_vars, NEW d \in Pids, ~WritePidfile(d) PROVE Moves(d)
<1>1. ASSUME NEW e \in Pids, Listen(e) PROVE Moves(d)
  <2>1. daemon[e].at = "spawned" /\ daemon'[e].at = "listen" /\ \A c \in Pids \ {e} : daemon'[c] = daemon[c]
    BY <1>1 DEF Listen, Typed, TypeOK, Daemons
  <2> QED BY <1>1, <2>1 DEF Listen, Moves, HasWritten, Writers, Served, Answers, Alive
<1>2. ASSUME NEW e \in Pids, WritePidfile(e) PROVE Moves(d)
  <2>1. d # e
    BY <1>2
  <2>2. daemon'[d] = daemon[d]
    BY <1>2, <2>1 DEF WritePidfile, Typed, TypeOK
  <2> QED BY <1>2, <2>2 DEF WritePidfile, Moves, HasWritten, Writers, Served, Answers, Alive
<1>3. ASSUME NEW e \in Pids, Stop(e) PROVE Moves(d)
  <2>1. daemon[e].at = "close" /\ daemon'[e].at = "stopped" /\ \A c \in Pids \ {e} : daemon'[c] = daemon[c]
    BY <1>3 DEF Stop, Gone, Typed, TypeOK
  <2> QED BY <1>3, <2>1 DEF Stop, Moves, HasWritten, Writers, Served, Answers, Alive
<1>4. ASSUME NEW e \in Pids, Crash(e) PROVE Moves(d)
  <2>1. daemon'[e].at = "dead" /\ \A c \in Pids \ {e} : daemon'[c] = daemon[c]
    BY <1>4 DEF Crash, Gone, Typed, TypeOK
  <2> QED BY <1>4, <2>1 DEF Crash, Moves, HasWritten, Writers, Served, Answers, Alive
<1>5. ASSUME NEW e \in Pids, Hang(e) PROVE Moves(d)
  BY <1>5 DEF Hang, Moves, HasWritten, Writers, Served, Answers, Alive
<1>6. CASE Up
  <2>1. ASSUME NEW e \in Pids, Spawned(e), past' = [past EXCEPT !.rivals = Rivalry(e)] PROVE Alone(e)
    BY <2>1 DEF Alone, Rivalry, Typed, TypeOK
  <2> QED BY <1>6, <2>1, SpawnedMoves, SameMoves DEF Up
<1>7. ASSUME NEW s \in Sessions, Mark(s) PROVE Moves(d)
  <2>1. past'.rivals = (past.rivals \/ (Unborn # {} /\ \E e \in Pids : Alive(e)))
    BY <1>7 DEF Mark, Typed, TypeOK
  <2>2. ASSUME NEW e \in Pids, Spawned(e) PROVE Alone(e)
    BY <2>1, <2>2 DEF Alone, Spawned
  <2> QED BY <1>7, <2>2, SpawnedMoves, SameMoves DEF Mark
<1>8. ASSUME NEW s \in Sessions, Register(s) PROVE Moves(d)
  BY <1>8, NotifiedMoves DEF Register
<1>9. ASSUME NEW s \in Sessions, ToolUse(s) PROVE Moves(d)
  BY <1>9, NotifiedMoves DEF ToolUse
<1>10. CASE UNCHANGED <<daemon, hung>>
  BY <1>10, SameMoves
<1>11. ASSUME NEW p \in Ports, ForeignUp(p) PROVE UNCHANGED <<daemon, hung>>
  BY <1>11 DEF ForeignUp
<1>12. ASSUME NEW c \in {"up", "down"}, Command(c) PROVE UNCHANGED <<daemon, hung>>
  BY <1>12 DEF Command
<1>13. ASSUME NEW s \in Sessions, Open(s) \/ Probe(s) \/ Wait(s) PROVE UNCHANGED <<daemon, hung>>
  BY <1>13 DEF Open, Probe, Wait
<1>14. CASE UNCHANGED vars
  BY <1>14, SameMoves DEF vars
<1>15. CASE Down
  BY <1>15, DownMoves
<1>16. ASSUME NEW e \in Pids, Starts(e) \/ Stop(e) \/ Crash(e) \/ Hang(e) PROVE Moves(d)
  BY <1>16, <1>1, <1>2, <1>3, <1>4, <1>5 DEF Starts
<1>17. ASSUME NEW s \in Sessions, Open(s) \/ Opens(s) \/ ToolUse(s) PROVE Moves(d)
  BY <1>17, <1>7, <1>8, <1>9, <1>10, <1>13 DEF Opens
<1> QED BY <1>6, <1>10, <1>11, <1>12, <1>14, <1>15, <1>16, <1>17 DEF Next
\* A step that is not the writing of a pidfile makes no daemon answer.
LEMMA NoNewAnswer ==
    ASSUME Typed, [Next]_vars, \A d \in Pids : ~WritePidfile(d), \E d \in Pids : Answers(d)'
    PROVE  \E d \in Pids : Answers(d)
BY NextMoves DEF Moves

LEMMA HasWrittenStays ==
    ASSUME Typed, [Next]_vars, NEW d \in Pids, HasWritten(d) PROVE HasWritten(d)'
<1>1. CASE WritePidfile(d)
  BY <1>1 DEF WritePidfile, HasWritten, Writers
<1> QED BY <1>1, NextMoves DEF Moves

-----------------------------------------------------------------------------
(* A session told that it is governed met its daemon. *)

LEMMA MeetingKept ==
    ASSUME Meeting, UNCHANGED hook, (\E d \in Pids : Answers(d)') => \E d \in Pids : Answers(d)
    PROVE  Meeting'
BY DEF Meeting, InFlight

\* One hook moves on to h.
LEMMA MeetingSet ==
    ASSUME Typed, Meeting, NEW s \in Sessions, NEW h, hook' = [hook EXCEPT ![s] = h],
           (\E d \in Pids : Answers(d)') => \E d \in Pids : Answers(d),
           h.at \notin {"closed", "open"} /\ (\E d \in Pids : Answers(d)) => h.met,
           h.governed => h.met
    PROVE  Meeting'
<1>1. hook'[s] = h /\ \A t \in Sessions \ {s} : hook'[t] = hook[t]
  BY DEF Typed, TypeOK
<1> QED BY <1>1 DEF Meeting, InFlight

LEMMA NextMeeting == ASSUME Typed, Meeting, [Next]_vars PROVE Meeting'
<1>1. ASSUME NEW d \in Pids, WritePidfile(d) PROVE Meeting'
  <2>1. \A s \in Sessions :
          /\ hook'[s].at = hook[s].at
          /\ hook'[s].governed = hook[s].governed
          /\ hook'[s].met = (hook[s].met \/ InFlight(s))
    BY <1>1 DEF WritePidfile, Typed, TypeOK, Hooks
  <2> QED BY <2>1 DEF Meeting, InFlight
<1> SUFFICES ASSUME \A d \in Pids : ~WritePidfile(d) PROVE Meeting'
  BY <1>1
<1>2. (\E d \in Pids : Answers(d)') => \E d \in Pids : Answers(d)
  BY NoNewAnswer
<1>3. ASSUME NEW s \in Sessions, Open(s) PROVE Meeting'
  <2> DEFINE h == [at |-> "probe", port |-> Discovered, seen |-> pidfile, governed |-> FALSE,
                   met |-> \E d \in Pids : Answers(d)]
  <2>1. hook' = [hook EXCEPT ![s] = h]
    BY <1>3 DEF Open
  <2>2. h.met = (\E d \in Pids : Answers(d)) /\ h.governed = FALSE
    OBVIOUS
  <2> HIDE DEF h
  <2> QED BY <1>2, <2>1, <2>2, MeetingSet
<1>4. ASSUME NEW s \in Sessions, Probe(s) PROVE Meeting'
  <2>1. PICK h \in Hooks :
          /\ hook' = [hook EXCEPT ![s] = h] /\ h.met = hook[s].met
          /\ h.governed => hook[s].governed \/ \E d \in Pids : Answers(d)
    BY <1>4, ProbeShape
  <2>2. hook[s].at = "probe"
    BY <1>4 DEF Probe
  <2> QED BY <1>2, <2>1, <2>2, MeetingSet DEF Meeting, InFlight
<1>5. ASSUME NEW s \in Sessions, Mark(s) PROVE Meeting'
  <2> DEFINE h == [hook[s] EXCEPT !.at = "wait"]
  <2>1. h.met = hook[s].met /\ h.governed = hook[s].governed
    BY DEF Typed, TypeOK, Hooks
  <2>2. hook' = [hook EXCEPT ![s] = h] /\ hook[s].at = "mark"
    BY <1>5 DEF Mark
  <2> HIDE DEF h
  <2> QED BY <1>2, <2>1, <2>2, MeetingSet DEF Meeting, InFlight
<1>6. ASSUME NEW s \in Sessions, Wait(s) PROVE Meeting'
  <2>1. PICK h \in Hooks :
          /\ hook' = [hook EXCEPT ![s] = h] /\ h.met = hook[s].met
          /\ h.governed => \E d \in Pids : Answers(d)
    BY <1>6, WaitShape
  <2>2. hook[s].at = "wait"
    BY <1>6 DEF Wait
  <2> QED BY <1>2, <2>1, <2>2, MeetingSet DEF Meeting, InFlight
<1>7. ASSUME NEW s \in Sessions, Register(s) PROVE Meeting'
  <2>1. hook' = [hook EXCEPT ![s] = Returned("open")]
    BY <1>7 DEF Register
  <2>2. Returned("open").at = "open" /\ Returned("open").governed = FALSE
    BY DEF Returned
  <2> QED BY <1>2, <2>1, <2>2, MeetingSet
<1>8. CASE UNCHANGED hook
  BY <1>2, <1>8, MeetingKept
<1>9. ASSUME NEW d \in Pids, Starts(d) \/ Stop(d) \/ Crash(d) \/ Hang(d) PROVE UNCHANGED hook
  BY <1>9 DEF Starts, Listen, Stop, Crash, Hang
<1>10. ASSUME NEW p \in Ports, ForeignUp(p) PROVE UNCHANGED hook
  BY <1>10 DEF ForeignUp
<1>11. ASSUME NEW c \in {"up", "down"}, Command(c) PROVE UNCHANGED hook
  BY <1>11 DEF Command
<1>12. CASE Up \/ Down \/ UNCHANGED vars
  BY <1>8, <1>12 DEF Up, Down, vars
<1>13. ASSUME NEW s \in Sessions, Open(s) \/ Opens(s) \/ ToolUse(s) PROVE Meeting'
  BY <1>13, <1>3, <1>4, <1>5, <1>6, <1>7, <1>8 DEF Opens, ToolUse
<1> QED BY <1>8, <1>9, <1>10, <1>11, <1>12, <1>13 DEF Next

\* A session told that governance is active, or that its daemon was restarted,
\* met a daemon of its own repository that answered while its SessionStart
\* ran: the probe and the wait match the answer with the repository, whatever
\* foreign daemons sit on the port of the pidfile or of the configuration.
THEOREM GovernedMet == Spec => []GovernedMetItsDaemon
<1>1. Init => Meeting
  BY DEF Init, Returned, Meeting, InFlight
<1>2. Typed /\ [Next]_vars => Typed'
  BY NextTyped
<1>3. Typed /\ Meeting /\ [Next]_vars => Meeting'
  BY NextMeeting
<1>4. Meeting => GovernedMetItsDaemon
  BY DEF Meeting, GovernedMetItsDaemon
<1> QED BY <1>1, <1>2, <1>3, <1>4, InitTyped, PTL DEF Spec

-----------------------------------------------------------------------------
(* No corpse is claimed twice. *)

\* The pidfile, the claims and the hooks about to mark stay what they were, or
\* become fewer, and the processes they name remain ones that have written.
LEMMA WrittenKept ==
    ASSUME Typed, WrittenOnce, [Next]_vars, past'.claims = past.claims, pidfile' \in {pidfile, None},
           \A s \in Sessions : hook'[s].at = "mark" =>
               (hook[s].at = "mark" /\ hook'[s].seen = hook[s].seen) \/ (pidfile # None /\ hook'[s].seen = pidfile)
    PROVE  WrittenOnce'
<1>1. \A d \in Pids : HasWritten(d) => daemon'[d].at \in Writers
  BY HasWrittenStays DEF HasWritten
<1>2. pidfile \in Records \cup {None} /\ past.claims \in SUBSET Records
  BY DEF Typed, TypeOK
<1>3. \A s \in Sessions : hook[s].at = "mark" => hook[s].seen \in Records
  BY DEF Typed, TypeOK, Hooks, Sighted
<1>4. \A c \in Records : c.pid \in Pids
  BY DEF Records
<1>5. pidfile' # None => daemon'[pidfile'.pid].at \in Writers
  BY <1>1, <1>2, <1>4 DEF WrittenOnce
<1>6. \A c \in past'.claims : daemon'[c.pid].at \in Writers
  BY <1>1, <1>2, <1>4 DEF WrittenOnce
<1>7. ASSUME NEW s \in Sessions, hook'[s].at = "mark" PROVE daemon'[hook'[s].seen.pid].at \in Writers
  BY <1>1, <1>2, <1>3, <1>4, <1>7 DEF WrittenOnce
<1> QED BY <1>5, <1>6, <1>7 DEF WrittenOnce, HasWritten

\* What a hook's own step does to the hooks.
LEMMA HookMoves ==
    ASSUME Typed, NEW s \in Sessions, NEW h, hook' = [hook EXCEPT ![s] = h], h.at # "mark"
    PROVE  /\ hook'[s].at = h.at
           /\ \A t \in Sessions \ {s} : hook'[t] = hook[t]
           /\ \A t \in Sessions : hook'[t].at = "mark" => hook[t].at = "mark" /\ hook'[t].seen = hook[t].seen
BY DEF Typed, TypeOK

\* Everything but the writing of a pidfile, the steps of a SessionStart and
\* the end of a close.
Elsewhere == UNCHANGED <<hook, pidfile, marker>> /\ UNCHANGED <<past.claims, past.twice, past.overlap>>

LEMMA ElsewhereSteps ==
    ASSUME Typed, [Next]_vars
    PROVE  \/ \E d \in Pids : WritePidfile(d) \/ Stop(d)
           \/ \E s \in Sessions : Open(s) \/ Opens(s)
           \/ Elsewhere
<1>1. ASSUME NEW d \in Pids, Starts(d) \/ Stop(d) \/ Crash(d) \/ Hang(d)
      PROVE  WritePidfile(d) \/ Stop(d) \/ Elsewhere
  BY <1>1 DEF Starts, Listen, Crash, Hang, Elsewhere
<1>2. ASSUME NEW p \in Ports, ForeignUp(p) PROVE Elsewhere
  BY <1>2 DEF ForeignUp, Elsewhere
<1>3. ASSUME NEW c \in {"up", "down"}, Command(c) PROVE Elsewhere
  BY <1>3 DEF Command, Elsewhere
<1>4. CASE Up
  <2>1. UNCHANGED past \/ \E r : past' = [past EXCEPT !.rivals = r]
    BY <1>4 DEF Up
  <2> QED BY <1>4, <2>1 DEF Up, Elsewhere, Typed, TypeOK
<1>5. CASE Down
  BY <1>5 DEF Down, Elsewhere
<1>6. ASSUME NEW s \in Sessions, ToolUse(s) PROVE Elsewhere
  BY <1>6 DEF ToolUse, Elsewhere
<1>7. CASE UNCHANGED vars
  BY <1>7 DEF vars, Elsewhere
<1> QED BY <1>1, <1>2, <1>3, <1>4, <1>5, <1>6, <1>7 DEF Next

\* The record that a daemon writes names a process that has written none yet.
LEMMA FreshRecord ==
    ASSUME Typed, WrittenOnce, NEW d \in Pids, WritePidfile(d)
    PROVE  /\ pidfile' \notin past.claims
           /\ \A s \in Sessions : hook[s].at = "mark" => hook[s].seen # pidfile'
<1>1. ~HasWritten(d) /\ pidfile'.pid = d
  BY DEF WritePidfile, HasWritten, Writers
<1> QED BY <1>1 DEF WrittenOnce

LEMMA NextWritten == ASSUME Typed, WrittenOnce, [Next]_vars PROVE WrittenOnce'
<1>1. ASSUME NEW d \in Pids, WritePidfile(d) PROVE WrittenOnce'
  <2>1. \A e \in Pids : HasWritten(e) => daemon'[e].at \in Writers
    BY HasWrittenStays DEF HasWritten
  <2>2. daemon'[d].at \in Writers /\ pidfile' = [pid |-> d, port |-> daemon[d].port] /\ UNCHANGED past
    BY <1>1 DEF WritePidfile, Writers, Typed, TypeOK, Daemons
  <2>3. \A s \in Sessions : hook'[s].at = hook[s].at /\ hook'[s].seen = hook[s].seen
    BY <1>1 DEF WritePidfile, Typed, TypeOK, Hooks
  <2>4. \A c \in past.claims : c.pid \in Pids
    BY DEF Typed, TypeOK, Records
  <2>5. \A s \in Sessions : hook[s].at = "mark" => hook[s].seen.pid \in Pids
    BY DEF Typed, TypeOK, Sighted, Hooks, Records
  <2>6. \A s \in Sessions : hook'[s].at = "mark" => daemon'[hook'[s].seen.pid].at \in Writers
    BY <2>1, <2>3, <2>5 DEF WrittenOnce
  <2>7. \A c \in past'.claims : daemon'[c.pid].at \in Writers
    BY <2>1, <2>2, <2>4 DEF WrittenOnce
  <2> QED BY <2>2, <2>6, <2>7 DEF WrittenOnce, HasWritten
<1>2. ASSUME NEW d \in Pids, Stop(d) PROVE WrittenOnce'
  BY <1>2, WrittenKept DEF Stop
<1>3. ASSUME NEW s \in Sessions, Open(s) PROVE WrittenOnce'
  <2> DEFINE h == [at |-> "probe", port |-> Discovered, seen |-> pidfile, governed |-> FALSE,
                   met |-> \E d \in Pids : Answers(d)]
  <2>1. hook' = [hook EXCEPT ![s] = h] /\ past'.claims = past.claims /\ UNCHANGED pidfile
    BY <1>3 DEF Open, Typed, TypeOK
  <2>2. h.at # "mark"
    OBVIOUS
  <2> HIDE DEF h
  <2> QED BY <2>1, <2>2, HookMoves, WrittenKept
<1>4. ASSUME NEW s \in Sessions, Probe(s) PROVE WrittenOnce'
  <2>1. PICK h \in Hooks :
          /\ hook' = [hook EXCEPT ![s] = h]
          /\ h.at = "mark" => pidfile # None /\ h.seen = pidfile
    BY <1>4, ProbeShape
  <2>2. hook'[s] = h /\ \A t \in Sessions \ {s} : hook'[t] = hook[t]
    BY <2>1 DEF Typed, TypeOK
  <2>3. UNCHANGED <<past, pidfile>>
    BY <1>4 DEF Probe
  <2> QED BY <2>1, <2>2, <2>3, WrittenKept
<1>5. ASSUME NEW s \in Sessions, Mark(s) PROVE WrittenOnce'
  <2>1. \A e \in Pids : HasWritten(e) => daemon'[e].at \in Writers
    BY HasWrittenStays DEF HasWritten
  <2>2. hook[s].at = "mark" /\ past'.claims = past.claims \cup {hook[s].seen} /\ UNCHANGED pidfile
    BY <1>5 DEF Mark, Typed, TypeOK
  <2>3. \A t \in Sessions : hook'[t].at = "mark" => hook[t].at = "mark" /\ hook'[t].seen = hook[t].seen
    BY <1>5 DEF Mark, Typed, TypeOK, Hooks
  <2>4. \A c \in past.claims : c.pid \in Pids
    BY DEF Typed, TypeOK, Records
  <2>5. \A t \in Sessions : hook[t].at = "mark" => hook[t].seen.pid \in Pids
    BY DEF Typed, TypeOK, Sighted, Hooks, Records
  <2>6. pidfile # None => pidfile.pid \in Pids
    BY DEF Typed, TypeOK, Records
  <2>7. \A t \in Sessions : hook'[t].at = "mark" => daemon'[hook'[t].seen.pid].at \in Writers
    BY <2>1, <2>3, <2>5 DEF WrittenOnce
  <2>8. \A c \in past'.claims : daemon'[c.pid].at \in Writers
    BY <2>1, <2>2, <2>4, <2>5 DEF WrittenOnce
  <2>9. pidfile' # None => daemon'[pidfile'.pid].at \in Writers
    BY <2>1, <2>2, <2>6 DEF WrittenOnce
  <2> QED BY <2>7, <2>8, <2>9 DEF WrittenOnce, HasWritten
<1>6. ASSUME NEW s \in Sessions, Wait(s) PROVE WrittenOnce'
  BY <1>6, WaitShape, HookMoves, WrittenKept DEF Wait
<1>7. ASSUME NEW s \in Sessions, Register(s) PROVE WrittenOnce'
  <2>1. hook' = [hook EXCEPT ![s] = Returned("open")] /\ Returned("open").at = "open"
    BY <1>7 DEF Register, Returned
  <2>2. UNCHANGED <<past, pidfile>>
    BY <1>7 DEF Register
  <2> QED BY <2>1, <2>2, HookMoves, WrittenKept
<1>8. CASE Elsewhere
  BY <1>8, WrittenKept DEF Elsewhere
<1> QED BY <1>1, <1>2, <1>3, <1>4, <1>5, <1>6, <1>7, <1>8, ElsewhereSteps DEF Opens

\* A hook's own step, to h: the hooks in flight stay what they were, or become
\* fewer.
LEMMA ClaimedSet ==
    ASSUME Typed, ClaimedOnce, NEW s \in Sessions, NEW h, hook' = [hook EXCEPT ![s] = h],
           InFlight(s) \/ h.at \in {"closed", "open"}, h.at # "mark",
           UNCHANGED <<pidfile, marker, past>>
    PROVE  ClaimedOnce'
<1>1. hook'[s].at = h.at /\ \A t \in Sessions \ {s} : hook'[t] = hook[t]
  BY HookMoves
<1>2. \A t \in Sessions : InFlight(t)' => InFlight(t)
  BY <1>1 DEF InFlight
<1>3. \A t \in Sessions : hook'[t].at = "mark" => hook[t].at = "mark" /\ hook'[t].seen = hook[t].seen
  BY HookMoves
<1> QED BY <1>2, <1>3 DEF ClaimedOnce

LEMMA NextClaimed == ASSUME Typed, WrittenOnce, ClaimedOnce, [Next]_vars PROVE ClaimedOnce'
<1>1. ASSUME NEW d \in Pids, WritePidfile(d) PROVE ClaimedOnce'
  <2>1. \A s \in Sessions : hook'[s].at = hook[s].at /\ hook'[s].seen = hook[s].seen
    BY <1>1 DEF WritePidfile, Typed, TypeOK, Hooks
  <2>2. pidfile' \notin past.claims /\ UNCHANGED past
    BY <1>1, FreshRecord DEF WritePidfile
  <2> QED BY <2>1, <2>2 DEF ClaimedOnce, InFlight
<1>2. ASSUME NEW d \in Pids, Stop(d) PROVE ClaimedOnce'
  <2>1. None \notin past.claims
    BY NoneApart DEF Typed, TypeOK
  <2>2. pidfile' = None /\ UNCHANGED <<hook, marker, past>>
    BY <1>2 DEF Stop
  <2> QED BY <2>1, <2>2 DEF ClaimedOnce, InFlight
<1>3. ASSUME NEW s \in Sessions, Open(s) PROVE ClaimedOnce'
  <2> DEFINE h == [at |-> "probe", port |-> Discovered, seen |-> pidfile, governed |-> FALSE,
                   met |-> \E d \in Pids : Answers(d)]
  <2>1. /\ hook' = [hook EXCEPT ![s] = h]
        /\ UNCHANGED <<pidfile, marker, past.claims, past.twice>>
        /\ past'.overlap = (past.overlap \/ \E t \in Sessions : InFlight(t))
    BY <1>3 DEF Open, Typed, TypeOK
  <2>2. h.at # "mark"
    OBVIOUS
  <2> HIDE DEF h
  <2>3. /\ \A t \in Sessions \ {s} : hook'[t] = hook[t]
        /\ \A t \in Sessions : hook'[t].at = "mark" => hook[t].at = "mark" /\ hook'[t].seen = hook[t].seen
    BY <2>1, <2>2, HookMoves
  <2>4. ASSUME ~past'.overlap PROVE ~past.overlap /\ \A t \in Sessions : InFlight(t)' => t = s
    BY <2>1, <2>3, <2>4 DEF InFlight
  <2> QED BY <2>1, <2>3, <2>4 DEF ClaimedOnce
<1>4. ASSUME NEW s \in Sessions, Probe(s) PROVE ClaimedOnce'
  <2>1. PICK h \in Hooks :
          /\ hook' = [hook EXCEPT ![s] = h]
          /\ h.at = "register" \/ (h.at = "mark" /\ h.seen = pidfile /\ marker # pidfile)
    BY <1>4, ProbeShape
  <2>2. InFlight(s) /\ UNCHANGED <<pidfile, marker, past>>
    BY <1>4 DEF Probe, InFlight
  <2>3. CASE h.at = "register"
    BY <2>1, <2>2, <2>3, ClaimedSet
  <2>4. CASE h.at = "mark" /\ h.seen = pidfile /\ marker # pidfile
    <3>1. hook'[s] = h /\ \A t \in Sessions \ {s} : hook'[t] = hook[t]
      BY <2>1 DEF Typed, TypeOK
    <3>2. \A t \in Sessions : InFlight(t)' => InFlight(t)
      BY <2>2, <3>1 DEF InFlight
    <3> QED BY <2>2, <2>4, <3>1, <3>2 DEF ClaimedOnce
  <2> QED BY <2>1, <2>3, <2>4
<1>5. ASSUME NEW s \in Sessions, Mark(s) PROVE ClaimedOnce'
  <2>1. /\ past'.claims = past.claims \cup {hook[s].seen}
        /\ past'.twice = (past.twice \/ hook[s].seen \in past.claims)
        /\ past'.overlap = past.overlap
        /\ marker' = hook[s].seen /\ UNCHANGED pidfile /\ hook[s].at = "mark"
    BY <1>5 DEF Mark, Typed, TypeOK
  <2>2. hook'[s].at = "wait" /\ \A t \in Sessions \ {s} : hook'[t] = hook[t]
    BY <1>5 DEF Mark, Typed, TypeOK, Hooks
  <2>3. \A t \in Sessions : InFlight(t)' => InFlight(t)
    BY <2>1, <2>2 DEF InFlight
  <2>4. ASSUME ~past.overlap, NEW t \in Sessions, hook'[t].at = "mark" PROVE FALSE
    BY <2>1, <2>2, <2>4 DEF ClaimedOnce, InFlight
  <2> QED BY <2>1, <2>3, <2>4 DEF ClaimedOnce
<1>6. ASSUME NEW s \in Sessions, Wait(s) PROVE ClaimedOnce'
  <2>1. InFlight(s) /\ UNCHANGED <<pidfile, marker, past>>
    BY <1>6 DEF Wait, InFlight
  <2> QED BY <1>6, <2>1, WaitShape, ClaimedSet
<1>7. ASSUME NEW s \in Sessions, Register(s) PROVE ClaimedOnce'
  <2>1. hook' = [hook EXCEPT ![s] = Returned("open")] /\ Returned("open").at = "open"
    BY <1>7 DEF Register, Returned
  <2>2. UNCHANGED <<pidfile, marker, past>>
    BY <1>7 DEF Register
  <2> QED BY <2>1, <2>2, ClaimedSet
<1>8. CASE Elsewhere
  BY <1>8 DEF Elsewhere, ClaimedOnce, InFlight
<1> QED BY <1>1, <1>2, <1>3, <1>4, <1>5, <1>6, <1>7, <1>8, ElsewhereSteps DEF Opens

\* While no two SessionStarts ran at once, no dead (pid, port) is claimed twice:
\* the marker names the pidfile's corpse if it was ever claimed, because a
\* later claim could only be of a pidfile that a new process wrote, and a
\* process writes it once (markRestart and the loop guard of resolveGovernance).
THEOREM ClaimedTwiceNever == Spec => []RestartedOnce
<1>1. Init => WrittenOnce /\ ClaimedOnce
  BY DEF Init, Returned, WrittenOnce, ClaimedOnce, InFlight
<1>2. Typed /\ [Next]_vars => Typed'
  BY NextTyped
<1>3. Typed /\ WrittenOnce /\ [Next]_vars => WrittenOnce'
  BY NextWritten
<1>4. Typed /\ WrittenOnce /\ ClaimedOnce /\ [Next]_vars => ClaimedOnce'
  BY NextClaimed
<1>5. ClaimedOnce => RestartedOnce
  BY DEF ClaimedOnce, RestartedOnce
<1> QED BY <1>1, <1>2, <1>3, <1>4, <1>5, InitTyped, PTL DEF Spec

-----------------------------------------------------------------------------
(* The pidfile names the daemon that serves. *)

LEMMA RivalsStay == ASSUME Typed, [Next]_vars, past.rivals PROVE past'.rivals
<1>1. ASSUME NEW d \in Pids, Starts(d) \/ Stop(d) \/ Crash(d) \/ Hang(d) PROVE UNCHANGED past
  BY <1>1 DEF Starts, Listen, WritePidfile, Stop, Crash, Hang
<1>2. ASSUME NEW p \in Ports, ForeignUp(p) PROVE UNCHANGED past
  BY <1>2 DEF ForeignUp
<1>3. ASSUME NEW c \in {"up", "down"}, Command(c) PROVE UNCHANGED past
  BY <1>3 DEF Command
<1>4. CASE Up
  BY <1>4 DEF Up, Rivalry, Typed, TypeOK
<1>5. CASE Down \/ UNCHANGED vars
  BY <1>5 DEF Down, vars
<1>6. ASSUME NEW s \in Sessions, Open(s) \/ Mark(s) PROVE past'.rivals
  BY <1>6 DEF Open, Mark, Typed, TypeOK
<1>7. ASSUME NEW s \in Sessions, Probe(s) \/ Wait(s) \/ Register(s) \/ ToolUse(s) PROVE UNCHANGED past
  BY <1>7 DEF Probe, Wait, Register, ToolUse
<1> QED BY <1>1, <1>2, <1>3, <1>4, <1>5, <1>6, <1>7 DEF Next, Opens

LEMMA PidfileSteps == ASSUME Typed, [Next]_vars, \A d \in Pids : ~WritePidfile(d) /\ ~Stop(d) PROVE UNCHANGED pidfile
<1>1. ASSUME NEW s \in Sessions, Open(s) \/ Opens(s) PROVE UNCHANGED pidfile
  BY <1>1 DEF Open, Opens, Probe, Mark, Wait, Register
<1> QED BY <1>1, ElsewhereSteps DEF Elsewhere

LEMMA WritePidfileAlive == ASSUME NEW d \in Pids, NEW e \in Pids, Typed, WritePidfile(d), Alive(e)' PROVE Alive(e)
BY DEF WritePidfile, Alive, Typed, TypeOK, Daemons

LEMMA NextAtMostOne == ASSUME Typed, AtMostOne, [Next]_vars PROVE AtMostOne'
<1> SUFFICES ASSUME ~past'.rivals, NEW d \in Pids, NEW e \in Pids, Alive(d)', Alive(e)' PROVE d = e
  BY DEF AtMostOne
<1>1. ~past.rivals
  BY RivalsStay
<1>2. \A c \in Pids : Alive(c)' => Alive(c) \/ (Spawned(c) /\ Alone(c))
  BY WritePidfileAlive, NextMoves DEF Moves
<1>3. CASE Alive(d) /\ Alive(e)
  BY <1>1, <1>3 DEF AtMostOne
<1>4. CASE Spawned(d) /\ Spawned(e)
  BY <1>4 DEF Spawned, Unborn, Pids
<1>5. CASE (Alive(d) /\ Spawned(e) /\ Alone(e)) \/ (Alive(e) /\ Spawned(d) /\ Alone(d))
  BY <1>5 DEF Alone
<1> QED BY <1>2, <1>3, <1>4, <1>5

LEMMA NextFaithful == ASSUME Typed, AtMostOne, PidfileFaithful, [Next]_vars PROVE PidfileFaithful'
<1> SUFFICES ASSUME ~past'.rivals
             PROVE  /\ \A d \in Pids : daemon'[d].at = "up" => pidfile' = [pid |-> d, port |-> daemon'[d].port]
                    /\ pidfile' # None => daemon'[pidfile'.pid].at \in {"up", "close", "dead"}
  BY DEF PidfileFaithful
<1>1. ~past.rivals
  BY RivalsStay
<1>2. ASSUME NEW d \in Pids, WritePidfile(d)
      PROVE  /\ \A e \in Pids : daemon'[e].at = "up" => pidfile' = [pid |-> e, port |-> daemon'[e].port]
             /\ pidfile' # None => daemon'[pidfile'.pid].at \in {"up", "close", "dead"}
  <2>1. daemon[d].at = "listen" /\ pidfile' = [pid |-> d, port |-> daemon[d].port]
    BY <1>2 DEF WritePidfile
  <2>2. daemon'[d].at = "up" /\ daemon'[d].port = daemon[d].port /\ \A e \in Pids \ {d} : daemon'[e] = daemon[e]
    BY <1>2 DEF WritePidfile, Typed, TypeOK, Daemons
  <2>3. \A e \in Pids \ {d} : daemon[e].at # "up"
    BY <1>1, <2>1 DEF AtMostOne, Alive
  <2> QED BY <2>1, <2>2, <2>3
<1>3. ASSUME NEW d \in Pids, Stop(d)
      PROVE  pidfile' = None /\ \A e \in Pids : daemon'[e].at # "up"
  <2>1. daemon[d].at = "close" /\ daemon'[d].at = "stopped" /\ \A e \in Pids \ {d} : daemon'[e] = daemon[e]
    BY <1>3 DEF Stop, Gone, Typed, TypeOK
  <2>2. \A e \in Pids \ {d} : daemon[e].at # "up"
    BY <1>1, <2>1 DEF AtMostOne, Alive
  <2> QED BY <1>3, <2>1, <2>2 DEF Stop
<1>4. CASE \A d \in Pids : ~WritePidfile(d) /\ ~Stop(d)
  <2>1. \A d \in Pids :
          /\ Served(d) => Served(d)'
          /\ daemon'[d].at = "up" => daemon[d].at = "up" /\ daemon'[d].port = daemon[d].port
    BY <1>4, NextMoves DEF Moves
  <2>2. UNCHANGED pidfile
    BY <1>4, PidfileSteps
  <2>3. pidfile # None => pidfile.pid \in Pids
    BY DEF Typed, TypeOK, Records
  <2>4. pidfile # None => daemon'[pidfile.pid].at \in {"up", "close", "dead"}
    BY <1>1, <2>1, <2>3 DEF PidfileFaithful, Served
  <2> QED BY <1>1, <2>1, <2>2, <2>4 DEF PidfileFaithful
<1> QED BY <1>2, <1>3, <1>4

\* As long as no two daemons of the repository were alive together, the
\* pidfile names every daemon that serves, with its real port, and never one
\* that was closed cleanly: writing it after listenOn and removing it at the
\* end of close is enough for what the hooks and the CLI conclude from it.
THEOREM PidfileNamesDaemon == Spec => []PidfileFaithful
<1>1. Init => AtMostOne /\ PidfileFaithful
  BY DEF Init, AtMostOne, Alive, PidfileFaithful
<1>2. Typed /\ [Next]_vars => Typed'
  BY NextTyped
<1>3. Typed /\ AtMostOne /\ [Next]_vars => AtMostOne'
  BY NextAtMostOne
<1>4. Typed /\ AtMostOne /\ PidfileFaithful /\ [Next]_vars => PidfileFaithful'
  BY NextFaithful
<1> QED BY <1>1, <1>2, <1>3, <1>4, InitTyped, PTL DEF Spec

=============================================================================
