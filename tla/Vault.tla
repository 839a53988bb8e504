------------------------------- MODULE Vault -------------------------------
(***************************************************************************)
(* The vault: a server over several mounted corpora that answers asks and  *)
(* zooms and books every measured step in the ledger of its corpus, for    *)
(* the receipts. An MCP session works under a vault identity, which the    *)
(* client may choose and keep across restarts; an ask is numbered within   *)
(* its identity, and finds its own audit events again by that ask id       *)
(* (vault/tools.ts, ledger.ts, rollup.ts, http.ts, main.ts).     *)
(*                                                                         *)
(* An ask is taken in one step, explores in others, each of which audits   *)
(* a measured distillation, and is answered in one, with no await in it.   *)
(* The answer's writes may break off anywhere. Every measured step counts  *)
(* one, whatever its bytes; audit events that carry none are left out.     *)
(***************************************************************************)
EXTENDS Naturals, FiniteSets, FiniteSetsExt, Sequences

CONSTANTS Corpora,
          Handles,     \* artifact ids and F-id@hash references
          Holds,       \* by corpus: the handles its store resolves (holdsRef)
          Names,       \* X-Vault-Session headers
          Sessions,    \* the MCP session ids the server draws
          None,
          MaxAsks, MaxSteps, MaxZooms, MaxRestarts

Identities == Names \cup Sessions
\* An identity, the number of its latest ask, and a ghost of what was booked.
VaultSessions == [live : BOOLEAN, id : Identities, asks : Nat, known : SUBSET Nat]

ASSUME VaultAssumption ==
    /\ Holds \in [Corpora -> SUBSET Handles]
    /\ None \notin Corpora \cup Names \cup VaultSessions
    /\ {MaxAsks, MaxSteps, MaxZooms, MaxRestarts} \subseteq Nat

VARIABLES
    mcp,       \* by MCP session: its VaultSession, once initialized
    asks,      \* every ask ever taken, in order; those at work hold a promise
    trail,     \* by corpus: the audit trail's measured and ask events
    ledger,    \* by corpus: ledger.db
    restarts

vars == <<mcp, asks, trail, ledger, restarts>>

AskId(a) == <<a.id, a.n>>
\* Audit events and ledger lines have ids of their own: sets of them. A step of
\* an exploration is audited under the ask's id, an ask or a zoom under the
\* session's; "ask" is the ghost that says whose it really was.

Init ==
    /\ mcp = [m \in Sessions |-> None]
    /\ asks = << >>
    /\ trail = [c \in Corpora |-> {}]
    /\ ledger = [c \in Corpora |-> {}]
    /\ restarts = 0

Live(m) == mcp[m] # None /\ mcp[m].live
Kind(kind, set) == {x \in set : x.kind = kind}
All(kind, f) == UNION {Kind(kind, f[c]) : c \in Corpora}

-----------------------------------------------------------------------------
(* The session's life. *)

\* Mutant of Resumed: a new process numbers from the start.
ResumedNever(id) == 0

\* The ask line of highest number under an identity, over every corpus.
Resumed(id) == Max({0} \cup {l.askId[2] : l \in {l \in All("ask", ledger) : l.id = id}})

\* "initialize": the counter goes on where the ledgers stop. The ghost is the
\* asks booked by then.
Initialize(m, name) ==
    /\ mcp[m] = None
    /\ LET id == IF name = None THEN m ELSE name
       IN mcp' = [mcp EXCEPT ![m] =
            [live |-> TRUE, id |-> id, asks |-> Resumed(id),
             known |-> {l.ask : l \in All("ask", ledger)}]]
    /\ UNCHANGED <<asks, trail, ledger, restarts>>

\* DELETE: what the session has under way goes on.
Terminate(m) ==
    /\ Live(m)
    /\ mcp' = [mcp EXCEPT ![m].live = FALSE]
    /\ UNCHANGED <<asks, trail, ledger, restarts>>

\* The server dies and is started again: sessions and promises are gone.
Restart ==
    /\ restarts < MaxRestarts
    /\ \E m \in Sessions : mcp[m] # None
    /\ mcp' = [m \in Sessions |-> IF mcp[m] = None THEN None ELSE [mcp[m] EXCEPT !.live = FALSE]]
    /\ asks' = [k \in DOMAIN asks |-> [asks[k] EXCEPT !.open = FALSE]]
    /\ restarts' = restarts + 1
    /\ UNCHANGED <<trail, ledger>>

-----------------------------------------------------------------------------
(* vault_ask. *)

\* The corpus a call names, or the only one mounted.
Picked(named) == IF named # None THEN {named} \cap Corpora
                 ELSE IF Cardinality(Corpora) = 1 THEN Corpora ELSE {}

Ask(m, named) ==
    /\ Live(m) /\ Len(asks) < MaxAsks
    /\ \E c \in Picked(named) :
         /\ mcp' = [mcp EXCEPT ![m].asks = @ + 1]
         /\ asks' = Append(asks, [id |-> mcp[m].id, n |-> mcp[m].asks + 1, corpus |-> c,
                                  by |-> m, era |-> restarts, open |-> TRUE])
    /\ UNCHANGED <<trail, ledger, restarts>>

\* One distillation of exploreGoal.
Step(k) ==
    /\ asks[k].open
    /\ Cardinality(All("step", trail)) < MaxSteps
    /\ trail' = [trail EXCEPT ![asks[k].corpus] = @ \cup
            {[kind |-> "step", of |-> AskId(asks[k]), ask |-> k,
              nth |-> 1 + Cardinality({e \in Kind("step", @) : e.ask = k})]}]
    /\ UNCHANGED <<mcp, asks, ledger, restarts>>

\* Mutant of Own: the steps of every ask of the session.
OwnOfSession(k) == {e \in Kind("step", trail[asks[k].corpus]) : e.of[1] = asks[k].id}

\* The audit events of this ask: those of its id.
Own(k) == {e \in Kind("step", trail[asks[k].corpus]) : e.of = AskId(asks[k])}

AskEvent(k) == [kind |-> "ask", of |-> asks[k].id, ask |-> k]
Line(k, kind, e) == [kind |-> kind, id |-> asks[k].id, askId |-> AskId(asks[k]), audit |-> e, ask |-> k]

Answer(k) ==
    /\ asks[k].open
    /\ trail' = [trail EXCEPT ![asks[k].corpus] = @ \cup {AskEvent(k)}]
    /\ ledger' = [ledger EXCEPT ![asks[k].corpus] =
            @ \cup {Line(k, "serve", e) : e \in Own(k)} \cup {Line(k, "ask", AskEvent(k))}]
    /\ asks' = [asks EXCEPT ![k].open = FALSE]
    /\ UNCHANGED <<mcp, restarts>>

\* The exploration throws, or one of the answer's writes does: what is written
\* by then stays, and the call is answered with a tool error.
Fails(k) ==
    /\ asks[k].open
    /\ \/ UNCHANGED <<trail, ledger>>
       \/ \E booked \in SUBSET Own(k) :
            /\ \A d, e \in Own(k) : e \in booked /\ d.ask = e.ask /\ d.nth < e.nth => d \in booked
            /\ trail' = [trail EXCEPT ![asks[k].corpus] = @ \cup {AskEvent(k)}]
            /\ ledger' = [ledger EXCEPT ![asks[k].corpus] = @ \cup {Line(k, "serve", e) : e \in booked}]
    /\ asks' = [asks EXCEPT ![k].open = FALSE]
    /\ UNCHANGED <<mcp, restarts>>

-----------------------------------------------------------------------------
(* vault_zoom and vault_receipt. *)

\* corpusForHandle, and the zoom in it: only a resolved handle is served.
HandleCorpus(named, h) ==
    {c \in Picked(named) \cup (IF named = None THEN Corpora ELSE {}) :
        /\ h \in Holds[c]
        /\ named = None => \A d \in Corpora \ {c} : h \notin Holds[d]}

Zoom(m, named, h) ==
    /\ Live(m)
    /\ LET nth == 1 + Cardinality(All("zoom", trail))
           event == [kind |-> "zoom", of |-> mcp[m].id, nth |-> nth]
       IN /\ nth <= MaxZooms
          /\ \E c \in HandleCorpus(named, h) :
               /\ trail' = [trail EXCEPT ![c] = @ \cup {event}]
               /\ \/ ledger' = [ledger EXCEPT ![c] =
                        @ \cup {[kind |-> "zoom", id |-> mcp[m].id, audit |-> event]}]
                  \/ UNCHANGED ledger \* the append throws
    /\ UNCHANGED <<mcp, asks, restarts>>

\* Mutant of Counted: the ask lines, whose bytes the serve lines hold already.
CountedTwice(c, id) == {l \in ledger[c] : l.id = id}

\* What a rollup counts of a session: the touched lines, and nothing else.
Counted(c, id) == {l \in ledger[c] : l.id = id /\ l.kind # "ask"}

\* A receipt that names no corpus is about each of them.
Targets(named) == IF named = None THEN Corpora ELSE Picked(named)
Receipt(named, id) == [c \in Targets(named) |-> Cardinality(Counted(c, id))]

Next ==
    \/ \E m \in Sessions :
         \/ \E name \in Names \cup {None} : Initialize(m, name)
         \/ Terminate(m)
         \/ \E named \in Corpora \cup {None} :
              \/ Ask(m, named)
              \/ \E h \in Handles : Zoom(m, named, h)
    \/ \E k \in DOMAIN asks : Step(k) \/ Answer(k) \/ Fails(k)
    \/ Restart

Spec == Init /\ [][Next]_vars

-----------------------------------------------------------------------------
(* Properties. *)

\* Nobody else's ask has this one's id.
Alone(k) == \A j \in DOMAIN asks \ {k} : AskId(asks[j]) # AskId(asks[k])
Booked(k) == \E l \in All("ask", ledger) : l.ask = k

\* A restarted server, or a new session of an old identity, never gives an ask
\* the id of one the ledgers hold already, in whatever corpus (resumeAskCounter).
NumbersGoOn ==
    \A k \in DOMAIN asks : \A j \in mcp[asks[k].by].known : AskId(asks[j]) # AskId(asks[k])

\* The ledger and the trail reconcile: an event has at most one line, the line
\* is its own session's, and each measured step of an answered ask has one,
\* unless another ask was given the same id (tools.ts vaultAsk, vaultZoom).
Reconciled ==
    \A c \in Corpora :
        /\ \A e \in trail[c] :
             LET lines == {l \in ledger[c] : l.audit = e}
             IN e.kind # "step" \/ Alone(e.ask) =>
                  /\ Cardinality(lines) <= 1
                  /\ \A l \in lines : l.id = IF e.kind = "step" THEN e.of[1] ELSE e.of
                  /\ e.kind # "zoom" /\ Booked(e.ask) => lines # {}
        /\ \A l \in ledger[c] : l.audit \in trail[c]

\* A receipt says what was touched: for an identity whose asks and zooms were
\* all answered, under ids of their own, a session's receipt over all corpora
\* counts the distillations and zooms the trails have of it, whatever else was
\* asked in between (vaultReceipt, rollupLines).
ReceiptsHonest ==
    \A c \in Corpora, id \in Identities :
        /\ \A k \in DOMAIN asks : asks[k].id = id => Alone(k) /\ Booked(k)
        /\ \A e \in Kind("zoom", trail[c]) : e.of = id => \E l \in ledger[c] : l.audit = e
        =>
        Receipt(None, id)[c] = Cardinality({e \in trail[c] :
            \/ e.kind = "zoom" /\ e.of = id
            \/ e.kind = "step" /\ e.of[1] = id})

\* "Two concurrently live sessions sharing one identity can still collide;
\* restarts cannot" (tools.ts:41-42): asks of one id were taken by one run of
\* the server.
RestartsCannotCollide ==
    \A j, k \in DOMAIN asks : AskId(asks[j]) = AskId(asks[k]) => asks[j].era = asks[k].era
=============================================================================
