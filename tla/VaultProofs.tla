----------------------------- MODULE VaultProofs -----------------------------
(***************************************************************************)
(* What the vault's ask ids, ledgers and receipts can be relied on for,    *)
(* proved for any number of corpora, handles, identities and sessions, and *)
(* any number of asks, steps, zooms and restarts.                          *)
(***************************************************************************)
EXTENDS Vault, FiniteSetTheorems, WellFoundedInduction, TLAPS

-----------------------------------------------------------------------------
(* Types. *)

Asks == [id : Identities, n : Nat, corpus : Corpora, by : Sessions, era : Nat, open : BOOLEAN]

TypeOK ==
    /\ mcp \in [Sessions -> VaultSessions \cup {None}]
    /\ asks \in Seq(Asks)
    /\ DOMAIN trail = Corpora
    /\ DOMAIN ledger = Corpora
    /\ restarts \in Nat

-----------------------------------------------------------------------------
(* The invariants. They speak of asks, trails and ledgers given as          *)
(* arguments: a is the asks, t the trail of a corpus c, g its ledger.       *)

LineOf(a, k, kind, e) == [kind |-> kind, id |-> a[k].id, askId |-> AskId(a[k]), audit |-> e, ask |-> k]
AskEventOf(a, k) == [kind |-> "ask", of |-> a[k].id, ask |-> k]

\* An event of a corpus is a step of an ask in it, under the ask's id; or that
\* of an ask which is through; or of a zoom.
StepOf(a, c, e) == \E k \in DOMAIN a :
    a[k].corpus = c /\ e = [kind |-> "step", of |-> AskId(a[k]), ask |-> k, nth |-> e.nth]
Through(a, c, k) == k \in DOMAIN a /\ a[k].corpus = c /\ ~a[k].open
AskOf(a, c, e) == \E k : Through(a, c, k) /\ e = AskEventOf(a, k)
ZoomOf(e) == \E id \in Identities : e = [kind |-> "zoom", of |-> id, nth |-> e.nth]
Trailed(a, t, c) ==
    /\ IsFiniteSet(t)
    /\ \A e \in t : StepOf(a, c, e) \/ AskOf(a, c, e) \/ ZoomOf(e)

\* A line is of an event of its corpus, and of an ask that is through; one that
\* says an ask was answered comes with a line for each of its steps.
ServeLine(a, t, c, l) == \E e \in t : \E k :
    Through(a, c, k) /\ e.kind = "step" /\ e.of = AskId(a[k]) /\ l = LineOf(a, k, "serve", e)
AskLine(a, t, c, l) == \E k :
    Through(a, c, k) /\ AskEventOf(a, k) \in t /\ l = LineOf(a, k, "ask", AskEventOf(a, k))
ZoomLine(t, l) == \E e \in t : e.kind = "zoom" /\ l = [kind |-> "zoom", id |-> e.of, audit |-> e]
Lined(a, t, g, c) ==
    /\ \A l \in g : ServeLine(a, t, c, l) \/ AskLine(a, t, c, l) \/ ZoomLine(t, l)
    /\ \A l \in g, e \in t : l.kind = "ask" /\ e.kind = "step" /\ e.ask = l.ask =>
          LineOf(a, l.ask, "serve", e) \in g

Audited == \A c \in Corpora : Trailed(asks, trail[c], c)
Ledgered == \A c \in Corpora : Lined(asks, trail[c], ledger[c], c)

\* The numbers of a session's asks lead those it found booked under its
\* identity, and none exceeds the asks there are.
Ordered ==
    /\ \A m \in Sessions : mcp[m] # None =>
         /\ mcp[m].asks <= Len(asks)
         /\ \A j \in mcp[m].known :
              j \in DOMAIN asks /\ (asks[j].id = mcp[m].id => asks[j].n <= mcp[m].asks)
    /\ \A k \in DOMAIN asks :
         /\ mcp[asks[k].by] # None
         /\ asks[k].id = mcp[asks[k].by].id
         /\ asks[k].n <= Len(asks)
         /\ \A j \in mcp[asks[k].by].known : asks[j].id = asks[k].id => asks[j].n < asks[k].n

-----------------------------------------------------------------------------
(* The largest of some bounded numbers. *)

LEMMA Least == ASSUME NEW S, S \subseteq Nat, S # {} PROVE \E x \in S : \A y \in S : x <= y
<1> DEFINE R == OpToRel(<, Nat)
<1>1. IsWellFoundedOn(R, Nat)
  BY NatLessThanWellFounded
<1>2. ASSUME NEW x \in Nat, NEW y \in Nat, x < y PROVE <<x, y>> \in R
  BY <1>2 DEF OpToRel
<1> HIDE DEF R
<1>3. PICK x \in S : \A y \in S : ~(<<y, x>> \in R)
  BY <1>1, WFMin
<1>4. ASSUME NEW y \in S PROVE x <= y
  <2>1. x \in Nat /\ y \in Nat
    OBVIOUS
  <2>2. ~(y < x)
    BY <1>2, <1>3, <2>1
  <2> QED BY <2>1, <2>2
<1> QED BY <1>4

LEMMA MaxIs ==
    ASSUME NEW n \in Nat, NEW S, S \subseteq 0..n, S # {}
    PROVE  Max(S) \in S /\ \A y \in S : y <= Max(S)
<1> DEFINE T == {n - y : y \in S}
<1>1. \A y \in S : y \in Nat /\ n - y \in Nat
  OBVIOUS
<1>2. T \subseteq Nat /\ T # {}
  BY <1>1
<1>3. PICK x \in T : \A y \in T : x <= y
  BY <1>2, Least
<1>4. PICK m \in S : x = n - m
  OBVIOUS
<1>5. \A y \in S : m >= y
  BY <1>1, <1>3, <1>4
<1> QED BY <1>5 DEF Max

-----------------------------------------------------------------------------
(* Asks that are taken and closed: nothing else of an ask ever changes. *)

Grown(a, b) == \A k \in DOMAIN a :
    /\ k \in DOMAIN b
    /\ b[k].id = a[k].id /\ b[k].n = a[k].n /\ b[k].corpus = a[k].corpus /\ b[k].by = a[k].by
    /\ b[k].open => a[k].open

LEMMA GrownSame == ASSUME NEW a PROVE Grown(a, a)
BY DEF Grown

LEMMA Closed ==
    ASSUME TypeOK, NEW k \in DOMAIN asks, asks' = [asks EXCEPT ![k].open = FALSE]
    PROVE  asks' \in Seq(Asks) /\ Len(asks') = Len(asks) /\ Grown(asks, asks') /\ ~asks'[k].open
<1> DEFINE b == [asks[k] EXCEPT !.open = FALSE]
<1>1. asks \in [1..Len(asks) -> Asks] /\ DOMAIN asks = 1..Len(asks)
  BY DEF TypeOK
<1>2. b \in Asks /\ ~b.open /\ b.id = asks[k].id /\ b.n = asks[k].n /\ b.corpus = asks[k].corpus /\ b.by = asks[k].by
  BY <1>1 DEF Asks
<1>3. asks' = [asks EXCEPT ![k] = b]
  OBVIOUS
<1> HIDE DEF b
<1>4. asks' \in [1..Len(asks) -> Asks]
  BY <1>1, <1>2, <1>3
<1>5. asks' \in Seq(Asks) /\ Len(asks') = Len(asks)
  BY <1>4 DEF TypeOK
<1> QED BY <1>1, <1>2, <1>3, <1>5 DEF Grown

LEMMA RestartAsks ==
    ASSUME TypeOK, asks' = [k \in DOMAIN asks |-> [asks[k] EXCEPT !.open = FALSE]]
    PROVE  asks' \in Seq(Asks) /\ Len(asks') = Len(asks) /\ Grown(asks, asks')
<1>1. asks \in [1..Len(asks) -> Asks] /\ DOMAIN asks = 1..Len(asks)
  BY DEF TypeOK
<1>2. ASSUME NEW k \in DOMAIN asks
      PROVE  LET b == [asks[k] EXCEPT !.open = FALSE]
             IN  b \in Asks /\ ~b.open /\ b.id = asks[k].id /\ b.n = asks[k].n /\ b.corpus = asks[k].corpus /\ b.by = asks[k].by
  BY <1>1 DEF Asks
<1>3. asks' \in [1..Len(asks) -> Asks]
  BY <1>1, <1>2
<1>4. asks' \in Seq(Asks) /\ Len(asks') = Len(asks)
  BY <1>3 DEF TypeOK
<1> QED BY <1>2, <1>4 DEF Grown

\* The next ask of a session, in a corpus.
Taken(m, c) == [id |-> mcp[m].id, n |-> mcp[m].asks + 1, corpus |-> c, by |-> m, era |-> restarts, open |-> TRUE]

LEMMA AskShape ==
    ASSUME TypeOK, NEW m \in Sessions, NEW named \in Corpora \cup {None}, Ask(m, named)
    PROVE  \E c \in Corpora :
             /\ Taken(m, c) \in Asks
             /\ asks' = Append(asks, Taken(m, c))
             /\ asks' \in Seq(Asks) /\ Len(asks') = Len(asks) + 1 /\ Grown(asks, asks')
             /\ asks'[Len(asks) + 1] = Taken(m, c)
             /\ \A k \in DOMAIN asks' : k \in DOMAIN asks \/ k = Len(asks) + 1
             /\ \A k \in DOMAIN asks : asks'[k] = asks[k]
<1>1. PICK c \in Picked(named) : asks' = Append(asks, Taken(m, c))
  BY DEF Ask, Taken
<1>2. c \in Corpora
  BY DEF Picked
<1>3. mcp[m] \in VaultSessions
  BY DEF Ask, Live, TypeOK
<1>4. Taken(m, c) \in Asks
  BY <1>2, <1>3 DEF Taken, Asks, VaultSessions, TypeOK
<1>5. asks \in Seq(Asks)
  BY DEF TypeOK
<1> DEFINE x == Taken(m, c)
<1> HIDE DEF x
<1>6. /\ Append(asks, x) \in Seq(Asks) /\ Len(Append(asks, x)) = Len(asks) + 1
      /\ Append(asks, x)[Len(asks) + 1] = x
      /\ DOMAIN Append(asks, x) = 1..(Len(asks) + 1) /\ DOMAIN asks = 1..Len(asks) /\ Len(asks) \in Nat
      /\ \A k \in 1..Len(asks) : Append(asks, x)[k] = asks[k]
  BY <1>4, <1>5 DEF x
<1>7. /\ \A k \in DOMAIN Append(asks, x) : k \in DOMAIN asks \/ k = Len(asks) + 1
      /\ Grown(asks, Append(asks, x))
  BY <1>6 DEF Grown
<1> QED BY <1>1, <1>2, <1>4, <1>6, <1>7 DEF x

-----------------------------------------------------------------------------
(* Type correctness. *)

LEMMA AskTypes ==
    ASSUME TypeOK
    PROVE  /\ Len(asks) \in Nat /\ DOMAIN asks = 1..Len(asks)
           /\ \A k \in DOMAIN asks :
                /\ asks[k].id \in Identities /\ asks[k].n \in Nat
                /\ asks[k].corpus \in Corpora /\ asks[k].by \in Sessions /\ asks[k].open \in BOOLEAN
<1>1. asks \in [1..Len(asks) -> Asks] /\ Len(asks) \in Nat
  BY DEF TypeOK
<1> QED BY <1>1 DEF Asks

\* A session moves on.
LEMMA McpSet ==
    ASSUME TypeOK, NEW m \in Sessions, NEW v \in VaultSessions, mcp' = [mcp EXCEPT ![m] = v]
    PROVE  mcp' \in [Sessions -> VaultSessions \cup {None}]
BY DEF TypeOK

LEMMA KnownType ==
    ASSUME TypeOK, Ledgered, NEW l \in All("ask", ledger)
    PROVE  /\ l.ask \in DOMAIN asks
           /\ l.id = asks[l.ask].id /\ l.askId[2] = asks[l.ask].n
<1>1. PICK c \in Corpora : l \in ledger[c] /\ l.kind = "ask"
  BY DEF All, Kind
<1>2. AskLine(asks, trail[c], c, l)
  BY <1>1 DEF Ledgered, Lined, ServeLine, ZoomLine, LineOf
<1>3. PICK k : Through(asks, c, k) /\ l = LineOf(asks, k, "ask", AskEventOf(asks, k))
  BY <1>2 DEF AskLine
<1> QED BY <1>3 DEF Through, LineOf, AskId

\* The counter of a session goes on from the highest number that is booked under
\* its identity.
LEMMA ResumedIs ==
    ASSUME TypeOK, Ledgered, Ordered, NEW id
    PROVE  /\ Resumed(id) \in 0..Len(asks)
           /\ \A l \in All("ask", ledger) : l.id = id => l.askId[2] <= Resumed(id)
<1> DEFINE N == {0} \cup {l.askId[2] : l \in {l \in All("ask", ledger) : l.id = id}}
<1>1. Len(asks) \in Nat /\ asks \in [1..Len(asks) -> Asks]
  BY DEF TypeOK
<1>2. \A l \in All("ask", ledger) : l.askId[2] \in 0..Len(asks)
  BY <1>1, KnownType DEF Ordered, Asks
<1>3. N \subseteq 0..Len(asks) /\ N # {}
  BY <1>1, <1>2
<1>4. \A l \in All("ask", ledger) : l.id = id => l.askId[2] \in N
  OBVIOUS
<1>5. Resumed(id) = Max(N)
  BY DEF Resumed
<1> HIDE DEF N
<1> QED BY <1>1, <1>3, <1>4, <1>5, MaxIs

LEMMA InitializeShape ==
    ASSUME TypeOK, Ledgered, Ordered, NEW m \in Sessions, NEW name \in Names \cup {None}, Initialize(m, name)
    PROVE  \E v \in VaultSessions :
             /\ mcp' = [mcp EXCEPT ![m] = v]
             /\ v.asks <= Len(asks)
             /\ \A j \in v.known : j \in DOMAIN asks /\ (asks[j].id = v.id => asks[j].n <= v.asks)
<1> DEFINE id == IF name = None THEN m ELSE name
           known == {l.ask : l \in All("ask", ledger)}
           n == Resumed(id)
           v == [live |-> TRUE, id |-> id, asks |-> n, known |-> known]
<1>1. mcp' = [mcp EXCEPT ![m] = v]
  BY DEF Initialize
<1>2. Len(asks) \in Nat /\ DOMAIN asks = 1..Len(asks)
  BY DEF TypeOK
<1>3. n \in Nat /\ n <= Len(asks) /\ \A l \in All("ask", ledger) : l.id = id => l.askId[2] <= n
  BY <1>2, ResumedIs
<1>4. id \in Identities
  BY DEF Identities
<1>5. known \subseteq DOMAIN asks /\ \A j \in known : asks[j].id = id => asks[j].n <= n
  BY <1>3, KnownType
<1> HIDE DEF id, known, n
<1>6. v \in VaultSessions
  BY <1>2, <1>3, <1>4, <1>5 DEF VaultSessions
<1> QED BY <1>1, <1>3, <1>5, <1>6

LEMMA EmitType ==
    ASSUME TypeOK, NEW c \in Corpora, NEW s
    PROVE  DOMAIN [trail EXCEPT ![c] = s] = Corpora /\ DOMAIN [ledger EXCEPT ![c] = s] = Corpora
BY DEF TypeOK

LEMMA InitTyped == Init => TypeOK
BY DEF Init, TypeOK

LEMMA NextTyped == ASSUME TypeOK, Ledgered, Ordered, [Next]_vars PROVE TypeOK'
<1>1. ASSUME NEW m \in Sessions, NEW name \in Names \cup {None}, Initialize(m, name) PROVE TypeOK'
  BY <1>1, InitializeShape, McpSet DEF Initialize, TypeOK
<1>2. ASSUME NEW m \in Sessions, Terminate(m) PROVE TypeOK'
  <2>1. [mcp[m] EXCEPT !.live = FALSE] \in VaultSessions
    BY <1>2 DEF Terminate, Live, TypeOK, VaultSessions
  <2> QED BY <1>2, <2>1, McpSet DEF Terminate, TypeOK
<1>3. ASSUME NEW m \in Sessions, NEW named \in Corpora \cup {None}, Ask(m, named) PROVE TypeOK'
  <2> mcp[m] \in VaultSessions
    BY <1>3 DEF Ask, Live, TypeOK
  <2>1. [mcp[m] EXCEPT !.asks = @ + 1] \in VaultSessions
    BY DEF VaultSessions
  <2>2. mcp' = [mcp EXCEPT ![m] = [mcp[m] EXCEPT !.asks = @ + 1]]
    BY <1>3 DEF Ask
  <2> QED BY <1>3, <2>1, <2>2, McpSet, AskShape DEF Ask, TypeOK
<1>4. ASSUME NEW m \in Sessions, NEW named \in Corpora \cup {None}, NEW h \in Handles, Zoom(m, named, h) PROVE TypeOK'
  BY <1>4 DEF Zoom, TypeOK
<1>5. ASSUME NEW k \in DOMAIN asks, Step(k) PROVE TypeOK'
  BY <1>5 DEF Step, TypeOK
<1>6. ASSUME NEW k \in DOMAIN asks, Answer(k) PROVE TypeOK'
  BY <1>6, Closed DEF Answer, TypeOK
<1>7. ASSUME NEW k \in DOMAIN asks, Fails(k) PROVE TypeOK'
  <2>1. DOMAIN trail' = Corpora /\ DOMAIN ledger' = Corpora
    BY <1>7 DEF Fails, TypeOK
  <2> QED BY <1>7, <2>1, Closed DEF Fails, TypeOK
<1>8. CASE Restart
  <2>1. \A m \in Sessions : mcp[m] # None => [mcp[m] EXCEPT !.live = FALSE] \in VaultSessions
    BY DEF TypeOK, VaultSessions
  <2>2. mcp' \in [Sessions -> VaultSessions \cup {None}]
    BY <1>8, <2>1 DEF Restart
  <2>3. asks' \in Seq(Asks)
    BY <1>8, RestartAsks DEF Restart
  <2> QED BY <1>8, <2>2, <2>3 DEF Restart, TypeOK
<1>9. CASE UNCHANGED vars
  BY <1>9 DEF vars, TypeOK
<1> QED BY <1>1, <1>2, <1>3, <1>4, <1>5, <1>6, <1>7, <1>8, <1>9 DEF Next

-----------------------------------------------------------------------------
(* The numbers of the asks. *)

\* Sessions end and asks are closed; no number is given.
LEMMA OrderedKept ==
    ASSUME TypeOK, Ordered, Grown(asks, asks'), Len(asks') = Len(asks), asks' \in Seq(Asks),
           \A m \in Sessions :
             /\ mcp'[m] # None <=> mcp[m] # None
             /\ mcp[m] # None => mcp'[m].id = mcp[m].id /\ mcp'[m].asks = mcp[m].asks /\ mcp'[m].known = mcp[m].known
    PROVE  Ordered'
<1>1. DOMAIN asks' = DOMAIN asks
  BY DEF TypeOK
<1>2. \A k \in DOMAIN asks : asks[k].by \in Sessions
  BY AskTypes
<1>3. ASSUME NEW m \in Sessions, mcp'[m] # None
      PROVE  /\ mcp'[m].asks <= Len(asks')
             /\ \A j \in mcp'[m].known :
                  j \in DOMAIN asks' /\ (asks'[j].id = mcp'[m].id => asks'[j].n <= mcp'[m].asks)
  BY <1>1, <1>3 DEF Ordered, Grown
<1>4. ASSUME NEW k \in DOMAIN asks'
      PROVE  /\ mcp'[asks'[k].by] # None
             /\ asks'[k].id = mcp'[asks'[k].by].id
             /\ asks'[k].n <= Len(asks')
             /\ \A j \in mcp'[asks'[k].by].known : asks'[j].id = asks'[k].id => asks'[j].n < asks'[k].n
  <2>1. k \in DOMAIN asks /\ asks[k].by \in Sessions /\ asks'[k].by = asks[k].by
    BY <1>1, <1>2 DEF Grown
  <2>2. mcp[asks[k].by] # None /\ \A j \in mcp[asks[k].by].known : j \in DOMAIN asks
    BY <2>1 DEF Ordered
  <2> QED BY <2>1, <2>2 DEF Ordered, Grown
<1> QED BY <1>3, <1>4 DEF Ordered

LEMMA NextOrdered == ASSUME TypeOK, Ledgered, Ordered, [Next]_vars PROVE Ordered'
<1>1. ASSUME NEW m \in Sessions, NEW name \in Names \cup {None}, Initialize(m, name) PROVE Ordered'
  <2>1. PICK v \in VaultSessions :
          /\ mcp' = [mcp EXCEPT ![m] = v]
          /\ v.asks <= Len(asks)
          /\ \A j \in v.known : j \in DOMAIN asks /\ (asks[j].id = v.id => asks[j].n <= v.asks)
    BY <1>1, InitializeShape
  <2>2. mcp'[m] = v /\ \A o \in Sessions \ {m} : mcp'[o] = mcp[o]
    BY <2>1 DEF TypeOK
  <2>3. UNCHANGED asks /\ mcp[m] = None
    BY <1>1 DEF Initialize
  <2>4. \A k \in DOMAIN asks : asks[k].by \in Sessions \ {m}
    BY <2>3, AskTypes DEF Ordered
  <2> QED BY <2>1, <2>2, <2>3, <2>4 DEF Ordered
<1>2. ASSUME NEW m \in Sessions, Terminate(m) PROVE Ordered'
  <2>1. [mcp[m] EXCEPT !.live = FALSE] \in VaultSessions
    BY <1>2 DEF Terminate, Live, TypeOK, VaultSessions
  <2>2. /\ mcp[m] # None /\ mcp'[m] # None
        /\ mcp'[m].id = mcp[m].id /\ mcp'[m].asks = mcp[m].asks /\ mcp'[m].known = mcp[m].known
        /\ \A o \in Sessions \ {m} : mcp'[o] = mcp[o]
    BY <1>2, <2>1, VaultAssumption DEF Terminate, Live, TypeOK, VaultSessions
  <2>3. UNCHANGED asks
    BY <1>2 DEF Terminate
  <2> QED BY <2>2, <2>3, OrderedKept, GrownSame DEF TypeOK
<1>3. ASSUME NEW m \in Sessions, NEW named \in Corpora \cup {None}, Ask(m, named) PROVE Ordered'
  <2>1. PICK c \in Corpora :
          /\ asks' \in Seq(Asks) /\ Len(asks') = Len(asks) + 1
          /\ asks'[Len(asks) + 1] = Taken(m, c)
          /\ \A k \in DOMAIN asks' : k \in DOMAIN asks \/ k = Len(asks) + 1
          /\ \A k \in DOMAIN asks : asks'[k] = asks[k]
    BY <1>3, AskShape
  <2>2. mcp[m] \in VaultSessions /\ mcp[m] # None
    BY <1>3 DEF Ask, Live, TypeOK
  <2>3. mcp' = [mcp EXCEPT ![m] = [mcp[m] EXCEPT !.asks = @ + 1]]
    BY <1>3 DEF Ask
  <2>4. [mcp[m] EXCEPT !.asks = @ + 1] \in VaultSessions
    BY <2>2 DEF VaultSessions
  <2>5. /\ mcp'[m] # None
        /\ mcp'[m].id = mcp[m].id /\ mcp'[m].asks = mcp[m].asks + 1 /\ mcp'[m].known = mcp[m].known
        /\ \A o \in Sessions \ {m} : mcp'[o] = mcp[o]
    BY <2>2, <2>3, <2>4, VaultAssumption DEF TypeOK, VaultSessions
  <2>6. /\ Len(asks) \in Nat /\ DOMAIN asks = 1..Len(asks) /\ DOMAIN asks' = 1..(Len(asks) + 1)
        /\ mcp[m].asks \in Nat
        /\ \A k \in DOMAIN asks : asks[k].by \in Sessions /\ asks[k].n \in Nat
    BY <2>1, <2>2, AskTypes DEF VaultSessions
  <2>7. ASSUME NEW o \in Sessions, mcp'[o] # None
        PROVE  /\ mcp'[o].asks <= Len(asks')
               /\ \A j \in mcp'[o].known :
                    j \in DOMAIN asks' /\ (asks'[j].id = mcp'[o].id => asks'[j].n <= mcp'[o].asks)
    <3>1. CASE o = m
      BY <2>1, <2>2, <2>5, <2>6, <3>1 DEF Ordered
    <3>2. CASE o # m
      <4>1. mcp[o] # None /\ mcp'[o] = mcp[o] /\ mcp[o] \in VaultSessions
        BY <2>5, <2>7, <3>2 DEF TypeOK
      <4>2. mcp[o].asks \in Nat
        BY <4>1 DEF VaultSessions
      <4> QED BY <2>1, <2>6, <4>1, <4>2 DEF Ordered
    <3> QED BY <3>1, <3>2
  <2>8. ASSUME NEW k \in DOMAIN asks
        PROVE  /\ mcp'[asks'[k].by] # None
               /\ asks'[k].id = mcp'[asks'[k].by].id
               /\ asks'[k].n <= Len(asks')
               /\ \A j \in mcp'[asks'[k].by].known : asks'[j].id = asks'[k].id => asks'[j].n < asks'[k].n
    <3>1. /\ asks'[k] = asks[k] /\ asks[k].by \in Sessions /\ mcp[asks[k].by] # None
          /\ asks[k].id = mcp[asks[k].by].id /\ asks[k].n <= Len(asks) /\ asks[k].n \in Nat
      BY <2>1, <2>6 DEF Ordered
    <3>2. /\ mcp'[asks[k].by] # None /\ mcp'[asks[k].by].id = mcp[asks[k].by].id
          /\ mcp'[asks[k].by].known = mcp[asks[k].by].known
      BY <2>5, <3>1
    <3>3. \A j \in mcp[asks[k].by].known : j \in DOMAIN asks /\ asks'[j] = asks[j]
      BY <2>1, <3>1 DEF Ordered
    <3> QED BY <2>1, <2>6, <3>1, <3>2, <3>3 DEF Ordered
  <2>9. ASSUME NEW k, k = Len(asks) + 1
        PROVE  /\ mcp'[asks'[k].by] # None
               /\ asks'[k].id = mcp'[asks'[k].by].id
               /\ asks'[k].n <= Len(asks')
               /\ \A j \in mcp'[asks'[k].by].known : asks'[j].id = asks'[k].id => asks'[j].n < asks'[k].n
    <3>1. asks'[k].by = m /\ asks'[k].id = mcp[m].id /\ asks'[k].n = mcp[m].asks + 1
      BY <2>1, <2>9 DEF Taken
    <3>2. \A j \in mcp[m].known : j \in DOMAIN asks /\ asks'[j] = asks[j] /\ asks[j].n \in Nat
      BY <2>1, <2>2, <2>6 DEF Ordered
    <3>3. mcp[m].asks <= Len(asks) /\ \A j \in mcp[m].known : asks[j].id = mcp[m].id => asks[j].n <= mcp[m].asks
      BY <2>2 DEF Ordered
    <3>4. /\ mcp'[m] # None /\ mcp'[m].id = mcp[m].id /\ mcp'[m].known = mcp[m].known
          /\ Len(asks') = Len(asks) + 1 /\ Len(asks) \in Nat /\ mcp[m].asks \in Nat
      BY <2>1, <2>5, <2>6
    <3>5. asks'[k].n <= Len(asks')
      BY <3>1, <3>3, <3>4
    <3>6. \A j \in mcp[m].known : asks'[j].id = mcp[m].id => asks'[j].n < mcp[m].asks + 1
      BY <3>2, <3>3, <3>4
    <3> QED BY <3>1, <3>4, <3>5, <3>6
  <2> QED BY <2>1, <2>7, <2>8, <2>9 DEF Ordered
<1>4. ASSUME NEW m \in Sessions, NEW named \in Corpora \cup {None}, NEW h \in Handles, Zoom(m, named, h)
      PROVE  UNCHANGED <<mcp, asks>>
  BY <1>4 DEF Zoom
<1>5. ASSUME NEW k \in DOMAIN asks, Step(k) PROVE UNCHANGED <<mcp, asks>>
  BY <1>5 DEF Step
<1>6. ASSUME NEW k \in DOMAIN asks, Answer(k) \/ Fails(k) PROVE Ordered'
  <2>1. asks' = [asks EXCEPT ![k].open = FALSE] /\ UNCHANGED mcp
    BY <1>6 DEF Answer, Fails
  <2> QED BY <2>1, Closed, OrderedKept
<1>7. CASE Restart
  <2>1. \A m \in Sessions : mcp[m] # None =>
          /\ [mcp[m] EXCEPT !.live = FALSE] \in VaultSessions
          /\ [mcp[m] EXCEPT !.live = FALSE].id = mcp[m].id
          /\ [mcp[m] EXCEPT !.live = FALSE].asks = mcp[m].asks
          /\ [mcp[m] EXCEPT !.live = FALSE].known = mcp[m].known
    BY DEF TypeOK, VaultSessions
  <2>2. \A m \in Sessions :
             /\ mcp'[m] # None <=> mcp[m] # None
             /\ mcp[m] # None => mcp'[m].id = mcp[m].id /\ mcp'[m].asks = mcp[m].asks /\ mcp'[m].known = mcp[m].known
    BY <1>7, <2>1, VaultAssumption DEF Restart
  <2> QED BY <1>7, <2>2, RestartAsks, OrderedKept DEF Restart
<1>8. CASE UNCHANGED <<mcp, asks>>
  BY <1>8 DEF Ordered
<1>9. CASE UNCHANGED vars
  BY <1>8, <1>9 DEF vars
<1> QED BY <1>1, <1>2, <1>3, <1>4, <1>5, <1>6, <1>7, <1>8, <1>9 DEF Next

-----------------------------------------------------------------------------
(* The trail and the ledger of a corpus. *)

LEMMA TrailedKept ==
    ASSUME NEW a, NEW b, Grown(a, b), NEW t, NEW c, Trailed(a, t, c) PROVE Trailed(b, t, c)
<1>1. \A k \in DOMAIN a : AskId(b[k]) = AskId(a[k]) /\ AskEventOf(b, k) = AskEventOf(a, k)
  BY DEF Grown, AskId, AskEventOf
<1>2. \A e : StepOf(a, c, e) => StepOf(b, c, e)
  BY <1>1 DEF StepOf, Grown
<1>3. \A k : Through(a, c, k) => Through(b, c, k)
  BY DEF Through, Grown
<1>4. \A e : AskOf(a, c, e) => AskOf(b, c, e)
  BY <1>1, <1>3 DEF AskOf, Through
<1> QED BY <1>2, <1>4 DEF Trailed

LEMMA TrailedAdd ==
    ASSUME NEW a, NEW t, NEW c, Trailed(a, t, c), NEW e, StepOf(a, c, e) \/ AskOf(a, c, e) \/ ZoomOf(e)
    PROVE  Trailed(a, t \cup {e}, c)
<1>1. IsFiniteSet(t \cup {e})
  BY FS_AddElement DEF Trailed
<1> QED BY <1>1 DEF Trailed

\* Asks are taken and closed, and events are added: steps only of asks that are
\* still open.
LEMMA LinedKept ==
    ASSUME NEW a, NEW b, Grown(a, b), NEW t, NEW t2, t \subseteq t2, NEW g, NEW c, Lined(a, t, g, c),
           \A e \in t2 \ t : e.kind = "step" => ~Through(b, c, e.ask)
    PROVE  Lined(b, t2, g, c)
<1>1. \A k \in DOMAIN a : /\ AskId(b[k]) = AskId(a[k]) /\ AskEventOf(b, k) = AskEventOf(a, k)
                          /\ \A kind, e : LineOf(b, k, kind, e) = LineOf(a, k, kind, e)
  BY DEF Grown, AskId, AskEventOf, LineOf
<1>2. \A k : Through(a, c, k) => Through(b, c, k) /\ k \in DOMAIN a
  BY DEF Through, Grown
<1>3. ASSUME NEW l, ServeLine(a, t, c, l) PROVE ServeLine(b, t2, c, l)
  <2>1. PICK e \in t : \E k : Through(a, c, k) /\ e.kind = "step" /\ e.of = AskId(a[k]) /\ l = LineOf(a, k, "serve", e)
    BY <1>3 DEF ServeLine
  <2> QED BY <1>1, <1>2, <2>1 DEF ServeLine
<1>4. ASSUME NEW l, AskLine(a, t, c, l) PROVE AskLine(b, t2, c, l) /\ l.ask \in DOMAIN a /\ Through(b, c, l.ask)
  <2>1. PICK k : Through(a, c, k) /\ AskEventOf(a, k) \in t /\ l = LineOf(a, k, "ask", AskEventOf(a, k))
    BY <1>4 DEF AskLine
  <2>2. l.ask = k
    BY <2>1 DEF LineOf
  <2> QED BY <1>1, <1>2, <2>1, <2>2 DEF AskLine
<1>5. \A l : ZoomLine(t, l) => ZoomLine(t2, l)
  BY DEF ZoomLine
<1>6. \A l \in g : ServeLine(b, t2, c, l) \/ AskLine(b, t2, c, l) \/ ZoomLine(t2, l)
  BY <1>3, <1>4, <1>5 DEF Lined
<1>7. ASSUME NEW l \in g, l.kind = "ask" PROVE AskLine(a, t, c, l)
  BY <1>7 DEF Lined, ServeLine, ZoomLine, LineOf
<1>8. ASSUME NEW l \in g, NEW e \in t2, l.kind = "ask", e.kind = "step", e.ask = l.ask
      PROVE  LineOf(b, l.ask, "serve", e) \in g
  <2>1. l.ask \in DOMAIN a /\ Through(b, c, l.ask)
    BY <1>4, <1>7, <1>8
  <2>2. e \in t
    BY <1>8, <2>1
  <2>3. LineOf(a, l.ask, "serve", e) \in g
    BY <1>8, <2>2 DEF Lined
  <2> QED BY <1>1, <2>1, <2>3
<1> QED BY <1>6, <1>8 DEF Lined

LEMMA LinedAdd ==
    ASSUME NEW a, NEW t, NEW g, NEW c, Lined(a, t, g, c), NEW new,
           \A l \in new : ServeLine(a, t, c, l) \/ AskLine(a, t, c, l) \/ ZoomLine(t, l),
           \A l \in new, e \in t : l.kind = "ask" /\ e.kind = "step" /\ e.ask = l.ask =>
               LineOf(a, l.ask, "serve", e) \in new
    PROVE  Lined(a, t, g \cup new, c)
BY DEF Lined

\* What is not changed stays accounted for.
LEMMA AccountsKept ==
    ASSUME TypeOK, Audited, Ledgered, Grown(asks, asks'), NEW D, D \subseteq Corpora,
           \A c \in D : trail'[c] = trail[c] /\ ledger'[c] = ledger[c]
    PROVE  \A c \in D : Trailed(asks', trail'[c], c) /\ Lined(asks', trail'[c], ledger'[c], c)
BY TrailedKept, LinedKept DEF Audited, Ledgered

LEMMA StepAccounts ==
    ASSUME TypeOK, Audited, Ledgered, NEW k \in DOMAIN asks, Step(k) PROVE Audited' /\ Ledgered'
<1> DEFINE c == asks[k].corpus
           n == 1 + Cardinality({e \in Kind("step", trail[c]) : e.ask = k})
           ev == [kind |-> "step", of |-> AskId(asks[k]), ask |-> k, nth |-> n]
<1>1. c \in Corpora /\ trail' = [trail EXCEPT ![c] = @ \cup {ev}] /\ UNCHANGED <<asks, ledger>>
  BY AskTypes DEF Step
<1>2. Trailed(asks, trail[c], c) /\ Lined(asks, trail[c], ledger[c], c)
  BY <1>1 DEF Audited, Ledgered
<1>4. StepOf(asks, c, ev)
  BY DEF StepOf
<1>5. ev.kind = "step" /\ ev.ask = k
  OBVIOUS
<1>6. ~Through(asks, c, k)
  BY DEF Step, Through
<1> HIDE DEF ev, c
<1>7. trail'[c] = trail[c] \cup {ev} /\ ledger'[c] = ledger[c]
      /\ \A d \in Corpora \ {c} : trail'[d] = trail[d] /\ ledger'[d] = ledger[d]
  BY <1>1 DEF TypeOK
<1>8. Trailed(asks, trail'[c], c)
  BY <1>2, <1>4, <1>7, TrailedAdd
<1>9. Lined(asks, trail'[c], ledger'[c], c)
  BY <1>2, <1>5, <1>6, <1>7, LinedKept, GrownSame
<1>10. \A d \in Corpora \ {c} : Trailed(asks', trail'[d], d) /\ Lined(asks', trail'[d], ledger'[d], d)
  BY <1>1, <1>7, AccountsKept, GrownSame
<1> QED BY <1>1, <1>8, <1>9, <1>10 DEF Audited, Ledgered

LEMMA ServeLineIs ==
    ASSUME NEW a, NEW t, NEW c, NEW k, NEW e \in t,
           Through(a, c, k), e.kind = "step", e.of = AskId(a[k])
    PROVE  ServeLine(a, t, c, LineOf(a, k, "serve", e))
BY DEF ServeLine

\* The end of an ask: its event, and the lines of some of its steps; with the
\* line that it was answered comes one of each.
LEMMA EndAccounts ==
    ASSUME TypeOK, Audited, Ledgered, NEW k \in DOMAIN asks, asks' = [asks EXCEPT ![k].open = FALSE],
           NEW booked, booked \subseteq Own(k), NEW told, told \subseteq {Line(k, "ask", AskEvent(k))},
           told # {} => booked = Own(k),
           trail' = [trail EXCEPT ![asks[k].corpus] = @ \cup {AskEvent(k)}],
           ledger' = [ledger EXCEPT ![asks[k].corpus] = @ \cup ({Line(k, "serve", e) : e \in booked} \cup told)]
    PROVE  Audited' /\ Ledgered'
<1> DEFINE c == asks[k].corpus
           ev == AskEventOf(asks', k)
           served == {LineOf(asks', k, "serve", e) : e \in booked}
           new == served \cup told
<1>1. c \in Corpora /\ Grown(asks, asks') /\ ~asks'[k].open
  BY AskTypes, Closed
<1>2. AskEvent(k) = ev /\ AskId(asks'[k]) = AskId(asks[k])
  BY <1>1 DEF Grown, AskEvent, AskEventOf, AskId
<1>3. \A kind, e : Line(k, kind, e) = LineOf(asks', k, kind, e)
  BY <1>1, <1>2 DEF Grown, Line, LineOf
<1>4. Through(asks', c, k)
  BY <1>1 DEF Grown, Through
<1>5. \A e \in Own(k) : e \in trail[c] /\ e.kind = "step" /\ e.of = AskId(asks'[k])
  BY <1>2 DEF Own, Kind
<1>6. told \subseteq {LineOf(asks', k, "ask", ev)}
  BY <1>2, <1>3
<1>7. /\ trail' = [trail EXCEPT ![c] = @ \cup {ev}]
      /\ ledger' = [ledger EXCEPT ![c] = @ \cup new]
  <2>1. {Line(k, "serve", e) : e \in booked} = served
    <3>1. \A e \in booked : Line(k, "serve", e) = LineOf(asks', k, "serve", e)
      BY <1>3
    <3> QED BY <3>1, Zenon
  <2> QED BY <1>2, <2>1
<1>8. AskOf(asks', c, ev) /\ ev.kind = "ask"
  BY <1>4 DEF AskOf, AskEventOf
<1>9. \A l \in new : l \in told \/ (l.kind = "serve" /\ \E e \in booked : l = LineOf(asks', k, "serve", e))
  <2>1. \A e : LineOf(asks', k, "serve", e).kind = "serve"
    BY DEF LineOf
  <2> QED BY <2>1
<1>10. \A l \in told : l.kind = "ask" /\ l.ask = k /\ l = LineOf(asks', k, "ask", ev)
  <2>1. LineOf(asks', k, "ask", ev).kind = "ask" /\ LineOf(asks', k, "ask", ev).ask = k
    BY DEF LineOf
  <2> HIDE DEF ev
  <2> QED BY <1>6, <2>1
<1>11. \A e \in booked : LineOf(asks', k, "serve", e) \in new
  OBVIOUS
<1>12. \A e \in trail[c] : e.kind = "step" /\ e.ask = k => e \in Own(k)
  <2>1. \A e \in trail[c] : e.kind = "step" => StepOf(asks, c, e)
    BY <1>1 DEF Audited, Trailed, AskOf, AskEventOf, ZoomOf
  <2>2. \A e \in trail[c] : e.kind = "step" /\ e.ask = k => e.of = AskId(asks[k])
    BY <2>1 DEF StepOf
  <2> QED BY <2>2 DEF Own, Kind
<1> HIDE DEF c, ev, served, new
<1>13. /\ trail'[c] = trail[c] \cup {ev} /\ ledger'[c] = ledger[c] \cup new
       /\ \A d \in Corpora \ {c} : trail'[d] = trail[d] /\ ledger'[d] = ledger[d]
  BY <1>1, <1>7 DEF TypeOK
<1>14. Trailed(asks', trail'[c], c)
  BY <1>1, <1>8, <1>13, TrailedKept, TrailedAdd DEF Audited
<1>15. Lined(asks', trail'[c], ledger[c], c)
  <2>1. Lined(asks, trail[c], ledger[c], c) /\ trail[c] \subseteq trail'[c]
    BY <1>1, <1>13 DEF Ledgered
  <2>2. \A e \in trail'[c] \ trail[c] : e.kind # "step"
    BY <1>8, <1>13
  <2> QED BY <1>1, <2>1, <2>2, LinedKept
<1>16. \A l \in new : ServeLine(asks', trail'[c], c, l) \/ AskLine(asks', trail'[c], c, l)
  <2>1. ASSUME NEW e \in booked PROVE ServeLine(asks', trail'[c], c, LineOf(asks', k, "serve", e))
    <3>1. e \in trail'[c] /\ e.kind = "step" /\ e.of = AskId(asks'[k])
      BY <1>5, <1>13
    <3> QED BY <1>4, <3>1, ServeLineIs
  <2>2. \A l \in told : AskLine(asks', trail'[c], c, l)
    BY <1>4, <1>10, <1>13 DEF AskLine, ev
  <2> QED BY <1>9, <2>1, <2>2
<1>17. ASSUME NEW l \in new, NEW e \in trail'[c], l.kind = "ask", e.kind = "step", e.ask = l.ask
       PROVE  LineOf(asks', l.ask, "serve", e) \in new
  <2>1. l \in told /\ l.ask = k
    BY <1>9, <1>10, <1>17
  <2>2. e \in trail[c]
    BY <1>8, <1>13, <1>17
  <2>3. e \in booked
    BY <1>12, <1>17, <2>1, <2>2
  <2> QED BY <1>11, <2>1, <2>3
<1>18. Lined(asks', trail'[c], ledger'[c], c)
  <2>1. Lined(asks', trail'[c], ledger[c] \cup new, c)
    BY <1>15, <1>16, <1>17, LinedAdd
  <2> QED BY <1>13, <2>1
<1>19. \A d \in Corpora \ {c} : Trailed(asks', trail'[d], d) /\ Lined(asks', trail'[d], ledger'[d], d)
  BY <1>1, <1>13, AccountsKept
<1> QED BY <1>14, <1>18, <1>19 DEF Audited, Ledgered

LEMMA ZoomAccounts ==
    ASSUME TypeOK, Audited, Ledgered, NEW m \in Sessions, NEW named \in Corpora \cup {None},
           NEW h \in Handles, Zoom(m, named, h)
    PROVE  Audited' /\ Ledgered'
<1> DEFINE n == 1 + Cardinality(All("zoom", trail))
           ev == [kind |-> "zoom", of |-> mcp[m].id, nth |-> n]
           line == [kind |-> "zoom", id |-> mcp[m].id, audit |-> ev]
<1>1. PICK c \in HandleCorpus(named, h) :
        /\ trail' = [trail EXCEPT ![c] = @ \cup {ev}]
        /\ ledger' = [ledger EXCEPT ![c] = @ \cup {line}] \/ UNCHANGED ledger
  BY DEF Zoom
<1>2. c \in Corpora
  BY DEF HandleCorpus, Picked
<1>3. UNCHANGED asks /\ mcp[m] \in VaultSessions
  BY DEF Zoom, Live, TypeOK
<1>4. ZoomOf(ev) /\ ev.kind = "zoom" /\ line.kind = "zoom"
  BY <1>3 DEF ZoomOf, VaultSessions
<1>5. line = [kind |-> "zoom", id |-> ev.of, audit |-> ev]
  OBVIOUS
<1> HIDE DEF ev, line
<1>6. trail'[c] = trail[c] \cup {ev} /\ \A d \in Corpora \ {c} : trail'[d] = trail[d] /\ ledger'[d] = ledger[d]
  BY <1>1, <1>2 DEF TypeOK
<1>7. ledger'[c] = ledger[c] \/ ledger'[c] = ledger[c] \cup {line}
  BY <1>1, <1>2 DEF TypeOK
<1>8. Trailed(asks, trail'[c], c)
  BY <1>2, <1>4, <1>6, TrailedAdd DEF Audited
<1>9. Lined(asks, trail'[c], ledger[c], c)
  <2>1. Lined(asks, trail[c], ledger[c], c) /\ trail[c] \subseteq trail'[c]
    BY <1>2, <1>6 DEF Ledgered
  <2>2. \A e \in trail'[c] \ trail[c] : e.kind # "step"
    BY <1>4, <1>6
  <2> QED BY <2>1, <2>2, LinedKept, GrownSame
<1>10. ZoomLine(trail'[c], line)
  BY <1>4, <1>5, <1>6 DEF ZoomLine
<1>11. Lined(asks, trail'[c], ledger[c] \cup {line}, c)
  BY <1>4, <1>9, <1>10, LinedAdd
<1>12. \A d \in Corpora \ {c} : Trailed(asks', trail'[d], d) /\ Lined(asks', trail'[d], ledger'[d], d)
  BY <1>3, <1>6, AccountsKept, GrownSame
<1> QED BY <1>3, <1>7, <1>8, <1>9, <1>11, <1>12 DEF Audited, Ledgered

LEMMA NextAccounts == ASSUME TypeOK, Audited, Ledgered, [Next]_vars PROVE Audited' /\ Ledgered'
<1>1. CASE Grown(asks, asks') /\ UNCHANGED <<trail, ledger>>
  BY <1>1, AccountsKept DEF Audited, Ledgered
<1>2. CASE UNCHANGED <<asks, trail, ledger>>
  BY <1>1, <1>2, GrownSame
<1>3. ASSUME NEW m \in Sessions, NEW name \in Names \cup {None}, Initialize(m, name)
      PROVE  UNCHANGED <<asks, trail, ledger>>
  BY <1>3 DEF Initialize
<1>4. ASSUME NEW m \in Sessions, Terminate(m) PROVE UNCHANGED <<asks, trail, ledger>>
  BY <1>4 DEF Terminate
<1>5. ASSUME NEW m \in Sessions, NEW named \in Corpora \cup {None}, Ask(m, named)
      PROVE  Grown(asks, asks') /\ UNCHANGED <<trail, ledger>>
  BY <1>5, AskShape DEF Ask
<1>6. CASE Restart
  BY <1>1, <1>6, RestartAsks DEF Restart
<1>7. ASSUME NEW k \in DOMAIN asks, Answer(k) PROVE Audited' /\ Ledgered'
  <2> DEFINE booked == Own(k)
             told == {Line(k, "ask", AskEvent(k))}
  <2>1. /\ asks' = [asks EXCEPT ![k].open = FALSE]
        /\ trail' = [trail EXCEPT ![asks[k].corpus] = @ \cup {AskEvent(k)}]
    BY <1>7 DEF Answer
  <2>2. ledger' = [ledger EXCEPT ![asks[k].corpus] = @ \cup ({Line(k, "serve", e) : e \in booked} \cup told)]
    BY <1>7 DEF Answer
  <2>3. booked \subseteq Own(k) /\ told \subseteq {Line(k, "ask", AskEvent(k))} /\ (told # {} => booked = Own(k))
    OBVIOUS
  <2> HIDE DEF booked, told
  <2> QED BY <2>1, <2>2, <2>3, EndAccounts
<1>8. ASSUME NEW k \in DOMAIN asks, Fails(k) PROVE Audited' /\ Ledgered'
  <2>1. asks' = [asks EXCEPT ![k].open = FALSE]
    BY <1>8 DEF Fails
  <2>2. CASE UNCHANGED <<trail, ledger>>
    BY <1>1, <2>1, <2>2, Closed
  <2>3. ASSUME NEW booked \in SUBSET Own(k),
               trail' = [trail EXCEPT ![asks[k].corpus] = @ \cup {AskEvent(k)}],
               ledger' = [ledger EXCEPT ![asks[k].corpus] = @ \cup {Line(k, "serve", e) : e \in booked}]
        PROVE  Audited' /\ Ledgered'
    <3> DEFINE told == {}
    <3>1. ledger' = [ledger EXCEPT ![asks[k].corpus] = @ \cup ({Line(k, "serve", e) : e \in booked} \cup told)]
      BY <2>3
    <3>2. booked \subseteq Own(k) /\ told \subseteq {Line(k, "ask", AskEvent(k))} /\ (told # {} => booked = Own(k))
      OBVIOUS
    <3> HIDE DEF told
    <3> QED BY <2>1, <2>3, <3>1, <3>2, EndAccounts
  <2> QED BY <1>8, <2>2, <2>3 DEF Fails
<1>9. CASE UNCHANGED vars
  BY <1>2, <1>9 DEF vars
<1> QED BY <1>1, <1>2, <1>3, <1>4, <1>5, <1>6, <1>7, <1>8, <1>9, StepAccounts, ZoomAccounts DEF Next
-----------------------------------------------------------------------------
(* The invariant. *)

Sound == TypeOK /\ Audited /\ Ledgered /\ Ordered

LEMMA InitSound == Init => Sound
<1> SUFFICES ASSUME Init PROVE Sound
  OBVIOUS
<1>1. TypeOK
  BY InitTyped
<1>2. DOMAIN asks = {} /\ \A m \in Sessions : mcp[m] = None
  BY DEF Init
<1>3. \A c \in Corpora : trail[c] = {} /\ ledger[c] = {}
  BY DEF Init
<1>4. Audited
  BY <1>3, FS_EmptySet DEF Audited, Trailed
<1>5. Ledgered
  BY <1>3 DEF Ledgered, Lined
<1>6. Ordered
  BY <1>2 DEF Ordered
<1> QED BY <1>1, <1>4, <1>5, <1>6 DEF Sound

LEMMA NextSound == ASSUME Sound, [Next]_vars PROVE Sound'
BY NextTyped, NextOrdered, NextAccounts DEF Sound

LEMMA AlwaysSound == Spec => []Sound
BY InitSound, NextSound, PTL DEF Spec

\* The vault's state is of its types: an identity numbers its asks, and each
\* corpus has a trail and a ledger.
THEOREM VaultTyped == Spec => []TypeOK
<1>1. Sound => TypeOK
  BY DEF Sound
<1> QED BY <1>1, AlwaysSound, PTL

-----------------------------------------------------------------------------
(* Numbers. *)

LEMMA NumbersLead == ASSUME TypeOK, Ordered PROVE NumbersGoOn
<1> SUFFICES ASSUME NEW k \in DOMAIN asks, NEW j \in mcp[asks[k].by].known PROVE AskId(asks[j]) # AskId(asks[k])
  BY DEF NumbersGoOn
<1>1. asks[k].by \in Sessions /\ mcp[asks[k].by] # None
  BY AskTypes DEF Ordered
<1>2. j \in DOMAIN asks
  BY <1>1 DEF Ordered
<1>3. asks[j].n \in Nat /\ asks[k].n \in Nat
  BY <1>2, AskTypes
<1>4. asks[j].id = asks[k].id => asks[j].n < asks[k].n
  BY DEF Ordered
<1> QED BY <1>3, <1>4 DEF AskId

\* No ask is given the id of one that its session found booked, however often
\* the server was started again and whatever sessions share the identity.
THEOREM AskIdsGoOn == Spec => []NumbersGoOn
<1>1. Sound => NumbersGoOn
  BY NumbersLead DEF Sound
<1> QED BY <1>1, AlwaysSound, PTL

-----------------------------------------------------------------------------
(* Lines and events. *)

\* The line of an event.
LineFor(e) ==
    IF e.kind = "zoom" THEN [kind |-> "zoom", id |-> e.of, audit |-> e]
    ELSE LineOf(asks, e.ask, IF e.kind = "step" THEN "serve" ELSE "ask", e)

LEMMA LineForIs ==
    ASSUME NEW e
    PROVE  /\ LineFor(e).audit = e
           /\ LineFor(e).kind = IF e.kind = "zoom" THEN "zoom" ELSE IF e.kind = "step" THEN "serve" ELSE "ask"
           /\ LineFor(e).id = IF e.kind = "zoom" THEN e.of ELSE asks[e.ask].id
BY DEF LineFor, LineOf

\* An event and the ask it says it is of.
LEMMA EventIs ==
    ASSUME TypeOK, Audited, NEW c \in Corpora, NEW e \in trail[c]
    PROVE  \/ /\ e.kind = "zoom" /\ e.of \in Identities
           \/ /\ e.kind = "step" /\ e.ask \in DOMAIN asks /\ asks[e.ask].corpus = c
              /\ e.of = AskId(asks[e.ask]) /\ e.of[1] = asks[e.ask].id
           \/ /\ e.kind = "ask" /\ e.ask \in DOMAIN asks /\ asks[e.ask].corpus = c
              /\ e = AskEventOf(asks, e.ask) /\ e.of = asks[e.ask].id
<1>1. StepOf(asks, c, e) \/ AskOf(asks, c, e) \/ ZoomOf(e)
  BY DEF Audited, Trailed
<1>2. CASE StepOf(asks, c, e)
  <2>1. PICK k \in DOMAIN asks :
          asks[k].corpus = c /\ e = [kind |-> "step", of |-> AskId(asks[k]), ask |-> k, nth |-> e.nth]
    BY <1>2 DEF StepOf
  <2>2. e.kind = "step" /\ e.ask = k /\ e.of = AskId(asks[k])
    BY <2>1
  <2> QED BY <2>1, <2>2 DEF AskId
<1>3. CASE AskOf(asks, c, e)
  <2>1. PICK k : Through(asks, c, k) /\ e = AskEventOf(asks, k)
    BY <1>3 DEF AskOf
  <2>2. e.kind = "ask" /\ e.ask = k /\ e.of = asks[k].id
    BY <2>1 DEF AskEventOf
  <2> QED BY <2>1, <2>2 DEF Through
<1>4. CASE ZoomOf(e)
  <2>1. PICK id \in Identities : e = [kind |-> "zoom", of |-> id, nth |-> e.nth]
    BY <1>4 DEF ZoomOf
  <2>2. e.kind = "zoom" /\ e.of = id
    BY <2>1
  <2> QED BY <2>2
<1> QED BY <1>1, <1>2, <1>3, <1>4

\* The line of an event is the line for it, unless two asks share an id.
LEMMA OneLine ==
    ASSUME TypeOK, Audited, Ledgered, NEW c \in Corpora, NEW l \in ledger[c],
           l.audit.kind = "step" => Alone(l.audit.ask)
    PROVE  l.audit \in trail[c] /\ l = LineFor(l.audit)
<1>1. ServeLine(asks, trail[c], c, l) \/ AskLine(asks, trail[c], c, l) \/ ZoomLine(trail[c], l)
  BY DEF Ledgered, Lined
<1>2. CASE ServeLine(asks, trail[c], c, l)
  <2>1. PICK e \in trail[c] : \E k :
          Through(asks, c, k) /\ e.kind = "step" /\ e.of = AskId(asks[k]) /\ l = LineOf(asks, k, "serve", e)
    BY <1>2 DEF ServeLine
  <2>2. PICK k : Through(asks, c, k) /\ e.of = AskId(asks[k]) /\ l = LineOf(asks, k, "serve", e)
    BY <2>1
  <2>3. e.kind = "step" /\ l.audit = e
    BY <2>1, <2>2 DEF LineOf
  <2>4. e.ask \in DOMAIN asks /\ e.of = AskId(asks[e.ask])
    BY <2>3, EventIs
  <2>5. k = e.ask
    BY <2>2, <2>3, <2>4 DEF Alone, Through
  <2> QED BY <2>2, <2>3, <2>5 DEF LineFor
<1>3. CASE AskLine(asks, trail[c], c, l)
  <2>1. PICK k : /\ Through(asks, c, k) /\ AskEventOf(asks, k) \in trail[c]
                 /\ l = LineOf(asks, k, "ask", AskEventOf(asks, k))
    BY <1>3 DEF AskLine
  <2>2. l.audit = AskEventOf(asks, k)
    BY <2>1 DEF LineOf
  <2>3. AskEventOf(asks, k).kind = "ask" /\ AskEventOf(asks, k).ask = k
    BY DEF AskEventOf
  <2> QED BY <2>1, <2>2, <2>3 DEF LineFor
<1>4. CASE ZoomLine(trail[c], l)
  <2>1. PICK e \in trail[c] : e.kind = "zoom" /\ l = [kind |-> "zoom", id |-> e.of, audit |-> e]
    BY <1>4 DEF ZoomLine
  <2>2. l.audit = e
    BY <2>1
  <2> QED BY <2>1, <2>2 DEF LineFor
<1> QED BY <1>1, <1>2, <1>3, <1>4

LEMMA LineHasEvent ==
    ASSUME TypeOK, Ledgered, NEW c \in Corpora, NEW l \in ledger[c] PROVE l.audit \in trail[c]
<1>1. ServeLine(asks, trail[c], c, l) \/ AskLine(asks, trail[c], c, l) \/ ZoomLine(trail[c], l)
  BY DEF Ledgered, Lined
<1> QED BY <1>1 DEF ServeLine, AskLine, ZoomLine, LineOf

\* The events of an ask that was answered have their lines.
LEMMA LinesOfAnswer ==
    ASSUME TypeOK, Audited, Ledgered, NEW c \in Corpora, NEW e \in trail[c], e.kind # "zoom", Booked(e.ask)
    PROVE  \E l \in ledger[c] : l.audit = e
<1>1. PICK d \in Corpora : \E l \in ledger[d] : l.kind = "ask" /\ l.ask = e.ask
  BY DEF Booked, All, Kind
<1>2. PICK l \in ledger[d] : l.kind = "ask" /\ l.ask = e.ask
  BY <1>1
<1>3. AskLine(asks, trail[d], d, l)
  BY <1>2 DEF Ledgered, Lined, ServeLine, ZoomLine, LineOf
<1>4. PICK k : Through(asks, d, k) /\ l = LineOf(asks, k, "ask", AskEventOf(asks, k))
  BY <1>3 DEF AskLine
<1>5. k = e.ask /\ l.audit = AskEventOf(asks, k)
  BY <1>2, <1>4 DEF LineOf
<1>6. d = c
  BY <1>4, <1>5, EventIs DEF Through
<1>7. CASE e.kind = "step"
  <2>1. LineOf(asks, l.ask, "serve", e) \in ledger[c]
    BY <1>2, <1>6, <1>7 DEF Ledgered, Lined
  <2> QED BY <2>1 DEF LineOf
<1>8. CASE e.kind = "ask"
  BY <1>2, <1>5, <1>6, <1>8, EventIs
<1> QED BY <1>7, <1>8, EventIs

LEMMA AtMostOneLine ==
    ASSUME NEW S, NEW x, S \subseteq {x} PROVE Cardinality(S) <= 1
<1>1. IsFiniteSet({x}) /\ Cardinality({x}) = 1
  BY FS_Singleton
<1> QED BY <1>1, FS_Subset

LEMMA SoundReconciles == ASSUME TypeOK, Audited, Ledgered PROVE Reconciled
<1>1. ASSUME NEW c \in Corpora, NEW e \in trail[c], e.kind # "step" \/ Alone(e.ask)
      PROVE  LET lines == {l \in ledger[c] : l.audit = e}
             IN  /\ Cardinality(lines) <= 1
                 /\ \A l \in lines : l.id = IF e.kind = "step" THEN e.of[1] ELSE e.of
                 /\ e.kind # "zoom" /\ Booked(e.ask) => lines # {}
  <2> DEFINE lines == {l \in ledger[c] : l.audit = e}
  <2>1. \A l \in lines : l = LineFor(e)
    BY <1>1, OneLine
  <2>2. Cardinality(lines) <= 1
    <3>1. lines \subseteq {LineFor(e)}
      BY <2>1
    <3> HIDE DEF lines
    <3> QED BY <3>1, AtMostOneLine
  <2>3. LineFor(e).id = IF e.kind = "step" THEN e.of[1] ELSE e.of
    BY EventIs, LineForIs
  <2>4. e.kind # "zoom" /\ Booked(e.ask) => lines # {}
    BY LinesOfAnswer
  <2> QED BY <2>1, <2>2, <2>3, <2>4
<1> QED BY <1>1, LineHasEvent DEF Reconciled

\* An event has at most one line, of its own session, and a measured step of an
\* answered ask has one, unless another ask was given the same id.
THEOREM LedgersReconcile == Spec => []Reconciled
<1>1. Sound => Reconciled
  BY SoundReconciles DEF Sound
<1> QED BY <1>1, AlwaysSound, PTL

LEMMA SoundReceipts == ASSUME TypeOK, Audited, Ledgered PROVE ReceiptsHonest
<1> SUFFICES ASSUME NEW c \in Corpora, NEW id \in Identities,
                    \A k \in DOMAIN asks : asks[k].id = id => Alone(k) /\ Booked(k),
                    \A e \in Kind("zoom", trail[c]) : e.of = id => \E l \in ledger[c] : l.audit = e
             PROVE  Receipt(None, id)[c] = Cardinality({e \in trail[c] :
                       \/ e.kind = "zoom" /\ e.of = id
                       \/ e.kind = "step" /\ e.of[1] = id})
  BY DEF ReceiptsHonest
<1> DEFINE T == {e \in trail[c] : \/ e.kind = "zoom" /\ e.of = id
                                  \/ e.kind = "step" /\ e.of[1] = id}
           S == Counted(c, id)
           f == [e \in T |-> LineFor(e)]
<1>1. \A l \in ledger[c] : l.audit \in T => l = LineFor(l.audit)
  BY OneLine, EventIs
<1>2. ASSUME NEW e \in T PROVE LineFor(e) \in S
  <2>1. \E l \in ledger[c] : l.audit = e
    BY LinesOfAnswer, EventIs DEF Kind
  <2>2. LineFor(e) \in ledger[c]
    BY <1>1, <2>1
  <2>3. LineFor(e).id = id /\ LineFor(e).kind # "ask"
    BY EventIs, LineForIs
  <2> QED BY <2>2, <2>3 DEF Counted
<1>3. ASSUME NEW l \in S PROVE \E e \in T : LineFor(e) = l
  <2>1. l \in ledger[c] /\ l.id = id /\ l.kind # "ask"
    BY DEF Counted
  <2>2. l.audit \in trail[c]
    BY <2>1, LineHasEvent
  <2>3. ServeLine(asks, trail[c], c, l) \/ ZoomLine(trail[c], l)
    BY <2>1 DEF Ledgered, Lined, AskLine, LineOf
  <2>4. l.audit \in T
    BY <2>1, <2>2, <2>3 DEF ServeLine, ZoomLine, LineOf, AskId
  <2> QED BY <1>1, <2>1, <2>4
<1>4. IsFiniteSet(T)
  <2>1. IsFiniteSet(trail[c]) /\ T \subseteq trail[c]
    BY DEF Audited, Trailed
  <2> HIDE DEF T
  <2> QED BY <2>1, FS_Subset
<1>5. \A d, e \in T : LineFor(d) = LineFor(e) => d = e
  BY LineForIs
<1>6. f \in [T -> S] /\ (\A d, e \in T : f[d] = f[e] => d = e) /\ (\A l \in S : \E e \in T : f[e] = l)
  <2> HIDE DEF T, S
  <2> QED BY <1>2, <1>3, <1>5
<1> HIDE DEF T, S, f
<1>7. f \in Bijection(T, S)
  BY <1>6 DEF Bijection, Injection, Surjection, IsInjective
<1>8. Cardinality(S) = Cardinality(T)
  BY <1>4, <1>7, FS_Bijection DEF ExistsBijection
<1>9. Receipt(None, id)[c] = Cardinality(S)
  BY DEF Receipt, Targets, S
<1> QED BY <1>8, <1>9 DEF T

\* The receipt of a session whose asks and zooms were all answered, under ids
\* of their own, counts its distillations and zooms exactly.
THEOREM ReceiptsTell == Spec => []ReceiptsHonest
<1>1. Sound => ReceiptsHonest
  BY SoundReceipts DEF Sound
<1> QED BY <1>1, AlwaysSound, PTL

=============================================================================
