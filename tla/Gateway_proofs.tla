--------------------------- MODULE Gateway_proofs ---------------------------
(***************************************************************************)
(* Proofs about Gateway, for any processes, threads, questions, models,    *)
(* fallback chains, settings, attempt limits and rates.                    *)
(***************************************************************************)
EXTENDS Gateway, WellFoundedInduction, TLAPS

(***************************************************************************)
(* The inductive invariant of a thread.                                    *)
(***************************************************************************)
Asking(n) == n.pc \in {"pace", "send", "backoff"}

\* A provider that has been given a request: every model of the chain is to
\* be tried yet or known to be spent.
Briefed(n) ==
  /\ n \in NodeState
  /\ n.kind # "none"
  /\ KeyedOnce(n.wrote)
  /\ n.kind \in {"node", "extract"} => n.q \in Question
  /\ n.asked \in Model
  /\ n.models # {} /\ n.models \subseteq ChainOf(n.asked)
  /\ ChainOf(n.asked) \subseteq n.exhausted \cup n.models
  /\ n.outcome = "none"

\* Only a burst extends the budget, and the attempts stay within it.
WithinBudget(n) ==
  /\ n.budget # 0
  /\ ~n.burst => n.budget = MaxAttempts

Good(n) ==
  /\ n \in NodeState
  /\ n.pc = "idle" <=> n.kind = "none"
  /\ n.pc = "idle" => n.wrote = {}
  /\ KeyedOnce(n.wrote)
  /\ Asking(n) =>
       /\ Briefed(n) /\ WithinBudget(n)
       /\ n.attempt # 0 /\ n.attempt <= n.budget

\* A limiter never gives more than what it held and what has flowed in.
TokensAreCovered ==
  \A p \in Process, a \in Ages :
    paced[p][a] * Minute + bucket[p] <= Capacity + a * Rate

IInv ==
  /\ TypeOK
  /\ \A t \in Thread : Good(node[t])
  /\ TokensAreCovered

-----------------------------------------------------------------------------
(***************************************************************************)
(* The chain.                                                              *)
(***************************************************************************)
LEMMA SmallestExists ==
  ASSUME NEW T \in SUBSET Nat, T # {}
  PROVE  \E x \in T : \A y \in T : x <= y
<1>1. PICK x \in T : \A y \in T : ~ (<<y, x>> \in OpToRel(<, Nat))
  BY NatLessThanWellFounded, WFMin
<1>2. \A y \in T : y < x => <<y, x>> \in OpToRel(<, Nat)
  BY DEF OpToRel
<1>3. \A y \in T : ~ (y < x)
  BY <1>1, <1>2
<1> QED
  BY <1>3

LEMMA ChainType ==
  ASSUME NEW m \in Model
  PROVE  ChainOf(m) \subseteq Model /\ m \in ChainOf(m)
BY GatewayAssumption DEF ChainOf, Range

LEMMA RankType ==
  ASSUME NEW m \in Model, NEW c \in ChainOf(m)
  PROVE  Rank(m, c) \in 0 .. Len(Fallbacks)
<1>1. Fallbacks \in Seq(Model)
  BY GatewayAssumption
<1>2. CASE c = m
  BY <1>1, <1>2 DEF Rank
<1>3. CASE c # m
  <2>1. \E i \in DOMAIN Fallbacks : Fallbacks[i] = c
    BY <1>3 DEF ChainOf, Range
  <2>2. Rank(m, c) \in DOMAIN Fallbacks
    BY <1>3, <2>1 DEF Rank
  <2> QED
    BY <1>1, <2>2
<1> QED
  BY <1>2, <1>3

LEMMA FirstOfType ==
  ASSUME NEW m \in Model, NEW S \in SUBSET ChainOf(m), S # {}
  PROVE  FirstOf(m, S) \in S
<1> DEFINE T == {Rank(m, c) : c \in S}
<1>1. T \in SUBSET Nat /\ T # {}
  BY RankType
<1>2. PICK x \in T : \A y \in T : x <= y
  <2> HIDE DEF T
  <2> QED
    BY <1>1, SmallestExists
<1>3. PICK c \in S : Rank(m, c) = x
  BY <1>2
<1>4. \E b \in S : \A d \in S : Rank(m, b) <= Rank(m, d)
  BY <1>2, <1>3
<1> QED
  BY <1>4 DEF FirstOf

LEMMA LastOfType ==
  ASSUME NEW m \in Model, NEW S \in SUBSET ChainOf(m), S # {}
  PROVE  LastOf(m, S) \in S
<1> DEFINE L == Len(Fallbacks)
           T == {L - Rank(m, c) : c \in S}
<1>0. L \in Nat /\ \A c \in S : Rank(m, c) \in 0 .. L
  BY RankType, GatewayAssumption
<1>1. T \in SUBSET Nat /\ T # {}
  BY <1>0
<1>2. PICK x \in T : \A y \in T : x <= y
  <2> HIDE DEF T
  <2> QED
    BY <1>1, SmallestExists
<1>3. PICK c \in S : L - Rank(m, c) = x
  BY <1>2
<1>4. ASSUME NEW d \in S PROVE Rank(m, d) <= Rank(m, c)
  <2>1. L - Rank(m, c) <= L - Rank(m, d)
    BY <1>2, <1>3
  <2> QED
    BY <1>0, <2>1
<1>5. \E b \in S : \A d \in S : Rank(m, d) <= Rank(m, b)
  BY <1>4
<1> QED
  BY <1>5 DEF LastOf

\* What is available is a part of the chain, and the rest of it is spent.
LEMMA AvailableType ==
  ASSUME NEW m \in Model, NEW E \in SUBSET Model
  PROVE  /\ Available(m, E) \subseteq ChainOf(m)
         /\ Available(m, E) # {}
         /\ ChainOf(m) \subseteq E \cup Available(m, E)
BY ChainType, LastOfType DEF Available

-----------------------------------------------------------------------------
(***************************************************************************)
(* What the steps of a call make of a thread.                              *)
(***************************************************************************)

\* A step that writes no model off and does not give the call up for quota.
Modest(n, m) == m.exhausted \subseteq n.exhausted /\ m.outcome = "none"

LEMMA IdleGood == Good(Idle) /\ Idle.exhausted = {} /\ Idle.outcome = "none"
BY GatewayAssumption DEF Good, Idle, NodeState, Asking, KeyedOnce

LEMMA BuiltGood ==
  ASSUME NEW k \in {"node", "extract", "primary", "cheap"}
  PROVE  /\ Good(Built(k)) /\ Modest(Idle, Built(k))
         /\ Built(k).pc = "open" /\ Built(k).kind = k
<1>1. Built(k) \in NodeState
  BY IdleGood DEF Built, Good, NodeState
<1>2. /\ Built(k).pc = "open" /\ Built(k).kind = k
      /\ Built(k).wrote = {} /\ Built(k).exhausted = {}
      /\ Built(k).outcome = "none"
  BY DEF Built, Idle
<1> QED
  BY <1>1, <1>2, IdleGood DEF Good, Asking, KeyedOnce, Modest

LEMMA BackGood ==
  ASSUME NEW n, n \in NodeState, n.kind # "none", KeyedOnce(n.wrote)
  PROVE  /\ Good(Back(n))
         /\ Back(n).pc = "open" /\ Back(n).kind = n.kind
         /\ Back(n).wrote = n.wrote
         /\ Back(n).exhausted = n.exhausted /\ Back(n).outcome = n.outcome
<1>1. 0 \in 0 .. QuotaMaxAttempts
  BY GatewayAssumption
<1>2. Back(n) \in NodeState
  BY <1>1 DEF Back, NodeState
<1>3. /\ Back(n).pc = "open" /\ Back(n).kind = n.kind
      /\ Back(n).wrote = n.wrote
      /\ Back(n).exhausted = n.exhausted /\ Back(n).outcome = n.outcome
  BY DEF Back, NodeState
<1> QED
  BY <1>2, <1>3 DEF Good, Asking

LEMMA RaisedGood ==
  ASSUME NEW n, n \in NodeState, n.kind # "none", KeyedOnce(n.wrote)
  PROVE  /\ Good(Raised(n)) /\ ~Asking(Raised(n))
         /\ Raised(n).exhausted \subseteq n.exhausted
         /\ n.outcome = "none" => Raised(n).outcome = "none"
BY BackGood, IdleGood DEF Raised, Asking, Idle

LEMMA LoopGood ==
  ASSUME NEW n, Briefed(n), WithinBudget(n)
  PROVE  Good(Loop(n)) /\ Modest(n, Loop(n))
<1>1. CASE ~MoreAttempts(n)
  BY <1>1, RaisedGood DEF Loop, Briefed, Modest
<1>2. CASE MoreAttempts(n)
  <2> DEFINE m == [n EXCEPT !.pc = "pace", !.attempt = @ + 1]
  <2>1. n.attempt \in Nat /\ n.budget \in Nat /\ n.attempt + 1 <= n.budget
        /\ n.attempt + 1 \in 0 .. QuotaMaxAttempts
    BY <1>2, GatewayAssumption DEF MoreAttempts, Briefed, NodeState
  <2>2. m \in NodeState /\ m.pc = "pace" /\ m.attempt = n.attempt + 1
    BY <2>1 DEF Briefed, NodeState
  <2>3. /\ m.kind = n.kind /\ m.q = n.q /\ m.wrote = n.wrote /\ m.asked = n.asked
        /\ m.models = n.models /\ m.exhausted = n.exhausted
        /\ m.outcome = n.outcome /\ m.budget = n.budget /\ m.burst = n.burst
    BY DEF Briefed, NodeState
  <2>4. Good(m) /\ Modest(n, m)
    <3> HIDE DEF m
    <3>1. Briefed(m) /\ WithinBudget(m)
      BY <2>2, <2>3 DEF Briefed, WithinBudget
    <3> QED
      BY <2>1, <2>2, <2>3, <3>1 DEF Good, Modest, Briefed
  <2> QED
    BY <1>2, <2>4 DEF Loop
<1> QED
  BY <1>1, <1>2

LEMMA FirstTryGood ==
  ASSUME NEW n, Briefed(n)
  PROVE  Good(FirstTry(n)) /\ Modest(n, FirstTry(n))
<1> DEFINE m == [n EXCEPT !.attempt = 0, !.budget = MaxAttempts, !.burst = FALSE]
<1>0. 0 \in 0 .. QuotaMaxAttempts
  BY GatewayAssumption
<1>1. m \in NodeState /\ m.budget = MaxAttempts /\ m.burst = FALSE
  BY <1>0 DEF Briefed, NodeState
<1>2. /\ m.kind = n.kind /\ m.q = n.q /\ m.wrote = n.wrote /\ m.asked = n.asked
      /\ m.models = n.models /\ m.exhausted = n.exhausted
      /\ m.outcome = n.outcome
  BY DEF Briefed, NodeState
<1>3. Briefed(m) /\ WithinBudget(m)
  <2> HIDE DEF m
  <2> QED
    BY <1>1, <1>2, GatewayAssumption DEF Briefed, WithinBudget
<1>4. Good(Loop(m)) /\ Modest(m, Loop(m))
  <2> HIDE DEF m
  <2> QED
    BY <1>3, LoopGood
<1> QED
  BY <1>2, <1>4 DEF FirstTry, Modest

LEMMA RequestedGood ==
  ASSUME NEW n, n \in NodeState, n.kind # "none", KeyedOnce(n.wrote),
         NEW q \in Question \cup {"none"}, NEW m \in Model,
         n.kind \in {"node", "extract"} => q \in Question
  PROVE  Good(Requested(n, q, m)) /\ Modest(n, Requested(n, q, m))
<1> DEFINE A == Available(m, n.exhausted)
           o == [n EXCEPT !.q = q, !.asked = m, !.got = "none",
                          !.outcome = "none", !.models = A]
<1>1. n.exhausted \in SUBSET Model
  BY DEF NodeState
<1>2. /\ A \subseteq ChainOf(m) /\ A # {}
      /\ ChainOf(m) \subseteq n.exhausted \cup A
      /\ A \in SUBSET Model
  BY <1>1, AvailableType, ChainType
<1>3. o \in NodeState
  <2> HIDE DEF A
  <2> QED
    BY <1>2 DEF NodeState
<1>4. /\ o.kind = n.kind /\ o.q = q /\ o.wrote = n.wrote /\ o.exhausted = n.exhausted
      /\ o.asked = m /\ o.models = A /\ o.outcome = "none"
  <2> HIDE DEF A
  <2> QED
    BY DEF NodeState
<1>5. Good(FirstTry(o)) /\ Modest(o, FirstTry(o))
  <2>1. Briefed(o)
    <3> HIDE DEF o, A
    <3> QED
      BY <1>2, <1>3, <1>4 DEF Briefed
  <2> HIDE DEF o, A
  <2> QED
    BY <2>1, FirstTryGood
<1> QED
  BY <1>4, <1>5 DEF Requested, Modest

\* The model written off is the one that was asked, and the call is given up
\* only when it was the last.
LEMMA FallBackGood ==
  ASSUME NEW n, Good(n), n.pc = "send"
  PROVE  /\ Good(FallBack(n))
         /\ FallBack(n).exhausted \subseteq n.exhausted \cup {Current(n)}
         /\ FallBack(n).outcome = "out" => n.models = {Current(n)}
<1> DEFINE c == Current(n)
           off == [n EXCEPT !.exhausted = @ \cup {c}]
           R == n.models \ {c}
<1>1. Briefed(n)
  BY DEF Good, Asking
<1>2. c \in n.models /\ c \in Model
  BY <1>1, FirstOfType, ChainType DEF Briefed, Current
<1>3. off \in NodeState /\ off.exhausted = n.exhausted \cup {c}
  <2> HIDE DEF c
  <2> QED
    BY <1>1, <1>2 DEF Briefed, NodeState
<1>4. /\ off.kind = n.kind /\ off.q = n.q /\ off.wrote = n.wrote /\ off.asked = n.asked
      /\ off.models = n.models /\ off.outcome = n.outcome
  BY <1>1 DEF Briefed, NodeState
<1>5. Remaining(off) = R
  <2> HIDE DEF off
  <2> QED
    BY <1>4 DEF Remaining, Current
<1>6. CASE R = {}
  <2>1. FallBack(n) = GivenUp(off)
    BY <1>5, <1>6 DEF FallBack
  <2>2. /\ Good(Raised(off)) /\ ~Asking(Raised(off))
        /\ Raised(off).exhausted \subseteq off.exhausted
    <3> HIDE DEF off
    <3> QED
      BY <1>1, <1>3, <1>4, RaisedGood DEF Briefed
  <2>3. /\ Good([Raised(off) EXCEPT !.outcome = "out"])
        /\ [Raised(off) EXCEPT !.outcome = "out"].exhausted = Raised(off).exhausted
    <3> HIDE DEF off
    <3> QED
      BY <2>2 DEF Good, NodeState, Asking
  <2> QED
    BY <1>2, <1>3, <1>6, <2>1, <2>2, <2>3 DEF GivenUp
<1>7. CASE R # {}
  <2> DEFINE o == [off EXCEPT !.models = Remaining(off)]
  <2>1. FallBack(n) = FirstTry(o)
    BY <1>5, <1>7 DEF FallBack
  <2>2. o \in NodeState /\ o.models = R
    <3> HIDE DEF off
    <3> QED
      BY <1>1, <1>3, <1>4, <1>5 DEF NodeState
  <2>3. /\ o.kind = off.kind /\ o.q = off.q /\ o.wrote = off.wrote /\ o.asked = off.asked
        /\ o.exhausted = off.exhausted /\ o.outcome = off.outcome
    <3> HIDE DEF off
    <3> QED
      BY <1>3 DEF NodeState
  <2>4. Briefed(o)
    <3> HIDE DEF off, o, c
    <3> QED
      BY <1>1, <1>3, <1>4, <1>7, <2>2, <2>3 DEF Briefed
  <2>5. Good(FirstTry(o)) /\ Modest(o, FirstTry(o))
    <3> HIDE DEF o
    <3> QED
      BY <2>4, FirstTryGood
  <2> QED
    BY <1>3, <2>1, <2>3, <2>5 DEF Modest
<1> QED
  BY <1>6, <1>7

LEMMA RetryGood ==
  ASSUME NEW n, Briefed(n), WithinBudget(n), n.attempt # 0, n.attempt <= n.budget
  PROVE  /\ Good([n EXCEPT !.pc = "backoff"])
         /\ Modest(n, [n EXCEPT !.pc = "backoff"])
         /\ Good(RetryOrRaise(n)) /\ Modest(n, RetryOrRaise(n))
<1> DEFINE m == [n EXCEPT !.pc = "backoff"]
<1>1. m \in NodeState /\ m.pc = "backoff"
  BY DEF Briefed, NodeState
<1>2. /\ m.kind = n.kind /\ m.q = n.q /\ m.wrote = n.wrote /\ m.asked = n.asked
      /\ m.models = n.models /\ m.exhausted = n.exhausted
      /\ m.outcome = n.outcome /\ m.budget = n.budget /\ m.burst = n.burst
      /\ m.attempt = n.attempt
  BY DEF Briefed, NodeState
<1>3. Good(m) /\ Modest(n, m)
  <2> HIDE DEF m
  <2>1. Briefed(m) /\ WithinBudget(m)
    BY <1>1, <1>2 DEF Briefed, WithinBudget
  <2> QED
    BY <1>1, <1>2, <2>1 DEF Good, Modest, Briefed
<1>4. Good(Raised(n)) /\ Modest(n, Raised(n))
  BY RaisedGood DEF Briefed, Modest
<1> QED
  BY <1>3, <1>4 DEF RetryOrRaise

LEMMA AfterBurstGood ==
  ASSUME NEW n, Good(n), n.pc = "send"
  PROVE  Good(AfterBurst(n)) /\ Modest(n, AfterBurst(n))
<1> DEFINE m == [n EXCEPT !.budget = QuotaMaxAttempts, !.burst = TRUE]
<1>1. Briefed(n) /\ WithinBudget(n) /\ n.attempt # 0 /\ n.attempt <= n.budget
  BY DEF Good, Asking
<1>2. m \in NodeState /\ m.budget = QuotaMaxAttempts /\ m.burst = TRUE
  BY <1>1 DEF Briefed, NodeState
<1>3. /\ m.kind = n.kind /\ m.q = n.q /\ m.wrote = n.wrote /\ m.asked = n.asked
      /\ m.models = n.models /\ m.exhausted = n.exhausted
      /\ m.outcome = n.outcome /\ m.attempt = n.attempt
  BY <1>1 DEF Briefed, NodeState
<1>4. n.attempt <= QuotaMaxAttempts /\ QuotaMaxAttempts # 0
  BY <1>1, GatewayAssumption DEF Briefed, NodeState
<1>5. Good(RetryOrRaise(m)) /\ Modest(m, RetryOrRaise(m))
  <2> HIDE DEF m
  <2>1. Briefed(m) /\ WithinBudget(m)
    BY <1>1, <1>2, <1>3, <1>4 DEF Briefed, WithinBudget
  <2> QED
    BY <1>1, <1>2, <1>3, <1>4, <2>1, RetryGood
<1> QED
  BY <1>3, <1>5 DEF AfterBurst, Modest

LEMMA UnreachableGood ==
  ASSUME NEW n, Good(n), n.pc = "send"
  PROVE  Good(UnreachableAt(n)) /\ Modest(n, UnreachableAt(n))
BY RetryGood, RaisedGood DEF Good, Asking, Briefed, UnreachableAt, Modest

\* The row of an answer is kept unless its key has one.
LEMMA StoredGood ==
  ASSUME NEW n, Good(n), n.pc = "send", n.q \in Question
  PROVE  Good(Stored(n)) /\ Modest(n, Stored(n))
<1> DEFINE row == [key |-> Key(n.q, n.asked), model |-> n.asked]
           W == IF RowFor(cache \cup n.wrote, row.key) = {}
                THEN n.wrote \cup {row} ELSE n.wrote
           b == Back(n)
           m == [b EXCEPT !.got = n.asked, !.wrote = W]
<1>1. Briefed(n)
  BY DEF Good, Asking
<1>2. row \in Row /\ row.model = n.asked
  BY <1>1 DEF Row, Key, KeyModel, Briefed
<1>3. /\ Good(b) /\ b.pc = "open" /\ b.kind = n.kind
      /\ b.wrote = n.wrote /\ b.exhausted = n.exhausted /\ b.outcome = "none"
  BY <1>1, BackGood DEF Briefed
<1>4. W \subseteq Row /\ KeyedOnce(W)
  <2>1. n.wrote \subseteq Row
    BY <1>1 DEF Briefed, NodeState
  <2>2. RowFor(cache \cup n.wrote, row.key) = {} =>
          \A r \in n.wrote : r.key # row.key
    BY DEF RowFor
  <2> HIDE DEF row
  <2> QED
    BY <1>1, <1>2, <2>1, <2>2 DEF Briefed, KeyedOnce
<1>5. /\ m \in NodeState /\ m.pc = "open" /\ m.kind = n.kind /\ m.wrote = W
      /\ m.exhausted = n.exhausted /\ m.outcome = "none"
  <2> HIDE DEF b, W
  <2> QED
    BY <1>1, <1>3, <1>4 DEF Good, Briefed, NodeState
<1>6. Stored(n) = m
  BY <1>2, <1>3 DEF Stored
<1> QED
  <2> HIDE DEF m, W
  <2> QED
    BY <1>1, <1>4, <1>5, <1>6 DEF Good, Modest, Asking, Briefed

-----------------------------------------------------------------------------
(***************************************************************************)
(* Steps.                                                                  *)
(***************************************************************************)

\* What a step may do to a thread: it writes off a model only when that model
\* was asked while out of quota, and gives up only with the last of them.
Decent(n, m, S) ==
  /\ m.exhausted \subseteq n.exhausted \cup S
  /\ n.pc = "send" /\ m.outcome = "out" => ChainOf(n.asked) \subseteq n.exhausted \cup S

LEMMA ModestIsDecent ==
  ASSUME NEW n, NEW m, Modest(n, m), NEW S
  PROVE  Decent(n, m, S)
BY DEF Modest, Decent

\* One thread moves, well; the others stay.
Moves(t) ==
  /\ node' = [node EXCEPT ![t] = node'[t]]
  /\ Good(node'[t])
  /\ Decent(node[t], node'[t], spent)

LEMMA MovesTo ==
  ASSUME TypeOK, NEW t \in Thread, NEW m, node' = [node EXCEPT ![t] = m],
         Good(m), Modest(node[t], m)
  PROVE  Moves(t)
BY ModestIsDecent DEF TypeOK, Moves

LEMMA SettingType ==
  ASSUME TypeOK, NEW t \in Thread
  PROVE  Configured(t).primary \in Model /\ Configured(t).cheap \in Model
<1>1. ProcessOf[t] \in Process
  BY GatewayAssumption
<1>2. Configured(t) \in [primary : Model, cheap : Model]
  BY <1>1, GatewayAssumption DEF TypeOK, Configured
<1> QED
  BY <1>2

LEMMA ThreadMoves ==
  ASSUME IInv, NEW t \in Thread,
         \/ OpenNode(t) \/ CloseNode(t) \/ Probe(t) \/ \E q \in Question : Ask(t, q)
         \/ GoesOn(t)
  PROVE  Moves(t)
<1>0. TypeOK /\ Good(node[t]) /\ node[t] \in NodeState
  BY DEF IInv, Good
<1>1. ASSUME OpenNode(t) PROVE Moves(t)
  <2>1. PICK k \in {"node", "extract"} : node' = [node EXCEPT ![t] = Built(k)]
    BY <1>1 DEF OpenNode
  <2> QED
    BY <1>0, <2>1, BuiltGood, MovesTo DEF Modest, Idle
<1>2. ASSUME CloseNode(t) PROVE Moves(t)
  <2>1. Good(Idle) /\ Modest(node[t], Idle)
    BY IdleGood DEF Modest
  <2> QED
    BY <1>0, <1>2, <2>1, MovesTo DEF CloseNode
<1>3. ASSUME Probe(t) PROVE Moves(t)
  <2> DEFINE b == Built("primary")
             m == Requested(b, "none", Configured(t).primary)
  <2>1. Good(b) /\ b.kind = "primary" /\ b.exhausted = {} /\ b \in NodeState
    BY BuiltGood, IdleGood DEF Modest, Good
  <2>2. Good(m) /\ Modest(b, m)
    <3> HIDE DEF b
    <3> QED
      BY <1>0, <2>1, SettingType, RequestedGood DEF Good
  <2>3. Modest(node[t], m)
    BY <2>1, <2>2 DEF Modest
  <2>4. node' = [node EXCEPT ![t] = m]
    BY <1>3 DEF Probe
  <2> QED
    <3> HIDE DEF m
    <3> QED
      BY <1>0, <2>2, <2>3, <2>4, MovesTo
<1>4. ASSUME NEW q \in Question, Ask(t, q) PROVE Moves(t)
  <2> DEFINE p == Configured(t).primary
             m == Requested(node[t], q, p)
  <2>1. node[t].pc = "open" /\ node[t].kind # "none" /\ p \in Model
    BY <1>0, <1>4, SettingType DEF Ask, Good
  <2>2. CASE node' = [node EXCEPT ![t] = m]
    <3>1. Good(m) /\ Modest(node[t], m)
      BY <1>0, <2>1, RequestedGood DEF Good
    <3> QED
      BY <1>0, <2>2, <3>1, MovesTo
  <2>3. ASSUME NEW r \in RowFor(cache \cup node[t].wrote, Key(q, p)),
               node' = [node EXCEPT ![t] =
                          [node[t] EXCEPT !.q = q, !.asked = p, !.got = r.model]]
        PROVE  Moves(t)
    <3> DEFINE h == [node[t] EXCEPT !.q = q, !.asked = p, !.got = r.model]
    <3>1. r.model \in Model
      BY <1>0, <2>3 DEF RowFor, TypeOK, NodeState, Row
    <3>2. h \in NodeState
      BY <1>0, <2>1, <3>1 DEF NodeState
    <3>3. /\ h.pc = node[t].pc /\ h.kind = node[t].kind
          /\ h.wrote = node[t].wrote /\ h.exhausted = node[t].exhausted
          /\ h.outcome = node[t].outcome
      BY <1>0 DEF NodeState
    <3>4. Good(h)
      <4> HIDE DEF h
      <4> QED
        BY <1>0, <2>1, <3>2, <3>3 DEF Good, Asking
    <3>5. Decent(node[t], h, spent)
      <4> HIDE DEF h
      <4> QED
        BY <2>1, <3>3 DEF Decent
    <3>6. node'[t] = h
      BY <1>0, <2>3 DEF TypeOK
    <3> QED
      <4> HIDE DEF h
      <4> QED
        BY <1>0, <2>3, <3>4, <3>5, <3>6 DEF Moves
  <2> QED
    BY <1>4, <2>2, <2>3 DEF Ask
<1>5. ASSUME Acquire(t) PROVE Moves(t)
  <2> DEFINE m == [node[t] EXCEPT !.pc = "send"]
  <2>1. node' = [node EXCEPT ![t] = m] /\ node[t].pc = "pace"
    BY <1>5 DEF Acquire
  <2>2. Briefed(node[t]) /\ WithinBudget(node[t])
        /\ node[t].attempt # 0 /\ node[t].attempt <= node[t].budget
    BY <1>0, <2>1 DEF Good, Asking
  <2>3. m \in NodeState /\ m.pc = "send"
    BY <1>0 DEF NodeState
  <2>4. /\ m.kind = node[t].kind /\ m.q = node[t].q
        /\ m.wrote = node[t].wrote
        /\ m.asked = node[t].asked /\ m.models = node[t].models
        /\ m.exhausted = node[t].exhausted /\ m.outcome = node[t].outcome
        /\ m.budget = node[t].budget /\ m.burst = node[t].burst
        /\ m.attempt = node[t].attempt
    BY <1>0 DEF NodeState
  <2>5. Good(m) /\ Modest(node[t], m)
    <3> HIDE DEF m
    <3>1. Briefed(m) /\ WithinBudget(m)
      BY <2>2, <2>3, <2>4 DEF Briefed, WithinBudget
    <3> QED
      BY <2>2, <2>3, <2>4, <3>1 DEF Good, Modest, Briefed
  <2> QED
    BY <1>0, <2>1, <2>5, MovesTo
<1>6. ASSUME NEW m, Sent(t, m), Good(m), Modest(node[t], m) PROVE Moves(t)
  BY <1>0, <1>6, MovesTo DEF Sent
<1>7. ASSUME node[t].pc = "send"
      PROVE  /\ Briefed(node[t]) /\ WithinBudget(node[t])
             /\ node[t].attempt # 0 /\ node[t].attempt <= node[t].budget
  BY <1>0, <1>7 DEF Good, Asking
<1>8. ASSUME Answered(t) PROVE Moves(t)
  <2>1. node[t].pc = "send"
    BY <1>8 DEF Answered, HasQuota
  <2>2. CASE node[t].kind \in {"node", "extract"}
    <3>1. Sent(t, Stored(node[t]))
      BY <1>8, <2>2 DEF Answered
    <3>2. Good(Stored(node[t])) /\ Modest(node[t], Stored(node[t]))
      BY <1>0, <1>7, <2>1, <2>2, StoredGood DEF Briefed
    <3> QED
      BY <1>6, <3>1, <3>2
  <2>3. CASE node[t].kind = "primary"
    <3> DEFINE n == [node[t] EXCEPT !.kind = "cheap"]
               m == Requested(n, "none", Configured(t).cheap)
    <3>1. n \in NodeState /\ n.kind = "cheap" /\ n.wrote = node[t].wrote
          /\ n.exhausted = node[t].exhausted
      BY <1>0 DEF NodeState
    <3>2. Good(m) /\ Modest(n, m)
      <4> HIDE DEF n
      <4> QED
        BY <1>0, <1>7, <2>1, <3>1, SettingType, RequestedGood DEF Briefed
    <3>3. Sent(t, m)
      BY <1>8, <2>3 DEF Answered
    <3> QED
      <4> HIDE DEF n
      <4>1. Modest(node[t], m)
        BY <3>1, <3>2 DEF Modest
      <4> HIDE DEF m
      <4> QED
        BY <1>6, <3>2, <3>3, <4>1
  <2>4. CASE node[t].kind = "cheap"
    BY <1>6, <1>8, <2>4, IdleGood DEF Answered, Modest
  <2> QED
    BY <1>7, <2>1, <2>2, <2>3, <2>4 DEF Briefed, NodeState
<1>9. ASSUME Refused(t) PROVE Moves(t)
  BY <1>6, <1>7, <1>9, RaisedGood DEF Refused, HasQuota, Briefed, Modest
<1>10. ASSUME Busy(t) PROVE Moves(t)
  BY <1>6, <1>7, <1>10, RetryGood DEF Busy, AfterFailure, Sent
<1>11. ASSUME TooFast(t) PROVE Moves(t)
  BY <1>0, <1>6, <1>11, AfterBurstGood DEF TooFast, Sent
<1>12. ASSUME Unreachable(t) PROVE Moves(t)
  BY <1>0, <1>6, <1>12, UnreachableGood DEF Unreachable, Sent
<1>13. ASSUME OutOfQuota(t) PROVE Moves(t)
  <2>1. /\ node[t].pc = "send" /\ Current(node[t]) \in spent
        /\ node' = [node EXCEPT ![t] = FallBack(node[t])]
    BY <1>13 DEF OutOfQuota, HasQuota, Sent
  <2>2. node'[t] = FallBack(node[t])
    BY <1>0, <2>1 DEF TypeOK
  <2>3. Decent(node[t], node'[t], spent)
    BY <1>0, <1>7, <2>1, <2>2, FallBackGood DEF Decent, Briefed
  <2> QED
    BY <1>0, <2>1, <2>2, <2>3, FallBackGood DEF Moves
<1>14. ASSUME Retry(t) PROVE Moves(t)
  BY <1>0, <1>14, LoopGood, MovesTo DEF Retry, Good, Asking
<1> QED
  BY <1>1, <1>2, <1>3, <1>4, <1>5, <1>8, <1>9, <1>10, <1>11, <1>12, <1>13, <1>14
     DEF GoesOn, Responds

-----------------------------------------------------------------------------
(***************************************************************************)
(* The bucket.                                                             *)
(***************************************************************************)
LEMMA CapacityType == Capacity \in Nat /\ Minute \in Nat \ {0} /\ Rate \in Nat \ {0}
<1>1. \A x, y \in Nat : x * y \in Nat
  OBVIOUS
<1> QED
  BY <1>1, GatewayAssumption DEF Capacity

LEMMA RefilledIs ==
  ASSUME NEW b \in 0 .. Capacity
  PROVE  /\ Refilled(b) \in 0 .. Capacity
         /\ Refilled(b) <= b + Rate
<1> DEFINE S == {Capacity, b + Rate}
<1>1. \E x \in S : \A y \in S : x <= y
  BY CapacityType
<1>2. Refilled(b) \in S /\ \A y \in S : Refilled(b) <= y
  BY <1>1 DEF Refilled, Min
<1> QED
  BY <1>2, CapacityType

\* The state of the limiters is in its type and covers the tokens given.
LEMMA InitIsCovered ==
  ASSUME Init
  PROVE  /\ bucket \in [Process -> 0 .. Capacity]
         /\ paced \in [Process -> [Ages -> Nat]]
         /\ TokensAreCovered
<1>1. /\ bucket \in [Process -> 0 .. Capacity]
      /\ paced \in [Process -> [Ages -> Nat]]
  BY CapacityType DEF Init, FullBucket, NothingPaced
<1>2. ASSUME NEW p \in Process, NEW a \in Ages
      PROVE  paced[p][a] * Minute + bucket[p] <= Capacity + a * Rate
  <2>1. paced[p][a] = 0 /\ bucket[p] = Capacity
    BY DEF Init, FullBucket, NothingPaced
  <2>2. a \in Nat /\ a * Rate \in Nat
    BY CapacityType, GatewayAssumption DEF Ages
  <2> QED
    BY <2>1, <2>2, CapacityType
<1> QED
  BY <1>1, <1>2 DEF TokensAreCovered

LEMMA TickIsCovered ==
  ASSUME IInv, Tick
  PROVE  /\ bucket' \in [Process -> 0 .. Capacity]
         /\ paced' \in [Process -> [Ages -> Nat]]
         /\ TokensAreCovered'
<1>0. /\ bucket \in [Process -> 0 .. Capacity]
      /\ paced \in [Process -> [Ages -> Nat]]
  BY DEF IInv, TypeOK
<1>1. bucket' \in [Process -> 0 .. Capacity]
  BY <1>0, RefilledIs DEF Tick
<1>2. ASSUME NEW p \in Process, NEW a \in Ages
      PROVE  /\ a = 0 => paced'[p][a] = 0
             /\ a # 0 => a - 1 \in Ages /\ paced'[p][a] = paced[p][a - 1]
  BY GatewayAssumption DEF Tick, Ages
<1>3. paced' \in [Process -> [Ages -> Nat]]
  <2>1. paced' = [p \in Process |-> [a \in Ages |-> IF a = 0 THEN 0 ELSE paced[p][a - 1]]]
    BY DEF Tick
  <2>2. ASSUME NEW p \in Process, NEW a \in Ages
        PROVE  (IF a = 0 THEN 0 ELSE paced[p][a - 1]) \in Nat
    BY <1>0, GatewayAssumption DEF Ages
  <2> QED
    BY <2>1, <2>2
<1>4. ASSUME NEW p \in Process, NEW a \in Ages
      PROVE  paced'[p][a] * Minute + bucket'[p] <= Capacity + a * Rate
  <2>1. bucket'[p] \in 0 .. Capacity /\ bucket'[p] <= bucket[p] + Rate
    BY <1>0, RefilledIs DEF Tick
  <2>2. CASE a = 0
    BY <1>2, <2>1, <2>2, CapacityType
  <2>3. CASE a # 0
    <3>1. a - 1 \in Ages /\ a \in Nat /\ paced'[p][a] = paced[p][a - 1]
      BY <1>2, <2>3, GatewayAssumption DEF Ages
    <3>2. paced[p][a - 1] * Minute + bucket[p] <= Capacity + (a - 1) * Rate
      BY <3>1 DEF IInv, TokensAreCovered
    <3>3. (a - 1) * Rate + Rate = a * Rate
      BY <3>1, CapacityType
    <3>4. /\ paced[p][a - 1] * Minute \in Nat /\ bucket[p] \in Nat
          /\ (a - 1) * Rate \in Int
      BY <1>0, <3>1, CapacityType
    <3> DEFINE x == paced[p][a - 1] * Minute
               y == (a - 1) * Rate
    <3> HIDE DEF x, y
    <3>5. x + bucket'[p] <= Capacity + (y + Rate)
      BY <2>1, <3>2, <3>4, CapacityType DEF x, y
    <3> QED
      BY <3>1, <3>3, <3>5 DEF x, y
  <2> QED
    BY <2>2, <2>3
<1>5. TokensAreCovered'
  BY <1>4 DEF TokensAreCovered
<1> QED
  BY <1>1, <1>3, <1>5

LEMMA AcquireIsCovered ==
  ASSUME IInv, NEW t \in Thread, Acquire(t)
  PROVE  /\ bucket' \in [Process -> 0 .. Capacity]
         /\ paced' \in [Process -> [Ages -> Nat]]
         /\ TokensAreCovered'
<1> DEFINE p == ProcessOf[t]
<1>0. /\ bucket \in [Process -> 0 .. Capacity]
      /\ paced \in [Process -> [Ages -> Nat]]
      /\ p \in Process
  BY GatewayAssumption DEF IInv, TypeOK
<1>1. /\ bucket[p] >= Minute
      /\ bucket' = [bucket EXCEPT ![p] = bucket[p] - Minute]
      /\ paced' = [paced EXCEPT ![p] = [a \in Ages |-> paced[p][a] + 1]]
  BY DEF Acquire
<1>2. bucket' \in [Process -> 0 .. Capacity]
  BY <1>0, <1>1, CapacityType
<1>3. paced' \in [Process -> [Ages -> Nat]]
  BY <1>0, <1>1
<1>4. ASSUME NEW o \in Process, NEW a \in Ages
      PROVE  paced'[o][a] * Minute + bucket'[o] <= Capacity + a * Rate
  <2>1. paced[o][a] * Minute + bucket[o] <= Capacity + a * Rate
    BY DEF IInv, TokensAreCovered
  <2>2. CASE o # p
    BY <1>0, <1>1, <2>1, <2>2
  <2>3. CASE o = p
    <3>1. paced'[o][a] = paced[o][a] + 1 /\ bucket'[o] = bucket[o] - Minute
      BY <1>0, <1>1, <2>3
    <3>2. (paced[o][a] + 1) * Minute = paced[o][a] * Minute + Minute
      BY <1>0, CapacityType
    <3>3. paced[o][a] * Minute \in Nat /\ bucket[o] \in Nat
      BY <1>0, CapacityType
    <3>4. (paced[o][a] + 1) * Minute + (bucket[o] - Minute)
            = paced[o][a] * Minute + bucket[o]
      BY <3>2, <3>3, CapacityType
    <3> QED
      BY <2>1, <3>1, <3>4
  <2> QED
    BY <2>2, <2>3
<1> QED
  BY <1>2, <1>3, <1>4 DEF TokensAreCovered

LEMMA RestartIsCovered ==
  ASSUME IInv, NEW p \in Process, Restart(p)
  PROVE  /\ bucket' \in [Process -> 0 .. Capacity]
         /\ paced' \in [Process -> [Ages -> Nat]]
         /\ TokensAreCovered'
<1>0. /\ bucket \in [Process -> 0 .. Capacity]
      /\ paced \in [Process -> [Ages -> Nat]]
  BY DEF IInv, TypeOK
<1>1. /\ bucket' = [bucket EXCEPT ![p] = Capacity]
      /\ paced' = [paced EXCEPT ![p] = NothingPaced]
  BY DEF Restart, FullBucket
<1>2. ASSUME NEW o \in Process, NEW a \in Ages
      PROVE  paced'[o][a] * Minute + bucket'[o] <= Capacity + a * Rate
  <2>1. CASE o # p
    BY <1>0, <1>1, <2>1 DEF IInv, TokensAreCovered
  <2>2. CASE o = p
    <3>1. paced'[o][a] = 0 /\ bucket'[o] = Capacity
      BY <1>0, <1>1, <2>2 DEF NothingPaced
    <3>2. a * Rate \in Nat
      BY CapacityType, GatewayAssumption DEF Ages
    <3> QED
      BY <3>1, <3>2, CapacityType
  <2> QED
    BY <2>1, <2>2
<1> QED
  BY <1>0, <1>1, <1>2, CapacityType DEF NothingPaced, TokensAreCovered

-----------------------------------------------------------------------------
(***************************************************************************)
(* The invariant.                                                          *)
(***************************************************************************)

\* The limiters are unchanged.
Unpaced == UNCHANGED <<bucket, paced>>

\* A question asked touches its thread and the count of calls only.
LEMMA AskFrame ==
  ASSUME NEW t \in Thread, NEW q \in Question, Ask(t, q)
  PROVE  /\ setting' = setting /\ cache' = cache /\ spent' = spent
         /\ bucket' = bucket /\ paced' = paced
         /\ calls < MaxCalls /\ calls' = calls + 1
BY Zenon DEF Ask

\* What each kind of step leaves alone.
LEMMA Frames ==
  ASSUME IInv, [Next]_vars
  PROVE  /\ Unpaced \/ Tick \/ (\E t \in Thread : Acquire(t)) \/ \E p \in Process : Restart(p)
         /\ UNCHANGED cache \/ \E t \in Thread : CloseNode(t)
         /\ UNCHANGED setting \/ \E p \in Process : Restart(p)
         /\ UNCHANGED spent \/ NewDay \/ \E m \in Model : RunsOut(m)
         /\ UNCHANGED calls \/ (calls < MaxCalls /\ calls' = calls + 1)
<1>1. CASE \E t \in Thread, q \in Question : Ask(t, q)
  BY <1>1, AskFrame DEF Unpaced
<1>2. CASE \E t \in Thread : Responds(t) \/ Retry(t)
  <2> DEFINE Same == UNCHANGED <<setting, bucket, cache, spent, calls, paced>>
  <2>1. ASSUME NEW t, NEW m, Sent(t, m) PROVE Same
    BY <2>1 DEF Sent
  <2>2. ASSUME NEW t \in Thread, Answered(t) PROVE Same
    <3> HIDE DEF Same
    <3>1. Good(node[t]) /\ node[t].pc = "send"
      BY <2>2 DEF IInv, Answered, HasQuota
    <3>2. node[t].kind \in {"node", "extract"} \/ node[t].kind \in {"primary", "cheap"}
      BY <3>1 DEF Good, NodeState
    <3> QED
      BY <2>1, <2>2, <3>2 DEF Answered
  <2>3. ASSUME NEW t \in Thread, Responds(t) PROVE Same
    <3> HIDE DEF Same
    <3> QED
      BY <2>1, <2>2, <2>3 DEF Responds, Refused, Busy, TooFast, OutOfQuota, Unreachable
  <2> QED
    BY <1>2, <2>3 DEF Unpaced, Retry
<1>3. CASE \E t \in Thread : OpenNode(t) \/ CloseNode(t) \/ Probe(t) \/ Acquire(t)
  BY <1>3 DEF Unpaced, OpenNode, CloseNode, Probe, Acquire
<1>4. CASE \/ Tick \/ NewDay
           \/ \E m \in Model : RunsOut(m)
           \/ \E p \in Process : Restart(p)
  BY <1>4 DEF Unpaced, Tick, NewDay, RunsOut, Restart
<1>5. CASE UNCHANGED vars
  BY <1>5 DEF Unpaced, vars
<1>6. CASE Next
  <2>1. CASE \E t \in Thread :
               \/ OpenNode(t) \/ CloseNode(t) \/ Probe(t)
               \/ \E q \in Question : Ask(t, q)
               \/ Acquire(t) \/ Responds(t) \/ Retry(t)
    BY <1>1, <1>2, <1>3, <2>1
  <2> QED
    BY <1>4, <1>6, <2>1 DEF Next, GoesOn
<1> QED
  BY <1>5, <1>6

LEMMA CoveredInit == Init => IInv
<1> SUFFICES ASSUME Init PROVE IInv
  OBVIOUS
<1>1. /\ bucket \in [Process -> 0 .. Capacity]
      /\ paced \in [Process -> [Ages -> Nat]]
      /\ TokensAreCovered
  BY InitIsCovered
<1>2. \A t \in Thread : node[t] = Idle
  BY DEF Init
<1>3. \A t \in Thread : Good(node[t])
  BY <1>2, IdleGood
<1>4. node \in [Thread -> NodeState]
  BY <1>3 DEF Init, Good
<1>5. /\ setting \in [Process -> Settings]
      /\ cache \subseteq Row /\ KeyedOnce(cache)
      /\ spent \subseteq Model
      /\ calls \in 0 .. MaxCalls
  BY GatewayAssumption DEF Init, KeyedOnce
<1>6. \A t \in Thread : node[t].pc = "idle" /\ node[t].kind = "none" /\ node[t].wrote = {}
  BY <1>2 DEF Idle
<1> QED
  BY <1>1, <1>3, <1>4, <1>5, <1>6 DEF IInv, TypeOK, InCall

\* Every thread stays good in every step, and does nothing indecent.
LEMMA ThreadsStayGood ==
  ASSUME IInv, [Next]_vars
  PROVE  /\ node' \in [Thread -> NodeState]
         /\ \A t \in Thread : Good(node'[t]) /\ Decent(node[t], node'[t], spent)
<1>0. /\ node \in [Thread -> NodeState]
      /\ \A t \in Thread : Good(node[t]) /\ node[t] \in NodeState
  BY DEF IInv, TypeOK
<1>1. ASSUME NEW t \in Thread PROVE Decent(node[t], node[t], spent)
  BY <1>0 DEF Decent, Good, Asking, Briefed
<1>2. ASSUME NEW t \in Thread PROVE Decent(node[t], Idle, spent)
  BY IdleGood DEF Decent
<1>3. ASSUME NEW t \in Thread, Moves(t)
      PROVE  /\ node' \in [Thread -> NodeState]
             /\ \A u \in Thread : Good(node'[u]) /\ Decent(node[u], node'[u], spent)
  <2>1. node' = [node EXCEPT ![t] = node'[t]] /\ node'[t] \in NodeState
    BY <1>3 DEF Moves, Good
  <2>2. \A u \in Thread : u # t => node'[u] = node[u]
    BY <1>0, <2>1
  <2> QED
    BY <1>0, <1>1, <1>3, <2>1, <2>2 DEF Moves
<1>4. ASSUME UNCHANGED node
      PROVE  /\ node' \in [Thread -> NodeState]
             /\ \A u \in Thread : Good(node'[u]) /\ Decent(node[u], node'[u], spent)
  BY <1>0, <1>1, <1>4
<1>5. ASSUME NEW p \in Process, Restart(p)
      PROVE  /\ node' \in [Thread -> NodeState]
             /\ \A u \in Thread : Good(node'[u]) /\ Decent(node[u], node'[u], spent)
  <2>1. node' = [t \in Thread |-> IF ProcessOf[t] = p THEN Idle ELSE node[t]]
    BY <1>5 DEF Restart
  <2>2. Idle \in NodeState /\ Good(Idle)
    BY IdleGood DEF Good
  <2>3. \A u \in Thread : node'[u] = Idle \/ node'[u] = node[u]
    BY <2>1
  <2>4. node' \in [Thread -> NodeState]
    BY <1>0, <2>1, <2>2
  <2> QED
    BY <1>0, <1>1, <1>2, <2>2, <2>3, <2>4
<1>6. \/ \E t \in Thread : Moves(t)
      \/ UNCHANGED node
      \/ \E p \in Process : Restart(p)
  BY ThreadMoves DEF Next, Tick, NewDay, RunsOut, vars
<1> QED
  BY <1>3, <1>4, <1>5, <1>6

\* Only a token, the clock and a restart touch a limiter.
LEMMA LimitersStayCovered ==
  ASSUME IInv, [Next]_vars
  PROVE  /\ bucket' \in [Process -> 0 .. Capacity]
         /\ paced' \in [Process -> [Ages -> Nat]]
         /\ TokensAreCovered'
<1>1. CASE Unpaced
  BY <1>1 DEF Unpaced, IInv, TypeOK, TokensAreCovered
<1>2. \/ Unpaced
      \/ \E t \in Thread : Acquire(t)
      \/ Tick
      \/ \E p \in Process : Restart(p)
  BY Frames
<1> QED
  BY <1>1, <1>2, AcquireIsCovered, TickIsCovered, RestartIsCovered

\* Rows of a node are new keys or give way.
LEMMA CacheStaysKeyed ==
  ASSUME IInv, [Next]_vars
  PROVE  cache' \subseteq Row /\ KeyedOnce(cache')
<1>0. /\ cache \subseteq Row /\ KeyedOnce(cache)
      /\ \A t \in Thread : Good(node[t])
  BY DEF IInv, TypeOK
<1>1. ASSUME NEW t \in Thread, CloseNode(t)
      PROVE  cache' \subseteq Row /\ KeyedOnce(cache')
  <2>1. node[t].wrote \subseteq Row /\ KeyedOnce(node[t].wrote)
    BY <1>0 DEF Good, NodeState
  <2>2. cache' = cache \cup {r \in node[t].wrote : \A o \in cache : o.key # r.key}
    BY <1>1 DEF CloseNode, Merged, RowFor
  <2> QED
    BY <1>0, <2>1, <2>2 DEF KeyedOnce
<1>2. \/ UNCHANGED cache
      \/ \E t \in Thread : CloseNode(t)
  BY Frames
<1> QED
  BY <1>0, <1>1, <1>2

LEMMA RestStaysTyped ==
  ASSUME IInv, [Next]_vars
  PROVE  /\ setting' \in [Process -> Settings]
         /\ spent' \subseteq Model
         /\ calls' \in 0 .. MaxCalls
<1>0. /\ setting \in [Process -> Settings]
      /\ spent \subseteq Model
      /\ calls \in 0 .. MaxCalls
  BY DEF IInv, TypeOK
<1>1. setting' \in [Process -> Settings]
  <2>1. \/ UNCHANGED setting
        \/ \E p \in Process : Restart(p)
    BY Frames
  <2> QED
    BY <1>0, <2>1 DEF Restart
<1>2. spent' \subseteq Model
  <2>1. UNCHANGED spent \/ NewDay \/ \E m \in Model : RunsOut(m)
    BY Frames
  <2> QED
    BY <1>0, <2>1 DEF NewDay, RunsOut
<1>3. calls' \in 0 .. MaxCalls
  <2>1. UNCHANGED calls \/ (calls < MaxCalls /\ calls' = calls + 1)
    BY Frames
  <2> QED
    BY <1>0, <2>1, GatewayAssumption
<1> QED
  BY <1>1, <1>2, <1>3

LEMMA CoveredStep == IInv /\ [Next]_vars => IInv'
<1> SUFFICES ASSUME IInv, [Next]_vars PROVE IInv'
  OBVIOUS
<1>1. /\ node' \in [Thread -> NodeState]
      /\ \A t \in Thread : Good(node'[t])
  BY ThreadsStayGood
<1>2. \A t \in Thread :
        /\ node'[t].pc = "idle" <=> node'[t].kind = "none"
        /\ node'[t].pc = "idle" => node'[t].wrote = {}
        /\ node'[t].pc \in {"pace", "send", "backoff"} =>
             /\ node'[t].models # {} /\ node'[t].asked \in Model
             /\ node'[t].attempt # 0 /\ node'[t].budget # 0
  BY <1>1 DEF Good, Asking, Briefed, WithinBudget
<1>3. TypeOK'
  <2>1. /\ setting' \in [Process -> Settings]
        /\ spent' \subseteq Model
        /\ calls' \in 0 .. MaxCalls
    BY RestStaysTyped
  <2>2. cache' \subseteq Row /\ KeyedOnce(cache')
    BY CacheStaysKeyed
  <2>3. /\ bucket' \in [Process -> 0 .. Capacity]
        /\ paced' \in [Process -> [Ages -> Nat]]
    BY LimitersStayCovered
  <2> QED
    BY <1>1, <1>2, <2>1, <2>2, <2>3 DEF TypeOK, InCall
<1>4. TokensAreCovered'
  BY LimitersStayCovered
<1> QED
  BY <1>1, <1>3, <1>4 DEF IInv

LEMMA Invariance == Spec => []IInv
BY CoveredInit, CoveredStep, PTL DEF Spec

\* Every variable stays in its type; in particular the threads' commits leave
\* the cache table with one row for a key.
THEOREM TypeCorrect == Spec => []TypeOK
<1>1. IInv => TypeOK
  BY DEF IInv
<1> QED
  BY <1>1, Invariance, PTL

\* RateLimiter: over any stretch of time a process is let through no oftener
\* than a full bucket and the refill of that time allow: what a limiter gave
\* and what it holds is together at most what it held and what flowed in.
THEOREM PacingHolds == Spec => []PacedWithinBudget
<1>1. ASSUME NEW x \in Nat, NEW r \in Nat, NEW m \in Nat \ {0}, NEW k \in Nat,
             x * m <= r * m + k
      PROVE  x <= r + k \div m
  <2> DEFINE q == k \div m
  <2>1. q \in Nat /\ k < (q + 1) * m
    OBVIOUS
  <2>2. SUFFICES ASSUME x >= r + q + 1 PROVE FALSE
    BY <2>1
  <2> HIDE DEF q
  <2> DEFINE d == x - (r + q + 1)
  <2>3. d \in Nat /\ x = (r + q + 1) + d
    BY <2>1, <2>2
  <2> HIDE DEF d
  <2>4. x * m = r * m + (q + 1) * m + d * m
    BY <2>1, <2>3
  <2>5. d * m \in Nat /\ r * m \in Nat /\ (q + 1) * m \in Nat /\ x * m \in Nat
    BY <2>1, <2>3
  <2> QED
    BY <1>1, <2>1, <2>4, <2>5
<1>2. ASSUME IInv, NEW p \in Process, NEW a \in Ages
      PROVE  paced[p][a] <= Rate + (a * Rate) \div Minute
  <2>1. paced[p][a] \in Nat /\ bucket[p] \in Nat /\ a * Rate \in Nat
    BY <1>2, CapacityType, GatewayAssumption DEF IInv, TypeOK, Ages
  <2>2. paced[p][a] * Minute + bucket[p] <= Rate * Minute + a * Rate
    BY <1>2 DEF IInv, TokensAreCovered, Capacity
  <2>3. paced[p][a] * Minute \in Nat /\ Rate * Minute \in Nat
    BY <2>1, CapacityType
  <2>4. paced[p][a] * Minute <= Rate * Minute + a * Rate
    BY <2>1, <2>2, <2>3
  <2> QED
    BY <1>1, <2>1, <2>4, CapacityType
<1>3. IInv => PacedWithinBudget
  BY <1>2 DEF PacedWithinBudget
<1> QED
  BY <1>3, Invariance, PTL

\* _post_with_retries: only a request that met a burst is sent oftener than
\* MAX_ATTEMPTS, and none oftener than QUOTA_MAX_ATTEMPTS.
THEOREM AttemptsStayInBudget == Spec => []AttemptBudget
<1>1. IInv => AttemptBudget
  <2> SUFFICES ASSUME IInv, NEW t \in Thread, InCall(t)
               PROVE  node[t].attempt <=
                        IF node[t].burst THEN QuotaMaxAttempts ELSE MaxAttempts
    BY DEF AttemptBudget
  <2>1. /\ node[t] \in NodeState /\ node[t].attempt <= node[t].budget
        /\ ~node[t].burst => node[t].budget = MaxAttempts
    BY DEF IInv, Good, InCall, Asking, WithinBudget
  <2>2. node[t].attempt \in Nat /\ node[t].attempt <= QuotaMaxAttempts
    BY <2>1, GatewayAssumption DEF NodeState
  <2> QED
    BY <2>1, <2>2
<1> QED
  BY <1>1, Invariance, PTL

\* _post_with_fallback: a model is written off only while it is out of its
\* daily quota, and a call is given up for quota only when every model of its
\* chain was: what is not yet written off is still to be tried.
THEOREM QuotaGuard == Spec => QuotaIsNeverGuessed
<1>1. IInv /\ [Next]_vars =>
        \A t \in Thread : Decent(node[t], node'[t], spent)
  BY ThreadsStayGood
<1>2. IInv /\ [Next]_vars =>
        [\A t \in Thread :
           /\ node'[t].exhausted \subseteq node[t].exhausted \cup spent
           /\ node[t].pc = "send" /\ node'[t].outcome = "out" =>
                ChainOf(node[t].asked) \subseteq node[t].exhausted \cup spent]_vars
  BY <1>1 DEF Decent
<1> QED
  BY <1>2, Invariance, PTL DEF Spec, QuotaIsNeverGuessed

=============================================================================
