------------------------------ MODULE Gateway ------------------------------
(***************************************************************************)
(* The way to the language model: services/metering.py, providers/gemini.py*)
(* and providers/ratelimit.py.                                             *)
(*                                                                         *)
(* A thread runs graph nodes one after the other.  Each node builds a      *)
(* provider of its own, asks questions through the cache and commits its   *)
(* cache rows with everything else it wrote.  A call that raises ends the  *)
(* node and rolls its rows back, except in extract, which goes on with the *)
(* same provider.  The rate limiter is shared by the threads of a process. *)
(* The health probe calls a provider of its own without the cache.         *)
(*                                                                         *)
(* The service answers, says nothing usable, refuses, is busy, is          *)
(* unreachable, or says that a quota is spent: the one of this minute (a   *)
(* burst) or the one of this day, which is kept per model.  Time is        *)
(* counted in ticks of which Minute make a minute.                         *)
(***************************************************************************)
EXTENDS Integers, Sequences, FiniteSetsExt, Functions

CONSTANTS
  Process, Thread,
  ProcessOf,         \* the process each thread belongs to
  Question,          \* prompts, with their stage
  Model,
  Settings,          \* GEMINI_MODEL and GEMINI_MODEL_CHEAP, as deployed
  Fallbacks,         \* GEMINI_MODEL_FALLBACKS
  MaxAttempts,       \* MAX_ATTEMPTS
  QuotaMaxAttempts,  \* QUOTA_MAX_ATTEMPTS
  Rate,              \* requests_per_minute
  Minute,            \* ticks in a minute
  Horizon,           \* how many ticks the history of tokens looks back
  MaxCalls           \* bound: calls

ASSUME GatewayAssumption ==
  /\ ProcessOf \in [Thread -> Process]
  /\ Settings \subseteq [primary : Model, cheap : Model]
  /\ Fallbacks \in Seq(Model) /\ IsInjective(Fallbacks)
  /\ MaxAttempts \in Nat \ {0} /\ QuotaMaxAttempts \in Nat
  /\ MaxAttempts < QuotaMaxAttempts
  /\ Rate \in Nat \ {0} /\ Minute \in Nat \ {0}
  /\ Horizon \in Nat /\ MaxCalls \in Nat

VARIABLES
  setting,  \* the settings each process was started with
  bucket,   \* its limiter: what is in it
  node,     \* what each thread is doing, with its provider
  cache,    \* the model_cache table
  spent,    \* the service: models whose daily quota is used up
  calls,    \* calls begun
  paced     \* history: tokens each limiter gave in the last so many ticks
            \* and the current one

vars == <<setting, bucket, node, cache, spent, calls, paced>>

(***************************************************************************)
(* The token bucket.  A token is Minute units, a tick refills Rate units.  *)
(* The code counts the refill when it looks at the bucket; counting it as  *)
(* time passes gives the same tokens, and the rounds in which acquire      *)
(* finds none and sleeps leave no trace.                                   *)
(***************************************************************************)
Capacity == Rate * Minute
FullBucket == Capacity

\* Mutant: a bucket that is never full.
RefilledUncapped(b) == b + Rate

Refilled(b) == Min({Capacity, b + Rate})

Ages == 0 .. Horizon
NothingPaced == [a \in Ages |-> 0]

(***************************************************************************)
(* The cache.  The model of a row's key is read from an attribute of the   *)
(* provider that GeminiProvider does not have, so its name stands in.      *)
(***************************************************************************)
KeyModel(asked) == "gemini"
Key(q, asked) == <<q, KeyModel(asked)>>

RowFor(rows, key) == {r \in rows : r.key = key}

\* ON CONFLICT DO NOTHING
Merged(rows, new) == rows \cup {r \in new : RowFor(rows, r.key) = {}}

(***************************************************************************)
(* The fallback chain.                                                     *)
(***************************************************************************)
ChainOf(m) == {m} \cup Range(Fallbacks)

\* The model asked for comes first, the fallbacks follow in their order.
Rank(m, c) == IF c = m THEN 0 ELSE CHOOSE i \in DOMAIN Fallbacks : Fallbacks[i] = c
FirstOf(m, S) == CHOOSE c \in S : \A d \in S : Rank(m, c) <= Rank(m, d)
LastOf(m, S) == CHOOSE c \in S : \A d \in S : Rank(m, d) <= Rank(m, c)

\* Models known to be spent are passed over; of a chain that is spent as a
\* whole the last model is tried.
Available(m, exhausted) ==
  LET left == ChainOf(m) \ exhausted
  IN  IF left = {} THEN {LastOf(m, ChainOf(m))} ELSE left

(***************************************************************************)
(* A thread.  `kind` is the extract node, another node, or the half of the *)
(* health probe that is under way; `models` what remains of the chain, of  *)
(* which the first is being asked.  `burst` is history: this request met   *)
(* one.                                                                    *)
(***************************************************************************)
Idle == [kind |-> "none", pc |-> "idle", q |-> "none", asked |-> "none",
         models |-> {}, attempt |-> 0, budget |-> 0, burst |-> FALSE,
         exhausted |-> {}, wrote |-> {}, got |-> "none", outcome |-> "none"]

\* build_provider
Built(kind) == [Idle EXCEPT !.kind = kind, !.pc = "open"]

\* The call is over, its provider and the rows of the node stay.
Back(n) == [n EXCEPT !.pc = "open", !.models = {}, !.attempt = 0,
                     !.budget = 0, !.burst = FALSE]

\* _extract_with_repair catches every exception; elsewhere it ends the node.
Raised(n) == IF n.kind = "extract" THEN Back(n) ELSE Idle
GivenUp(n) == [Raised(n) EXCEPT !.outcome = "out"]

\* Mutant: off by one.
MoreAttemptsInclusive(n) == n.attempt <= n.budget

\* _post_with_retries: the head of the loop, or its end.
MoreAttempts(n) == n.attempt < n.budget

Loop(n) ==
  IF MoreAttempts(n) THEN [n EXCEPT !.pc = "pace", !.attempt = @ + 1]
                     ELSE Raised(n)

FirstTry(n) ==
  Loop([n EXCEPT !.attempt = 0, !.budget = MaxAttempts, !.burst = FALSE])

\* _post_with_fallback
Requested(n, q, m) ==
  FirstTry([n EXCEPT !.q = q, !.asked = m, !.got = "none", !.outcome = "none",
                     !.models = Available(m, n.exhausted)])

Current(n) == FirstOf(n.asked, n.models)

\* Mutant: the chain is looked up again after each refusal.
RemainingAvailable(n) == Available(n.asked, n.exhausted)

Remaining(n) == n.models \ {Current(n)}

\* A spent model is written off and the next of the chain is tried.
FallBack(n) ==
  LET off == [n EXCEPT !.exhausted = @ \cup {Current(n)}]
  IN  IF Remaining(off) = {}
      THEN GivenUp(off)
      ELSE FirstTry([off EXCEPT !.models = Remaining(off)])

\* A retryable status: back off, or give the response back and raise.
RetryOrRaise(n) == IF MoreAttempts(n) THEN [n EXCEPT !.pc = "backoff"] ELSE Raised(n)

\* Mutant: every retryable status extends the budget.
AfterFailureLikeBurst(n) == RetryOrRaise([n EXCEPT !.budget = QuotaMaxAttempts])

AfterFailure(n) == RetryOrRaise(n)

\* Mutant: a 429 is a 429.
BurstAsDaily(n) == FallBack(n)

AfterBurst(n) ==
  RetryOrRaise([n EXCEPT !.budget = QuotaMaxAttempts, !.burst = TRUE])

\* A transport error is given up at MaxAttempts, whatever the budget.
UnreachableAt(n) ==
  IF n.attempt = MaxAttempts THEN Raised(n)
                             ELSE [n EXCEPT !.pc = "backoff"]

\* MeteredClient.generate after the provider has answered.
Stored(n) ==
  LET row == [key |-> Key(n.q, n.asked), model |-> n.asked]
  IN  [Back(n) EXCEPT !.got = row.model,
                      !.wrote = IF RowFor(cache \cup @, row.key) = {}
                                THEN @ \cup {row} ELSE @]

Init ==
  /\ setting \in [Process -> Settings]
  /\ bucket = [p \in Process |-> FullBucket]
  /\ node = [t \in Thread |-> Idle]
  /\ cache = {}
  /\ spent \in SUBSET Model
  /\ calls = 0
  /\ paced = [p \in Process |-> NothingPaced]

Configured(t) == setting[ProcessOf[t]]

(***************************************************************************)
(* The steps of a thread.                                                  *)
(***************************************************************************)
\* graph._client: a provider per node.
OpenNode(t) ==
  /\ node[t].pc = "idle" /\ calls < MaxCalls
  /\ \E kind \in {"node", "extract"} : node' = [node EXCEPT ![t] = Built(kind)]
  /\ UNCHANGED <<setting, bucket, cache, spent, calls, paced>>

\* MeteredClient.generate: a hit answers at once, a miss becomes a request.
Ask(t, q) ==
  LET m == Configured(t).primary
      hit == RowFor(cache \cup node[t].wrote, Key(q, m))
  IN  /\ node[t].pc = "open" /\ calls < MaxCalls
      /\ calls' = calls + 1
      /\ \/ /\ hit = {}
            /\ node' = [node EXCEPT ![t] = Requested(@, q, m)]
         \/ \E r \in hit :
              node' = [node EXCEPT ![t] =
                         [@ EXCEPT !.q = q, !.asked = m, !.got = r.model]]
      /\ UNCHANGED <<setting, bucket, cache, spent, paced>>

\* The node's transaction commits.
CloseNode(t) ==
  /\ node[t].pc = "open"
  /\ cache' = Merged(cache, node[t].wrote)
  /\ node' = [node EXCEPT ![t] = Idle]
  /\ UNCHANGED <<setting, bucket, spent, calls, paced>>

\* GET /health/provider: one uncached call to each model.
Probe(t) ==
  /\ node[t].pc = "idle" /\ calls < MaxCalls
  /\ node' = [node EXCEPT ![t] =
       Requested(Built("primary"), "none", Configured(t).primary)]
  /\ calls' = calls + 1
  /\ UNCHANGED <<setting, bucket, cache, spent, paced>>

\* RateLimiter.acquire, the round that finds a token.
Acquire(t) ==
  LET p == ProcessOf[t]
  IN  /\ node[t].pc = "pace"
      /\ bucket[p] >= Minute
      /\ bucket' = [bucket EXCEPT ![p] = @ - Minute]
      /\ paced' = [paced EXCEPT ![p] = [a \in Ages |-> @[a] + 1]]
      /\ node' = [node EXCEPT ![t].pc = "send"]
      /\ UNCHANGED <<setting, cache, spent, calls>>

\* What the response makes of the call, once it was sent.
Sent(t, after) ==
  /\ node[t].pc = "send"
  /\ node' = [node EXCEPT ![t] = after]
  /\ UNCHANGED <<setting, bucket, cache, spent, calls, paced>>

HasQuota(t) == node[t].pc = "send" /\ Current(node[t]) \notin spent

\* A 200 with content.  The probe goes on with its second model.
Answered(t) ==
  /\ HasQuota(t)
  /\ CASE node[t].kind \in {"node", "extract"} -> Sent(t, Stored(node[t]))
       [] node[t].kind = "primary" ->
            Sent(t, Requested([node[t] EXCEPT !.kind = "cheap"], "none",
                              Configured(t).cheap))
       [] node[t].kind = "cheap" -> Sent(t, Idle)

\* A 200 without content, or a status that is not retried.
Refused(t) == HasQuota(t) /\ Sent(t, Raised(node[t]))

\* 500, 502, 503, 504
Busy(t) == Sent(t, AfterFailure(node[t]))

\* A 429 about this minute.
TooFast(t) == Sent(t, AfterBurst(node[t]))

\* A 429 about this day.
OutOfQuota(t) ==
  /\ node[t].pc = "send" /\ ~HasQuota(t)
  /\ Sent(t, FallBack(node[t]))

Unreachable(t) == Sent(t, UnreachableAt(node[t]))

\* The end of a backoff.
Retry(t) ==
  /\ node[t].pc = "backoff"
  /\ node' = [node EXCEPT ![t] = Loop(@)]
  /\ UNCHANGED <<setting, bucket, cache, spent, calls, paced>>

(***************************************************************************)
(* The clock, the service and the operator.                                *)
(***************************************************************************)
Tick ==
  /\ bucket' = [p \in Process |-> Refilled(bucket[p])]
  /\ paced' = [p \in Process |->
       [a \in Ages |-> IF a = 0 THEN 0 ELSE paced[p][a - 1]]]
  /\ UNCHANGED <<setting, node, cache, spent, calls>>

\* Anybody's requests with this key use up a model's day.
RunsOut(m) ==
  /\ m \notin spent
  /\ spent' = spent \cup {m}
  /\ UNCHANGED <<setting, bucket, node, cache, calls, paced>>

NewDay ==
  /\ spent # {}
  /\ spent' = {}
  /\ UNCHANGED <<setting, bucket, node, cache, calls, paced>>

\* A process dies and comes back, perhaps with other settings.
Restart(p) ==
  /\ \E s \in Settings : setting' = [setting EXCEPT ![p] = s]
  /\ bucket' = [bucket EXCEPT ![p] = FullBucket]
  /\ paced' = [paced EXCEPT ![p] = NothingPaced]
  /\ node' = [t \in Thread |-> IF ProcessOf[t] = p THEN Idle ELSE node[t]]
  /\ UNCHANGED <<cache, spent, calls>>

Responds(t) ==
  \/ Answered(t) \/ Refused(t) \/ Busy(t) \/ TooFast(t) \/ OutOfQuota(t)
  \/ Unreachable(t)

GoesOn(t) == Acquire(t) \/ Responds(t) \/ Retry(t)

Next ==
  \/ \E t \in Thread :
       \/ OpenNode(t) \/ CloseNode(t) \/ Probe(t) \/ \E q \in Question : Ask(t, q)
       \/ GoesOn(t)
  \/ Tick \/ NewDay
  \/ \E m \in Model : RunsOut(m)
  \/ \E p \in Process : Restart(p)

\* Time passes, a thread that found a token or woke up goes on, and a request
\* ends: the client has a timeout.
Spec == Init /\ [][Next]_vars /\ WF_vars(Tick) /\ \A t \in Thread : WF_vars(GoesOn(t))

(***************************************************************************)
(* What the gateway promises.                                              *)
(***************************************************************************)
InCall(t) == node[t].pc \in {"pace", "send", "backoff"}

Row == [key : {<<q, "gemini">> : q \in Question}, model : Model]

NodeState ==
  [kind : {"none", "node", "extract", "primary", "cheap"},
   pc : {"idle", "open", "pace", "send", "backoff"},
   q : Question \cup {"none"}, asked : Model \cup {"none"},
   models : SUBSET Model, attempt : 0 .. QuotaMaxAttempts,
   budget : {0, MaxAttempts, QuotaMaxAttempts}, burst : BOOLEAN,
   exhausted : SUBSET Model, wrote : SUBSET Row, got : Model \cup {"none"},
   outcome : {"none", "out"}]

KeyedOnce(rows) == \A r1, r2 \in rows : r1.key = r2.key => r1 = r2

\* Every variable stays in its type: an open request has a model to ask and
\* an attempt left, an idle thread holds no rows, the table has one row for a
\* key.
TypeOK ==
  /\ setting \in [Process -> Settings]
  /\ bucket \in [Process -> 0 .. Capacity]
  /\ node \in [Thread -> NodeState]
  /\ \A t \in Thread :
       /\ node[t].pc = "idle" <=> node[t].kind = "none"
       /\ node[t].pc = "idle" => node[t].wrote = {}
       /\ InCall(t) => /\ node[t].models # {} /\ node[t].asked \in Model
                       /\ node[t].attempt # 0 /\ node[t].budget # 0
  /\ cache \subseteq Row /\ KeyedOnce(cache)
  /\ spent \subseteq Model
  /\ calls \in 0 .. MaxCalls
  /\ paced \in [Process -> [Ages -> Nat]]

\* RateLimiter: over any stretch of time the threads of one process are let
\* through no oftener than a full bucket and the refill of that time allow,
\* however their rounds interleave.
PacedWithinBudget ==
  \A p \in Process, age \in Ages : paced[p][age] <= Rate + (age * Rate) \div Minute

\* _post_with_fallback: a model is written off only while it is out of its
\* daily quota, and a call is given up for quota only when every model of its
\* chain was found so by this provider: a burst, a busy service or a refusal
\* is never taken for it.
QuotaIsNeverGuessed ==
  [][\A t \in Thread :
       /\ node'[t].exhausted \subseteq node[t].exhausted \cup spent
       /\ node[t].pc = "send" /\ node'[t].outcome = "out" =>
            ChainOf(node[t].asked) \subseteq node[t].exhausted \cup spent]_vars

\* _post_with_retries: only a request that met a burst is sent oftener than
\* MAX_ATTEMPTS, and none oftener than QUOTA_MAX_ATTEMPTS, in whatever order
\* bursts, busy answers and transport errors come.
AttemptBudget ==
  \A t \in Thread :
    InCall(t) => node[t].attempt <= IF node[t].burst THEN QuotaMaxAttempts ELSE MaxAttempts

\* The key comment of models/tables.py: an answer is served to a call only if
\* it was given to a call for the same model.
AnswersAreOfTheModelAsked ==
  \A t \in Thread : node[t].got \in {"none", node[t].asked}

\* Every call ends, with an answer or an error: attempts and chain are finite,
\* and threads that pace each other all come to a token.
EveryCallEnds == \A t \in Thread : InCall(t) ~> ~InCall(t)

=============================================================================
