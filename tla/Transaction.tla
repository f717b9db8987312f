---------------------------- MODULE Transaction ----------------------------
(***************************************************************************)
(* One proxied request from the door to the answer: proxy_core and         *)
(* proxy_core_inner (crates/server/src/proxy.rs), forward_with_retry       *)
(* (forward.rs) and the decisions of retry.rs, for several requests that   *)
(* share an upstream's circuit breaker and the body-buffer semaphore.      *)
(*                                                                         *)
(* An action is what a request's task does between two await points, plus  *)
(* the breaker's atomics, which are steps of their own as in the module    *)
(* CircuitBreaker.  What a pick returns is left open: LoadBalancer shows   *)
(* which instances it can be, and because it is open the effect that       *)
(* record_outcome and record_passive_failure have on later picks (modules  *)
(* OutlierDetection and InstanceHealth) needs no state here.  Time appears *)
(* as events: a timeout fires, or the request's overall deadline passes.   *)
(* A client that goes away drops the task at any await point (Cancel).     *)
(***************************************************************************)
EXTENDS CircuitBreaker

CONSTANTS
  Instances,       \* the upstream's instances
  MaxRetries,      \* max_retries
  MaxBuffers,      \* MAX_INFLIGHT_BODY_BUFFERS
  TimeoutPolicies, \* [per_try, overall]: is request_timeout, is overall_timeout set
  MaxCancels,      \* bound of the model: how many clients go away
  NoInstance

ASSUME TransactionAssumption ==
  /\ MaxRetries \in Nat
  /\ MaxBuffers \in Nat \ {0}
  /\ TimeoutPolicies \subseteq [per_try : BOOLEAN, overall : BOOLEAN]
  /\ MaxCancels \in Nat
  /\ NoInstance \notin Instances

VARIABLES
  pc,
  kind,            \* [idempotent, bodyless, reads_body] of each request
  tries_left,
  pick,            \* the instance of the attempt under way, or NoInstance
  next_pick,       \* the instance the backoff leads to, or NoInstance
  elapsed,         \* whether the overall deadline has passed
  policy,          \* the upstream's timeouts, fixed for a behaviour
  gauge,           \* plecto_requests_in_flight
  cancelled,       \* history: clients gone away so far, up to MaxCancels
  attempts,        \* history: forward attempts made
  delivered        \* history: attempts the upstream may have acted on

txVars == <<vars, pc, kind, tries_left, pick, next_pick, elapsed, policy,
            gauge, cancelled, attempts, delivered>>

Kinds == [idempotent : BOOLEAN, bodyless : BOOLEAN, reads_body : BOOLEAN]
NoKind == [idempotent |-> FALSE, bodyless |-> FALSE, reads_body |-> FALSE]

Buffering == {r \in Requests : pc[r] = "body"}

TxInit ==
  /\ Init
  /\ policy \in TimeoutPolicies
  /\ pc = [r \in Requests |-> "idle"]
  /\ kind = [r \in Requests |-> NoKind]
  /\ tries_left = [r \in Requests |-> 0]
  /\ pick = [r \in Requests |-> NoInstance]
  /\ next_pick = [r \in Requests |-> NoInstance]
  /\ elapsed = [r \in Requests |-> FALSE]
  /\ gauge = 0
  /\ cancelled = 0
  /\ attempts = [r \in Requests |-> 0]
  /\ delivered = [r \in Requests |-> 0]

Goto(r, l) == pc' = [pc EXCEPT ![r] = l]

DropTaskLeaksPermitMut(r) ==
  /\ Goto(r, "idle")
  /\ kind' = [kind EXCEPT ![r] = NoKind]
  /\ tries_left' = [tries_left EXCEPT ![r] = 0]
  /\ pick' = [pick EXCEPT ![r] = NoInstance]
  /\ next_pick' = [next_pick EXCEPT ![r] = NoInstance]
  /\ elapsed' = [elapsed EXCEPT ![r] = FALSE]
  /\ slot' = [slot EXCEPT ![r] = "idle"]
  /\ UNCHANGED in_flight
  /\ attempts' = [attempts EXCEPT ![r] = 0]
  /\ delivered' = [delivered EXCEPT ![r] = 0]

\* Everything the request's task owns goes away with it: the permit gives its
\* slot back, the load guards and the body are dropped.
DropTask(r) ==
  /\ Goto(r, "idle")
  /\ kind' = [kind EXCEPT ![r] = NoKind]
  /\ tries_left' = [tries_left EXCEPT ![r] = 0]
  /\ pick' = [pick EXCEPT ![r] = NoInstance]
  /\ next_pick' = [next_pick EXCEPT ![r] = NoInstance]
  /\ elapsed' = [elapsed EXCEPT ![r] = FALSE]
  /\ IF slot[r] = "permit" THEN Drop(r) ELSE UNCHANGED vars
  /\ attempts' = [attempts EXCEPT ![r] = 0]
  /\ delivered' = [delivered EXCEPT ![r] = 0]

\* proxy_core_inner returned, with a response or an error that becomes a 502.
Answer(r) == DropTask(r) /\ gauge' = gauge - 1 /\ UNCHANGED <<policy, cancelled>>

----------------------------------------------------------------------------
\* Up to the forward.

Arrive(r, k) ==
  /\ pc[r] = "idle"
  /\ kind' = [kind EXCEPT ![r] = k]
  /\ gauge' = gauge + 1
  /\ Goto(r, "door")
  /\ UNCHANGED <<tries_left, pick, next_pick, elapsed, vars, policy,
                 attempts, delivered, cancelled>>

\* 400 bad path, 404 no route, 429 over the rate limit.
Refuse(r) == pc[r] = "door" /\ Answer(r)

Admit(r) ==
  /\ pc[r] = "door"
  /\ Goto(r, "request_chain")
  /\ UNCHANGED <<kind, tries_left, pick, next_pick, elapsed, vars, policy,
                 gauge, attempts, delivered, cancelled>>

\* The request chain short-circuits or fails closed, or no backend of the split
\* has an eligible instance (503).
ChainResponds(r) == pc[r] = "request_chain" /\ Answer(r)

\* The chain forwards: a backend is picked and the overall deadline pinned.
ChainForwards(r) ==
  /\ pc[r] = "request_chain"
  /\ Goto(r, IF kind[r].reads_body /\ ~kind[r].bodyless THEN "buffer_wait" ELSE "breaker")
  /\ UNCHANGED <<kind, tries_left, pick, next_pick, elapsed, vars, policy,
                 gauge, attempts, delivered, cancelled>>

\* body_buffer_limit.acquire_owned
AcquireBuffer(r) ==
  /\ pc[r] = "buffer_wait"
  /\ Cardinality(Buffering) < MaxBuffers
  /\ Goto(r, "body")
  /\ UNCHANGED <<kind, tries_left, pick, next_pick, elapsed, vars, policy,
                 gauge, attempts, delivered, cancelled>>

\* 413 too large, 408 read timeout, or the body hook answers or fails closed.
BodyRefused(r) == pc[r] = "body" /\ Answer(r)

BodyForwards(r) ==
  /\ pc[r] = "body"
  /\ Goto(r, "breaker")
  /\ UNCHANGED <<kind, tries_left, pick, next_pick, elapsed, vars, policy,
                 gauge, attempts, delivered, cancelled>>

\* try_acquire (see CircuitBreaker): granted, or over the cap.
TryAcquire(r) ==
  /\ pc[r] = "breaker"
  /\ FetchAdd(r)
  /\ Goto(r, IF slot'[r] = "permit" THEN "pick" ELSE "shed")
  /\ UNCHANGED <<kind, tries_left, pick, next_pick, elapsed, policy, gauge,
                 attempts, delivered, cancelled>>

\* Over the cap: the increment is backed out.
ShedBackOut(r) ==
  /\ pc[r] = "shed"
  /\ BackOut(r)
  /\ Goto(r, "shed_answer")
  /\ UNCHANGED <<kind, tries_left, pick, next_pick, elapsed, policy, gauge,
                 attempts, delivered, cancelled>>

\* 503 circuit-open.
Shed(r) == pc[r] = "shed_answer" /\ Answer(r)

\* group.pick: 503 no-healthy-upstream, or the first attempt's instance.
PickNone(r) == pc[r] = "pick" /\ Answer(r)

PickSome(r, i) ==
  /\ pc[r] = "pick"
  /\ pick' = [pick EXCEPT ![r] = i]
  /\ tries_left' = [tries_left EXCEPT ![r] = MaxRetries]
  /\ Goto(r, "attempt")
  /\ UNCHANGED <<kind, next_pick, elapsed, vars, policy, gauge, attempts, delivered, cancelled>>

----------------------------------------------------------------------------
\* forward_with_retry.

\* per_try_timeout at the loop's top: OverallTimeout (504) ...
OverallTimeout(r) ==
  /\ pc[r] = "attempt"
  /\ elapsed[r]
  /\ Answer(r)

\* ... or one more attempt goes out.
Send(r) ==
  /\ pc[r] = "attempt"
  /\ ~elapsed[r]
  /\ attempts' = [attempts EXCEPT ![r] = @ + 1]
  /\ Goto(r, "sending")
  /\ UNCHANGED <<kind, tries_left, pick, next_pick, elapsed, vars, policy,
                 gauge, delivered, cancelled>>

\* The upstream request could not be built (BuildFailed, 502).
BuildFailed(r) ==
  /\ pc[r] = "attempt"
  /\ ~elapsed[r]
  /\ Answer(r)

may_retry_any_methodMut(r, connect) == kind[r].bodyless /\ tries_left[r] > 0

\* may_retry: replayable, within budget, and safe for the method unless the
\* upstream never saw the request.
may_retry(r, connect) ==
  /\ kind[r].bodyless
  /\ tries_left[r] > 0
  /\ connect \/ kind[r].idempotent

\* should_attempt_retry for a retryable outcome.
should_attempt_retry(r, connect) == ~elapsed[r] /\ may_retry(r, connect)

\* What the upstream may have acted on: nothing after a connect failure, the
\* request after a response, either after a timeout or a broken connection.
Outcomes == [type : {"gateway_5xx"}, acted : {1}]
       \cup [type : {"timed_out", "other_error"}, acted : {0, 1}]
       \cup [type : {"connect_error"}, acted : {0}]

\* A response that is final: a non-5xx, or a 5xx with no retry (see GiveUp).
Respond(r) ==
  /\ pc[r] = "sending"
  /\ delivered' = [delivered EXCEPT ![r] = @ + 1]
  /\ Goto(r, "response_chain")
  /\ UNCHANGED <<kind, tries_left, pick, next_pick, elapsed, vars, policy,
                 gauge, attempts, cancelled>>

\* The attempt failed with o.  A timeout is the per-try bound's, or without one
\* the rest of the overall deadline's (per_try_timeout).
FailedUnboundedMut(r, o) ==
  /\ pc[r] = "sending"
  /\ o.type = "timed_out" => policy.per_try

Failed(r, o) ==
  /\ pc[r] = "sending"
  /\ o.type = "timed_out" => policy.per_try \/ elapsed[r]

\* Retryable and allowed, and pick_excluding found another instance.
Retry(r, o, i) ==
  /\ Failed(r, o)
  /\ o.type # "other_error"
  /\ should_attempt_retry(r, o.type = "connect_error")
  /\ i # pick[r]
  /\ next_pick' = [next_pick EXCEPT ![r] = i]
  /\ delivered' = [delivered EXCEPT ![r] = @ + o.acted]
  /\ Goto(r, "backoff")
  /\ UNCHANGED <<kind, tries_left, pick, elapsed, vars, policy, gauge, attempts, cancelled>>

\* No retry, or nowhere to retry: a 5xx is the answer's source, a timeout is a
\* 504, an error a 502.
GiveUp(r, o) ==
  /\ Failed(r, o)
  /\ IF o.type = "gateway_5xx"
     THEN /\ delivered' = [delivered EXCEPT ![r] = @ + 1]
          /\ Goto(r, "response_chain")
          /\ UNCHANGED <<kind, tries_left, pick, next_pick, elapsed, vars, policy, gauge, attempts, cancelled>>
     ELSE Answer(r)

\* The backoff is over: the next attempt goes to the other instance.
BackoffFreeMut(r) ==
  /\ pc[r] = "backoff"
  /\ pick' = [pick EXCEPT ![r] = next_pick[r]]
  /\ next_pick' = [next_pick EXCEPT ![r] = NoInstance]
  /\ Goto(r, "attempt")
  /\ UNCHANGED <<kind, tries_left, elapsed, vars, policy, gauge, attempts, delivered, cancelled>>

Backoff(r) ==
  /\ pc[r] = "backoff"
  /\ tries_left' = [tries_left EXCEPT ![r] = @ - 1]
  /\ pick' = [pick EXCEPT ![r] = next_pick[r]]
  /\ next_pick' = [next_pick EXCEPT ![r] = NoInstance]
  /\ Goto(r, "attempt")
  /\ UNCHANGED <<kind, elapsed, vars, policy, gauge, attempts, delivered, cancelled>>

\* The response chain has run; the response streams back.
Reply(r) == pc[r] = "response_chain" /\ Answer(r)

----------------------------------------------------------------------------
\* The overall deadline, pinned when the chain forwarded, passes.
DeadlinePasses(r) ==
  /\ policy.overall
  /\ pc[r] \in {"buffer_wait", "body", "breaker", "pick", "attempt", "sending", "backoff"}
  /\ ~elapsed[r]
  /\ elapsed' = [elapsed EXCEPT ![r] = TRUE]
  /\ UNCHANGED <<pc, kind, tries_left, pick, next_pick, vars, policy, gauge,
                 attempts, delivered, cancelled>>

AwaitPoints == {"request_chain", "buffer_wait", "body", "sending", "backoff",
                "response_chain"}

\* The client went away: the task is dropped where it awaits, and with it the
\* rest of proxy_core.
Cancel(r) ==
  /\ pc[r] \in AwaitPoints
  /\ cancelled < MaxCancels
  /\ cancelled' = cancelled + 1
  /\ DropTask(r)
  /\ UNCHANGED <<policy, gauge>>

\* A request's own steps; an upstream's answer is not one of them.
Proceed(r) ==
  \/ Refuse(r) \/ Admit(r) \/ ChainResponds(r) \/ ChainForwards(r)
  \/ BodyRefused(r) \/ BodyForwards(r)
  \/ TryAcquire(r) \/ ShedBackOut(r) \/ Shed(r)
  \/ PickNone(r) \/ \E i \in Instances : PickSome(r, i)
  \/ OverallTimeout(r) \/ Send(r) \/ BuildFailed(r)
  \/ Backoff(r) \/ Reply(r)

Upstream(r, o) ==
  \/ GiveUp(r, o)
  \/ \E i \in Instances : Retry(r, o, i)

TxNext ==
  \E r \in Requests :
    \/ \E k \in Kinds : Arrive(r, k)
    \/ Proceed(r)
    \/ AcquireBuffer(r)
    \/ Respond(r)
    \/ \E o \in Outcomes : Upstream(r, o)
    \/ DeadlinePasses(r)
    \/ Cancel(r)

TxSpec == TxInit /\ [][TxNext]_txVars

\* What the code's own scheduling gives: a task is polled again after each
\* await it owns; the chain, the body read and the backoff are bounded by fuel,
\* INBOUND_BODY_READ_TIMEOUT and the backoff cap; the buffer semaphore is
\* FIFO; timers fire.  Nothing is assumed of an upstream: it may never answer.
TxFairSpec ==
  /\ TxSpec
  /\ \A r \in Requests :
       /\ WF_txVars(Proceed(r))
       /\ SF_txVars(AcquireBuffer(r))
       /\ WF_txVars(DeadlinePasses(r))
       /\ WF_txVars(\E o \in Outcomes : o.type = "timed_out" /\ Upstream(r, o))

----------------------------------------------------------------------------
Serving == {r \in Requests : pc[r] # "idle"}

\* A request that more than one upstream may have acted on was idempotent and
\* had no body (may_retry): no POST takes effect twice, whatever mix of
\* connect failures, 5xx answers and timeouts its attempts meet.
NoDoubleEffect ==
  \A r \in Requests :
    delivered[r] > 1 => kind[r].idempotent /\ kind[r].bodyless

\* Retries are bounded (max_retries), and a request with a body is sent once.
AttemptBudget ==
  \A r \in Requests :
    /\ attempts[r] <= MaxRetries + 1
    /\ ~kind[r].bodyless => attempts[r] <= 1

\* Every request is answered (or its client is gone) as soon as one of the two
\* timeouts is configured, even when no upstream ever answers.
EveryRequestAnswered ==
  \A r \in Requests : r \in Serving ~> r \notin Serving

\* metrics.rs describes plecto_requests_in_flight as "Requests currently being
\* served."; inc_in_flight and dec_in_flight bracket an await in proxy_core.
GaugeExact == gauge = Cardinality(Serving)
============================================================================
