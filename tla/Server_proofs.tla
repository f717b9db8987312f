---------------------------- MODULE Server_proofs --------------------------
(***************************************************************************)
(* What the server (crates/server) promises of requests and connections,   *)
(* for every value of the constants.                                       *)
(*   - Requests: the counter of the circuit breaker is exact, no more than *)
(*     max_requests permits are out, and the breaker implements            *)
(*     BoundedSlots; requests, with any number of instances, retries and   *)
(*     cancellations, use it as CircuitBreaker says, so its results hold   *)
(*     for them; no request that is not idempotent takes effect twice, and *)
(*     retries stay within their budget.                                   *)
(*   - Connections, of both transports and any number: the permits of      *)
(*     conn_limit are exact while the server runs, no TCP request is cut   *)
(*     before the drain deadline, and a drain that completes leaves no     *)
(*     connection behind.                                                  *)
(***************************************************************************)
EXTENDS Transaction, Listener, FiniteSetTheorems, TLAPS

----------------------------------------------------------------------------
(* The breaker by itself.                                                  *)

\* The sets of requests the counter stands for are finite, so that their
\* cardinalities are natural numbers.
LEMMA HoldingFinite ==
  /\ IsFiniteSet(Holding)
  /\ IsFiniteSet(BackingOut)
  /\ Cardinality(Holding) \in Nat
  /\ Cardinality(BackingOut) \in Nat
<1>1. Holding \subseteq Requests /\ BackingOut \subseteq Requests
  BY DEF Holding, BackingOut
<1> QED
  BY <1>1, FS_Subset, FS_CardinalityType, BreakerAssumption DEF BreakerAssumption

\* How the permits out and the attempts that back out change when one request
\* moves to another place: the arithmetic all steps of the breaker share.
LEMMA OneMoves ==
  ASSUME TypeOK, NEW r \in Requests, NEW l \in {"idle", "over", "permit"},
         slot' = [slot EXCEPT ![r] = l]
  PROVE  /\ Cardinality(Holding') \in Nat
         /\ Cardinality(BackingOut') \in Nat
         /\ slot[r] # "permit" /\ l # "permit" => Cardinality(Holding') = Cardinality(Holding)
         /\ slot[r] # "permit" /\ l = "permit" => Cardinality(Holding') = Cardinality(Holding) + 1
         /\ slot[r] = "permit" /\ l # "permit" => Cardinality(Holding') = Cardinality(Holding) - 1
         /\ slot[r] # "over" /\ l # "over" => Cardinality(BackingOut') = Cardinality(BackingOut)
         /\ slot[r] # "over" /\ l = "over" => Cardinality(BackingOut') = Cardinality(BackingOut) + 1
         /\ slot[r] = "over" /\ l # "over" => Cardinality(BackingOut') = Cardinality(BackingOut) - 1
<1>1. IsFiniteSet(Holding) /\ IsFiniteSet(BackingOut)
  BY HoldingFinite
<1>2. /\ l = "permit" => Holding' = Holding \cup {r}
      /\ l # "permit" => Holding' = Holding \ {r}
  BY DEF Holding, TypeOK
<1>3. /\ l = "over" => BackingOut' = BackingOut \cup {r}
      /\ l # "over" => BackingOut' = BackingOut \ {r}
  BY DEF BackingOut, TypeOK
<1>4. /\ r \in Holding <=> slot[r] = "permit"
      /\ r \in BackingOut <=> slot[r] = "over"
  BY DEF Holding, BackingOut
<1>5. IsFiniteSet(Holding') /\ IsFiniteSet(BackingOut')
  <2>1. Holding' \subseteq Requests /\ BackingOut' \subseteq Requests
    BY DEF Holding, BackingOut
  <2> QED
    BY <2>1, FS_Subset, BreakerAssumption DEF BreakerAssumption
<1>6. Cardinality(Holding') \in Nat /\ Cardinality(BackingOut') \in Nat
  BY <1>5, FS_CardinalityType
<1>7. /\ Cardinality(Holding \cup {r}) =
            IF r \in Holding THEN Cardinality(Holding) ELSE Cardinality(Holding) + 1
      /\ Cardinality(Holding \ {r}) =
            IF r \in Holding THEN Cardinality(Holding) - 1 ELSE Cardinality(Holding)
  BY <1>1, FS_AddElement, FS_RemoveElement
<1>8. /\ Cardinality(BackingOut \cup {r}) =
            IF r \in BackingOut THEN Cardinality(BackingOut) ELSE Cardinality(BackingOut) + 1
      /\ Cardinality(BackingOut \ {r}) =
            IF r \in BackingOut THEN Cardinality(BackingOut) - 1 ELSE Cardinality(BackingOut)
  BY <1>1, FS_AddElement, FS_RemoveElement
<1> QED
  BY <1>2, <1>3, <1>4, <1>6, <1>7, <1>8

\* What the breaker keeps true.  The cap alone is not inductive: a permit is
\* granted because the counter is below max_requests, and that says nothing of
\* the permits out unless the counter is exact.
Inv == TypeOK /\ CounterExact /\ CapRespected

LEMMA InitInv == Init => Inv
<1> SUFFICES ASSUME Init PROVE Inv
  OBVIOUS
<1>1. TypeOK
  BY DEF Init, TypeOK
<1>2. Holding = {} /\ BackingOut = {}
  BY DEF Init, Holding, BackingOut
<1>3. Cardinality(Holding) = 0 /\ Cardinality(BackingOut) = 0
  BY <1>2, FS_EmptySet
<1> QED
  BY <1>1, <1>3, BreakerAssumption DEF Inv, Init, CounterExact, CapRespected, BreakerAssumption

LEMMA NextInv == Inv /\ [Next]_vars => Inv'
<1> SUFFICES ASSUME Inv, [Next]_vars PROVE Inv'
  OBVIOUS
<1>0. /\ TypeOK /\ CounterExact /\ CapRespected
      /\ Cardinality(Holding) \in Nat /\ Cardinality(BackingOut) \in Nat
      /\ MaxRequests \in Nat
  BY HoldingFinite, BreakerAssumption DEF Inv, BreakerAssumption
<1>1. ASSUME NEW r \in Requests, FetchAdd(r) PROVE Inv'
  <2>1. /\ slot' = [slot EXCEPT ![r] = IF in_flight >= MaxRequests THEN "over" ELSE "permit"]
        /\ slot[r] = "idle" /\ in_flight' = in_flight + 1
    BY <1>1 DEF FetchAdd
  <2>2. TypeOK'
    BY <1>0, <2>1 DEF TypeOK
  <2>3. CASE in_flight >= MaxRequests
    <3>1. slot' = [slot EXCEPT ![r] = "over"]
      BY <2>1, <2>3
    <3>2. /\ Cardinality(Holding') = Cardinality(Holding)
          /\ Cardinality(BackingOut') = Cardinality(BackingOut) + 1
      BY <1>0, <2>1, <3>1, OneMoves
    <3> QED
      BY <1>0, <2>1, <2>2, <3>2 DEF Inv, CounterExact, CapRespected
  <2>4. CASE ~(in_flight >= MaxRequests)
    <3>1. slot' = [slot EXCEPT ![r] = "permit"]
      BY <2>1, <2>4
    <3>2. /\ Cardinality(Holding') = Cardinality(Holding) + 1
          /\ Cardinality(BackingOut') = Cardinality(BackingOut)
      BY <1>0, <2>1, <3>1, OneMoves
    <3> QED
      BY <1>0, <2>1, <2>2, <2>4, <3>2 DEF Inv, CounterExact, CapRespected
  <2> QED
    BY <2>3, <2>4
<1>2. ASSUME NEW r \in Requests, BackOut(r) PROVE Inv'
  <2>1. slot' = [slot EXCEPT ![r] = "idle"] /\ slot[r] = "over" /\ in_flight' = in_flight - 1
    BY <1>2 DEF BackOut
  <2>2. /\ Cardinality(Holding') = Cardinality(Holding)
        /\ Cardinality(BackingOut') = Cardinality(BackingOut) - 1
        /\ Cardinality(BackingOut') \in Nat
    BY <1>0, <2>1, OneMoves
  <2>3. TypeOK'
    BY <1>0, <2>1, <2>2 DEF TypeOK, CounterExact
  <2> QED
    BY <1>0, <2>1, <2>2, <2>3 DEF Inv, CounterExact, CapRespected
<1>3. ASSUME NEW r \in Requests, Drop(r) PROVE Inv'
  <2>1. slot' = [slot EXCEPT ![r] = "idle"] /\ slot[r] = "permit" /\ in_flight' = in_flight - 1
    BY <1>3 DEF Drop
  <2>2. /\ Cardinality(Holding') = Cardinality(Holding) - 1
        /\ Cardinality(BackingOut') = Cardinality(BackingOut)
        /\ Cardinality(Holding') \in Nat
    BY <1>0, <2>1, OneMoves
  <2>3. TypeOK'
    BY <1>0, <2>1, <2>2 DEF TypeOK, CounterExact
  <2> QED
    BY <1>0, <2>1, <2>2, <2>3 DEF Inv, CounterExact, CapRespected
<1>4. CASE UNCHANGED vars
  BY <1>0, <1>4 DEF vars, Inv, TypeOK, CounterExact, CapRespected, Holding, BackingOut
<1> QED
  BY <1>1, <1>2, <1>3, <1>4 DEF Next

\* The counter of try_acquire and RequestPermit::drop is exact in every
\* reachable state, for any number of requests and any cap.
THEOREM CounterIsExact == Spec => []CounterExact
<1>1. Inv => CounterExact
  BY DEF Inv
<1> QED
  BY <1>1, InitInv, NextInv, PTL DEF Spec

\* No interleaving of optimistic increments lets out more than max_requests
\* permits at once.
THEOREM CapIsRespected == Spec => []CapRespected
<1>1. Inv => CapRespected
  BY DEF Inv
<1> QED
  BY <1>1, InitInv, NextInv, PTL DEF Spec

\* A step of the breaker takes one slot, gives one back or is invisible.
LEMMA StepRefines == Inv /\ [Next]_vars => [Slots!Next]_(Cardinality(Holding))
<1> SUFFICES ASSUME Inv, [Next]_vars
             PROVE  [Slots!Next]_(Cardinality(Holding))
  OBVIOUS
<1>0. /\ TypeOK /\ CounterExact /\ CapRespected
      /\ Cardinality(Holding) \in Nat /\ Cardinality(BackingOut) \in Nat
      /\ MaxRequests \in Nat
  BY HoldingFinite, BreakerAssumption DEF Inv, BreakerAssumption
<1>1. ASSUME NEW r \in Requests, FetchAdd(r), in_flight >= MaxRequests
      PROVE  Cardinality(Holding') = Cardinality(Holding)
  BY <1>0, <1>1, OneMoves DEF FetchAdd
<1>2. ASSUME NEW r \in Requests, FetchAdd(r), ~(in_flight >= MaxRequests)
      PROVE  Slots!Acquire
  <2>1. Cardinality(Holding') = Cardinality(Holding) + 1
    BY <1>0, <1>2, OneMoves DEF FetchAdd
  <2>2. Cardinality(Holding) < MaxRequests
    BY <1>0, <1>2 DEF CounterExact, TypeOK
  <2> QED
    BY <2>1, <2>2 DEF Slots!Acquire
<1>3. ASSUME NEW r \in Requests, BackOut(r)
      PROVE  Cardinality(Holding') = Cardinality(Holding)
  BY <1>0, <1>3, OneMoves DEF BackOut
<1>4. ASSUME NEW r \in Requests, Drop(r)
      PROVE  Slots!Release
  <2>1. /\ Cardinality(Holding') = Cardinality(Holding) - 1
        /\ Cardinality(Holding') \in Nat
    BY <1>0, <1>4, OneMoves DEF Drop
  <2> QED
    BY <1>0, <2>1 DEF Slots!Release
<1>5. CASE UNCHANGED vars
  BY <1>5 DEF vars, Holding
<1> QED
  BY <1>1, <1>2, <1>3, <1>4, <1>5 DEF Next, Slots!Next

\* The breaker implements BoundedSlots, its permits out being the slots taken.
THEOREM BreakerImplementsSlots == Spec => ImplementsSlots
<1>1. Inv => Cardinality(Holding) \in 0..MaxRequests
  BY HoldingFinite, BreakerAssumption DEF Inv, CapRespected, BreakerAssumption
<1>2. Init => Slots!Init
  BY <1>1, InitInv DEF Slots!Init
<1> QED
  BY <1>2, StepRefines, InitInv, NextInv, PTL DEF Spec, ImplementsSlots, Slots!Spec

----------------------------------------------------------------------------
(* The breaker in the transaction.                                         *)

\* What DropTask does to the breaker: the permit goes back, if there is one.
LEMMA DropTaskOnBreaker ==
  ASSUME NEW r \in Requests, DropTask(r)
  PROVE  [Next]_vars
BY DEF DropTask, Next

\* Every step of a request is one instruction of the breaker, or none.
LEMMA StepIsBreakerStep == [TxNext]_txVars => [Next]_vars
<1> SUFFICES ASSUME [TxNext]_txVars PROVE [Next]_vars
  OBVIOUS
<1>1. CASE UNCHANGED txVars
  BY <1>1 DEF txVars
<1>2. ASSUME NEW r \in Requests, Answer(r) \/ Cancel(r) PROVE [Next]_vars
  BY <1>2, DropTaskOnBreaker DEF Answer, Cancel
<1>3. ASSUME NEW r \in Requests, Proceed(r) PROVE [Next]_vars
  <2>1. CASE TryAcquire(r)
    BY <2>1 DEF TryAcquire, Next
  <2>2. CASE ShedBackOut(r)
    BY <2>2 DEF ShedBackOut, Next
  <2>3. CASE \/ Refuse(r) \/ ChainResponds(r) \/ BodyRefused(r) \/ Shed(r) \/ PickNone(r)
             \/ OverallTimeout(r) \/ BuildFailed(r) \/ Reply(r)
    BY <2>3, <1>2 DEF Refuse, ChainResponds, BodyRefused, Shed, PickNone, OverallTimeout,
                      BuildFailed, Reply
  <2>4. CASE Admit(r) \/ ChainForwards(r) \/ BodyForwards(r) \/ Send(r) \/ Backoff(r)
    BY <2>4 DEF Admit, ChainForwards, BodyForwards, Send, Backoff
  <2>5. CASE \E i \in Instances : PickSome(r, i)
    BY <2>5 DEF PickSome
  <2> QED
    BY <1>3, <2>1, <2>2, <2>3, <2>4, <2>5 DEF Proceed
<1>4. ASSUME NEW r \in Requests, NEW o \in Outcomes, Upstream(r, o) PROVE [Next]_vars
  BY <1>2, <1>4 DEF Upstream, GiveUp, Retry
<1>5. ASSUME NEW r \in Requests,
             (\E k \in Kinds : Arrive(r, k)) \/ AcquireBuffer(r) \/ Respond(r) \/ DeadlinePasses(r)
      PROVE  [Next]_vars
  BY <1>5 DEF Arrive, AcquireBuffer, Respond, DeadlinePasses
<1> QED
  BY <1>1, <1>2, <1>3, <1>4, <1>5 DEF TxNext

\* The transactions of proxy_core_inner drive the breaker only as try_acquire
\* and RequestPermit::drop do, whatever path a request takes, a dropped task
\* included.
THEOREM TransactionUsesBreaker == TxSpec => Spec
<1>1. TxInit => Init
  BY DEF TxInit
<1> QED
  BY <1>1, StepIsBreakerStep, PTL DEF TxSpec, Spec

\* So the counter is exact for them: no way out of a request keeps a slot.
THEOREM TransactionCounts == TxSpec => []CounterExact
BY TransactionUsesBreaker, CounterIsExact, PTL

\* And their permits are a bounded set of slots.
THEOREM TransactionImplementsSlots == TxSpec => ImplementsSlots
BY TransactionUsesBreaker, BreakerImplementsSlots, PTL

----------------------------------------------------------------------------
(* Attempts and effects.                                                   *)

Early == {"idle", "door", "request_chain", "buffer_wait", "body", "breaker", "shed",
          "shed_answer", "pick"}

Labels == Early \cup {"attempt", "sending", "backoff", "response_chain"}

TxTypes ==
  /\ pc \in [Requests -> Labels]
  /\ kind \in [Requests -> Kinds]
  /\ tries_left \in [Requests -> Nat]
  /\ attempts \in [Requests -> Nat]
  /\ delivered \in [Requests -> Nat]

\* The books of one request: what was sent and what is left make up the budget,
\* only a request without a body has sent more than once, and while another
\* attempt may follow, something was acted on only if that does no harm.
Books(r) ==
  /\ pc[r] \in Early => attempts[r] = 0 /\ delivered[r] = 0
  /\ pc[r] = "attempt" => attempts[r] + tries_left[r] = MaxRetries
  /\ pc[r] \in {"sending", "backoff", "response_chain"} =>
       attempts[r] + tries_left[r] = MaxRetries + 1
  /\ pc[r] = "backoff" => tries_left[r] > 0 /\ kind[r].bodyless
  /\ pc[r] = "attempt" /\ attempts[r] > 0 => kind[r].bodyless
  /\ attempts[r] > 1 => kind[r].bodyless
  /\ pc[r] \in {"attempt", "sending", "backoff"} /\ delivered[r] > 0 =>
       kind[r].idempotent /\ kind[r].bodyless
  /\ delivered[r] > 1 => kind[r].idempotent /\ kind[r].bodyless

TxInv == TxTypes /\ \A r \in Requests : Books(r)

LEMMA TxInitInv == TxInit => TxInv
BY DEF TxInit, TxInv, TxTypes, Books, Labels, Early, Kinds, NoKind

\* A request that is over has nothing on its books.
LEMMA DropTaskInv ==
  ASSUME TxInv, NEW r \in Requests, DropTask(r)
  PROVE  TxInv'
<1>1. TxTypes'
  BY DEF TxInv, TxTypes, DropTask, Goto, Labels, Early, Kinds, NoKind
<1>2. ASSUME NEW q \in Requests PROVE Books(q)'
  BY <1>2 DEF TxInv, TxTypes, Books, DropTask, Goto, Early, NoKind
<1> QED
  BY <1>1, <1>2 DEF TxInv

LEMMA TxNextInv == TxInv /\ [TxNext]_txVars => TxInv'
<1> SUFFICES ASSUME TxInv, [TxNext]_txVars PROVE TxInv'
  OBVIOUS
<1> USE TransactionAssumption DEF TransactionAssumption
<1>1. CASE UNCHANGED txVars
  BY <1>1 DEF txVars, TxInv, TxTypes, Books
<1>2. ASSUME NEW r \in Requests, Answer(r) \/ Cancel(r) PROVE TxInv'
  BY <1>2, DropTaskInv DEF Answer, Cancel
<1>3. ASSUME NEW r \in Requests, NEW k \in Kinds, Arrive(r, k) PROVE TxInv'
  BY <1>3 DEF Arrive, Goto, TxInv, TxTypes, Books, Labels, Early
<1>4. ASSUME NEW r \in Requests, Admit(r) \/ BodyForwards(r) \/ AcquireBuffer(r) PROVE TxInv'
  BY <1>4 DEF Admit, BodyForwards, AcquireBuffer, Goto, TxInv, TxTypes, Books, Labels, Early
<1>5. ASSUME NEW r \in Requests, ChainForwards(r) PROVE TxInv'
  BY <1>5 DEF ChainForwards, Goto, TxInv, TxTypes, Books, Labels, Early
<1>6. ASSUME NEW r \in Requests, TryAcquire(r) PROVE TxInv'
  BY <1>6 DEF TryAcquire, Goto, TxInv, TxTypes, Books, Labels, Early
<1>7. ASSUME NEW r \in Requests, ShedBackOut(r) PROVE TxInv'
  BY <1>7 DEF ShedBackOut, Goto, TxInv, TxTypes, Books, Labels, Early
<1>8. ASSUME NEW r \in Requests, NEW i \in Instances, PickSome(r, i) PROVE TxInv'
  BY <1>8 DEF PickSome, Goto, TxInv, TxTypes, Books, Labels, Early
<1>9. ASSUME NEW r \in Requests, Send(r) PROVE TxInv'
  BY <1>9 DEF Send, Goto, TxInv, TxTypes, Books, Labels, Early
<1>10. ASSUME NEW r \in Requests, Respond(r) PROVE TxInv'
  BY <1>10 DEF Respond, Goto, TxInv, TxTypes, Books, Labels, Early
<1>11. ASSUME NEW r \in Requests, NEW o \in Outcomes, NEW i \in Instances, Retry(r, o, i)
       PROVE  TxInv'
  <2>1. /\ o.acted \in {0, 1}
        /\ o.type = "connect_error" => o.acted = 0
    BY DEF Outcomes
  <2>2. /\ tries_left[r] > 0 /\ kind[r].bodyless
        /\ kind[r].idempotent \/ o.acted = 0
    BY <1>11, <2>1 DEF Retry, should_attempt_retry, may_retry
  <2> QED
    BY <1>11, <2>1, <2>2 DEF Retry, Failed, Goto, TxInv, TxTypes, Books, Labels, Early
<1>12. ASSUME NEW r \in Requests, NEW o \in Outcomes, GiveUp(r, o) PROVE TxInv'
  <2>1. CASE o.type = "gateway_5xx"
    BY <1>12, <2>1 DEF GiveUp, Failed, Goto, TxInv, TxTypes, Books, Labels, Early
  <2>2. CASE o.type # "gateway_5xx"
    BY <1>2, <1>12, <2>2 DEF GiveUp
  <2> QED
    BY <2>1, <2>2
<1>13. ASSUME NEW r \in Requests, Backoff(r) PROVE TxInv'
  BY <1>13 DEF Backoff, Goto, TxInv, TxTypes, Books, Labels, Early
<1>14. ASSUME NEW r \in Requests, DeadlinePasses(r) PROVE TxInv'
  BY <1>14 DEF DeadlinePasses, TxInv, TxTypes, Books
<1>15. ASSUME NEW r \in Requests, Proceed(r) PROVE TxInv'
  BY <1>2, <1>4, <1>5, <1>6, <1>7, <1>8, <1>9, <1>13, <1>15
     DEF Proceed, Refuse, ChainResponds, BodyRefused, Shed, PickNone, OverallTimeout,
         BuildFailed, Reply
<1> QED
  BY <1>1, <1>2, <1>3, <1>4, <1>10, <1>11, <1>12, <1>14, <1>15 DEF TxNext, Upstream

\* However attempts fail, time out and are retried, more than one of them is
\* acted on only if the request is idempotent and has no body (may_retry).
THEOREM NoEffectTwice == TxSpec => []NoDoubleEffect
<1>1. TxInv => NoDoubleEffect
  BY DEF TxInv, Books, NoDoubleEffect
<1> QED
  BY <1>1, TxInitInv, TxNextInv, PTL DEF TxSpec

\* forward_with_retry sends at most max_retries attempts after the first, and a
\* body once.
THEOREM BudgetIsKept == TxSpec => []AttemptBudget
<1>1. TxInv => AttemptBudget
  BY TransactionAssumption
     DEF TxInv, TxTypes, Books, Labels, Early, AttemptBudget, TransactionAssumption
<1> QED
  BY <1>1, TxInitInv, TxNextInv, PTL DEF TxSpec

----------------------------------------------------------------------------
(* The listeners.                                                          *)

\* The live connections are finitely many.
LEMMA AliveFinite == IsFiniteSet(Alive) /\ Cardinality(Alive) \in Nat
<1>1. IsFiniteSet(Conns)
  BY ListenerAssumption, FS_Union DEF ListenerAssumption, Conns
<1>2. Alive \subseteq Conns
  BY DEF Alive
<1> QED
  BY <1>1, <1>2, FS_Subset, FS_CardinalityType

\* The permits the two loops hold while they accept, counted.
LEMMA WaitingCount ==
  Cardinality(Waiting) = (IF tcp_loop = "accept" THEN 1 ELSE 0)
                           + (IF quic_loop = "accept" THEN 1 ELSE 0)
<1>1. CASE tcp_loop = "accept" /\ quic_loop = "accept"
  <2>1. Waiting = {"tcp"} \cup {"quic"}
    BY <1>1 DEF Waiting
  <2>2. IsFiniteSet({"tcp"}) /\ Cardinality({"tcp"}) = 1 /\ "quic" \notin {"tcp"}
    BY FS_Singleton
  <2>3. Cardinality({"tcp"} \cup {"quic"}) = 2
    BY <2>2, FS_AddElement
  <2> QED
    BY <1>1, <2>1, <2>3
<1>2. CASE tcp_loop = "accept" /\ quic_loop # "accept"
  <2>1. Waiting = {"tcp"}
    BY <1>2 DEF Waiting
  <2>2. Cardinality({"tcp"}) = 1
    BY FS_Singleton
  <2> QED
    BY <1>2, <2>1, <2>2
<1>3. CASE tcp_loop # "accept" /\ quic_loop = "accept"
  <2>1. Waiting = {"quic"}
    BY <1>3 DEF Waiting
  <2>2. Cardinality({"quic"}) = 1
    BY FS_Singleton
  <2> QED
    BY <1>3, <2>1, <2>2
<1>4. CASE tcp_loop # "accept" /\ quic_loop # "accept"
  <2>1. Waiting = {}
    BY <1>4 DEF Waiting
  <2> QED
    BY <1>4, <2>1, FS_EmptySet
<1> QED
  BY <1>1, <1>2, <1>3, <1>4

LTypes ==
  /\ permits \in Nat
  /\ tcp_loop \in {"acquire", "accept", "draining", "returned"}
  /\ quic_loop \in {"off", "acquire", "accept", "stopped"}
  /\ conn \in [Conns -> {"new", "handshake", "open", "closing", "ended"}]
  /\ busy \in [Conns -> Nat]
  /\ cut \subseteq Conns

\* How the live connections change when one connection moves on.
LEMMA OneConnMoves ==
  ASSUME LTypes, NEW c \in Conns, NEW l \in {"new", "handshake", "open", "closing", "ended"},
         conn' = [conn EXCEPT ![c] = l]
  PROVE  /\ c \notin Alive /\ l \in {"handshake", "open", "closing"} =>
              Cardinality(Alive') = Cardinality(Alive) + 1
         /\ c \in Alive /\ l \in {"handshake", "open", "closing"} => Alive' = Alive
         /\ c \in Alive /\ l \notin {"handshake", "open", "closing"} =>
              Cardinality(Alive') = Cardinality(Alive) - 1
<1>1. /\ l \in {"handshake", "open", "closing"} => Alive' = Alive \cup {c}
      /\ l \notin {"handshake", "open", "closing"} => Alive' = Alive \ {c}
  BY DEF Alive, LTypes
<1>2. /\ Cardinality(Alive \cup {c}) =
            IF c \in Alive THEN Cardinality(Alive) ELSE Cardinality(Alive) + 1
      /\ Cardinality(Alive \ {c}) =
            IF c \in Alive THEN Cardinality(Alive) - 1 ELSE Cardinality(Alive)
  BY AliveFinite, FS_AddElement, FS_RemoveElement
<1> QED
  BY <1>1, <1>2

----------------------------------------------------------------------------
\* A connection has open streams only while it is served.
BusyIsServed == \A c \in Conns : busy[c] > 0 => conn[c] \in {"open", "closing"}

\* The flag goes up with the end of the accept loop.
FlagFollowsLoop == tcp_loop \in {"draining", "returned"} => drain

\* PermitsExact needs only the types; DrainIsComplete rests on it and on
\* BusyIsServed, NoEarlyCut on FlagFollowsLoop.
LInv ==
  /\ LTypes /\ PermitsExact /\ BusyIsServed /\ FlagFollowsLoop
  /\ NoEarlyCut /\ DrainIsComplete

\* The sum of PermitsExact in terms of the loops.
Sum ==
  permits + (IF tcp_loop = "accept" THEN 1 ELSE 0)
    + (IF quic_loop = "accept" THEN 1 ELSE 0) + Cardinality(Alive)

LEMMA SumIsExact == LTypes => (PermitsExact <=> (Running => Sum = MaxConnections))
BY WaitingCount, AliveFinite DEF PermitsExact, Sum, LTypes

LEMMA LInitInv == ListenerInit => LInv
<1> SUFFICES ASSUME ListenerInit PROVE LInv
  OBVIOUS
<1>1. Alive = {} /\ Cardinality(Alive) = 0
  <2>1. Alive = {}
    BY DEF ListenerInit, Alive
  <2> QED
    BY <2>1, FS_EmptySet
<1>2. LTypes
  BY ListenerAssumption DEF ListenerInit, LTypes, ListenerAssumption
<1>3. PermitsExact
  BY <1>1, <1>2, SumIsExact, ListenerAssumption DEF ListenerInit, Sum, ListenerAssumption
<1> QED
  BY <1>2, <1>3 DEF ListenerInit, LInv, BusyIsServed, FlagFollowsLoop, NoEarlyCut, DrainIsComplete, Conns

\* Exactness in the next state is exactness of the sum there.
LEMMA SumIsExactNext ==
  (LTypes => (PermitsExact <=> (Running => Sum = MaxConnections)))'
BY SumIsExact, PTL

\* A step that keeps the sum keeps the permits exact.
LEMMA SumKept ==
  ASSUME LInv, Running, LTypes', Running' => Sum' = Sum
  PROVE  PermitsExact'
BY SumIsExact, SumIsExactNext DEF LInv

\* The task of a live connection ends: its permit goes back.
LEMMA EndTaskKeepsSum ==
  ASSUME LInv, NEW c \in Alive, EndTask(c), UNCHANGED <<tcp_loop, quic_loop>>
  PROVE  Sum' = Sum /\ permits' \in Nat /\ conn' = [conn EXCEPT ![c] = "ended"]
<1>1. c \in Conns
  BY DEF Alive
<1>2. Cardinality(Alive') = Cardinality(Alive) - 1 /\ Cardinality(Alive) \in Nat
  BY <1>1, OneConnMoves, AliveFinite DEF LInv, EndTask
<1>3. permits' = permits + 1 /\ permits \in Nat
  BY DEF EndTask, LInv, LTypes
<1> QED
  BY <1>2, <1>3 DEF Sum, EndTask

\* Steps of the loops leave the connections alone.
LEMMA AliveKept == ASSUME UNCHANGED conn PROVE Alive' = Alive
BY DEF Alive

\* The parts of the invariant other than the sum.
Others == BusyIsServed /\ FlagFollowsLoop /\ NoEarlyCut /\ DrainIsComplete

LEMMA LNextInv == LInv /\ [ListenerNext]_listenerVars => LInv'
<1> SUFFICES ASSUME LInv, [ListenerNext]_listenerVars PROVE LInv'
  OBVIOUS
<1>0. /\ LTypes /\ Others
      /\ Cardinality(Alive) \in Nat /\ MaxConnections \in Nat /\ Tcp \cap Quic = {}
  BY AliveFinite, ListenerAssumption DEF LInv, Others, ListenerAssumption
<1>1. CASE UNCHANGED listenerVars
  BY <1>1 DEF listenerVars, LInv, LTypes, PermitsExact, BusyIsServed, FlagFollowsLoop, NoEarlyCut,
              DrainIsComplete, Alive, Waiting, Running
<1>2. SUFFICES ASSUME Running,
                      \/ ShutdownSignal \/ TcpTurn \/ BeginDrain \/ AllDrained \/ CutStragglers
                      \/ QuicAcquire \/ QuicStop \/ EndpointClosed
                      \/ \E c \in Conns : Client(c) \/ Handler(c) \/ Task(c)
               PROVE  LInv'
  BY <1>1 DEF ListenerNext, Done
<1>3. ASSUME LTypes', Sum' = Sum, Others' PROVE LInv'
  BY <1>2, <1>3, SumKept DEF LInv, Others
<1>4. tcp_loop # "returned"
  BY <1>2 DEF Running
<1>5. CASE ShutdownSignal
  <2>1. Sum' = Sum /\ LTypes'
    BY <1>0, <1>5, AliveKept DEF ShutdownSignal, Sum, LTypes
  <2>2. Others'
    BY <1>0, <1>4, <1>5 DEF ShutdownSignal, Others, BusyIsServed, FlagFollowsLoop, NoEarlyCut,
                            DrainIsComplete
  <2> QED
    BY <1>3, <2>1, <2>2
<1>6. CASE TcpTurn
  <2>1. ASSUME NEW c \in Tcp, Reap(c) PROVE Sum' = Sum /\ LTypes'
    BY <1>0, <2>1, AliveKept DEF Reap, HandBack, Sum, LTypes
  <2>2. ASSUME TcpAcquire PROVE Sum' = Sum /\ LTypes'
    BY <1>0, <2>2, AliveKept DEF TcpAcquire, Sum, LTypes
  <2>3. ASSUME AcceptFails PROVE Sum' = Sum /\ LTypes'
    BY <1>0, <2>3, AliveKept DEF AcceptFails, HandBack, Sum, LTypes
  <2>4. Others'
    BY <1>0, <1>6 DEF TcpTurn, TcpAcquire, AcceptFails, Reap, Others, BusyIsServed,
                      FlagFollowsLoop, NoEarlyCut, DrainIsComplete
  <2> QED
    BY <1>3, <1>6, <2>1, <2>2, <2>3, <2>4 DEF TcpTurn
<1>7. CASE BeginDrain
  <2>1. Sum' = Sum /\ LTypes'
    BY <1>0, <1>7, AliveKept DEF BeginDrain, HandBack, Sum, LTypes
  <2>2. Others'
    BY <1>0, <1>7 DEF BeginDrain, Others, BusyIsServed, FlagFollowsLoop, NoEarlyCut, DrainIsComplete
  <2> QED
    BY <1>3, <2>1, <2>2
\* All permits are home: no connection is alive, so no stream is open either.
<1>8. CASE AllDrained
  <2>1. permits = MaxConnections /\ tcp_loop = "draining" /\ UNCHANGED <<conn, busy>>
    BY <1>8 DEF AllDrained
  <2>2. Cardinality(Alive) = 0
    <3>1. Sum = MaxConnections
      BY <1>0, <1>2, SumIsExact DEF LInv
    <3> QED
      BY <1>0, <2>1, <3>1 DEF Sum
  <2>3. Alive = {}
    BY <2>2, AliveFinite, FS_EmptySet
  <2>4. \A c \in Conns : busy[c] = 0
    BY <1>0, <2>3 DEF Others, BusyIsServed, Alive, LTypes, Conns
  <2>5. Alive' = {} /\ \A c \in Conns : busy'[c] = 0
    BY <2>1, <2>3, <2>4, AliveKept
  <2>6. LTypes' /\ PermitsExact'
    BY <1>0, <1>8 DEF AllDrained, LTypes, PermitsExact, Running
  <2> QED
    BY <1>0, <1>8, <2>5, <2>6 DEF AllDrained, LInv, Others, BusyIsServed, FlagFollowsLoop,
                                  NoEarlyCut, DrainIsComplete
<1>9. CASE CutStragglers
  <2>1. PermitsExact' /\ DrainIsComplete'
    BY <1>9 DEF CutStragglers, PermitsExact, DrainIsComplete, Running
  <2>2. permits' \in Nat
    <3>1. IsFiniteSet(Tcp \cap Alive)
      BY AliveFinite, FS_Subset
    <3>2. Cardinality(Tcp \cap Alive) \in Nat
      BY <3>1, FS_CardinalityType
    <3> QED
      BY <1>0, <1>9, <3>2 DEF CutStragglers, LTypes
  <2>3. LTypes'
    BY <1>0, <1>9, <2>2 DEF CutStragglers, LTypes, Alive
  <2>4. BusyIsServed'
    BY <1>0, <1>9 DEF CutStragglers, LTypes, Others, BusyIsServed, Alive, Conns
  <2>5. FlagFollowsLoop' /\ NoEarlyCut'
    BY <1>0, <1>9 DEF CutStragglers, Others, FlagFollowsLoop, NoEarlyCut
  <2> QED
    BY <2>1, <2>3, <2>4, <2>5 DEF LInv
<1>10. CASE QuicAcquire \/ QuicStop \/ EndpointClosed
  <2>1. Sum' = Sum /\ LTypes'
    BY <1>0, <1>10, AliveKept DEF QuicAcquire, QuicStop, EndpointClosed, Sum, LTypes
  <2>2. Others'
    BY <1>0, <1>4, <1>10 DEF QuicAcquire, QuicStop, EndpointClosed, Others, BusyIsServed,
                             FlagFollowsLoop, NoEarlyCut, DrainIsComplete
  <2> QED
    BY <1>3, <2>1, <2>2
<1>11. ASSUME NEW c \in Conns, Client(c) PROVE LInv'
  <2>1. ASSUME NEW first \in {"handshake", "open"}, TcpAccept(c, first) PROVE LInv'
    <3>1. c \notin Alive /\ conn' = [conn EXCEPT ![c] = first] /\ c \in Tcp
      BY <2>1 DEF TcpAccept, Alive
    <3>2. Cardinality(Alive') = Cardinality(Alive) + 1
      BY <1>0, <3>1, OneConnMoves
    <3>3. Sum' = Sum /\ LTypes'
      BY <1>0, <2>1, <3>2 DEF TcpAccept, Sum, LTypes
    <3>4. Others'
      BY <1>0, <2>1 DEF TcpAccept, LTypes, Others, BusyIsServed, FlagFollowsLoop, NoEarlyCut,
                        DrainIsComplete, Conns
    <3> QED
      BY <1>3, <3>3, <3>4
  <2>2. CASE QuicAccept(c)
    <3>1. c \notin Alive /\ conn' = [conn EXCEPT ![c] = "handshake"] /\ c \notin Tcp
      BY <1>0, <2>2 DEF QuicAccept, Alive
    <3>2. Cardinality(Alive') = Cardinality(Alive) + 1
      BY <1>0, <3>1, OneConnMoves
    <3>3. Sum' = Sum /\ LTypes'
      BY <1>0, <2>2, <3>2 DEF QuicAccept, Sum, LTypes
    <3>4. Others'
      BY <1>0, <1>4, <2>2, <3>1 DEF QuicAccept, LTypes, Others, BusyIsServed, FlagFollowsLoop,
                                    NoEarlyCut, DrainIsComplete, Conns
    <3> QED
      BY <1>3, <3>3, <3>4
  <2>3. ASSUME NEW p \in {"h1", "h2", "h3"}, HandshakeOk(c, p) PROVE LInv'
    <3>1. c \in Alive /\ conn' = [conn EXCEPT ![c] = "open"]
      BY <2>3 DEF HandshakeOk, Alive
    <3>2. Alive' = Alive
      BY <1>0, <3>1, OneConnMoves
    <3>3. Sum' = Sum /\ LTypes'
      BY <1>0, <2>3, <3>2 DEF HandshakeOk, Sum, LTypes
    <3>4. Others'
      BY <1>0, <1>4, <2>3 DEF HandshakeOk, LTypes, Others, BusyIsServed, FlagFollowsLoop,
                              NoEarlyCut, DrainIsComplete, Conns
    <3> QED
      BY <1>3, <3>3, <3>4
  <2>4. CASE HandshakeFails(c) \/ ClientGone(c)
    <3>1. c \in Alive /\ EndTask(c) /\ UNCHANGED <<tcp_loop, quic_loop>>
      BY <2>4 DEF HandshakeFails, ClientGone, Alive
    <3>2. Sum' = Sum /\ permits' \in Nat /\ conn' = [conn EXCEPT ![c] = "ended"]
      BY <3>1, EndTaskKeepsSum
    <3>3. LTypes'
      BY <1>0, <2>4, <3>2 DEF HandshakeFails, ClientGone, DropStreams, LTypes
    <3>4. Others'
      BY <1>0, <1>4, <2>4, <3>2 DEF HandshakeFails, ClientGone, DropStreams, LTypes, Others,
                                    BusyIsServed, FlagFollowsLoop, NoEarlyCut, DrainIsComplete, Conns
    <3> QED
      BY <1>3, <3>2, <3>3, <3>4
  <2>5. CASE StartRequest(c) \/ StreamReset(c)
    <3>1. Sum' = Sum /\ LTypes'
      BY <1>0, <2>5, AliveKept DEF StartRequest, StreamReset, Sum, LTypes
    <3>2. Others'
      BY <1>0, <1>4, <2>5 DEF StartRequest, StreamReset, LTypes, Others, BusyIsServed,
                              FlagFollowsLoop, NoEarlyCut, DrainIsComplete, Conns
    <3> QED
      BY <1>3, <3>1, <3>2
  <2> QED
    BY <1>11, <2>1, <2>2, <2>3, <2>4, <2>5 DEF Client
<1>12. ASSUME NEW c \in Conns, Handler(c) PROVE LInv'
  <2>1. Sum' = Sum /\ LTypes'
    BY <1>0, <1>12, AliveKept DEF Handler, EndRequest, LooseEnds, Sum, LTypes
  <2>2. Others'
    BY <1>0, <1>4, <1>12 DEF Handler, EndRequest, LooseEnds, LTypes, Others, BusyIsServed,
                             FlagFollowsLoop, NoEarlyCut, DrainIsComplete, Conns
  <2> QED
    BY <1>3, <2>1, <2>2
<1>13. ASSUME NEW c \in Conns, Task(c) PROVE LInv'
  <2>1. CASE SeeDrain(c) /\ c \in Tcp
    <3>1. c \in Alive /\ conn' = [conn EXCEPT ![c] = "closing"]
      BY <2>1 DEF SeeDrain, Alive
    <3>2. Alive' = Alive
      BY <1>0, <3>1, OneConnMoves
    <3>3. Sum' = Sum /\ LTypes'
      BY <1>0, <2>1, <3>2 DEF SeeDrain, Sum, LTypes
    <3>4. Others'
      BY <1>0, <1>4, <2>1 DEF SeeDrain, LTypes, Others, BusyIsServed, FlagFollowsLoop,
                              NoEarlyCut, DrainIsComplete, Conns
    <3> QED
      BY <1>3, <3>3, <3>4
  <2>2. CASE SeeDrain(c) /\ c \notin Tcp
    <3>1. c \in Alive /\ EndTask(c) /\ UNCHANGED <<tcp_loop, quic_loop>>
      BY <2>2 DEF SeeDrain, Alive
    <3>2. Sum' = Sum /\ permits' \in Nat /\ conn' = [conn EXCEPT ![c] = "ended"]
      BY <3>1, EndTaskKeepsSum
    <3>3. LTypes'
      BY <1>0, <2>2, <3>2 DEF SeeDrain, DropStreams, LTypes
    <3>4. Others'
      BY <1>0, <1>4, <2>2, <3>2 DEF SeeDrain, DropStreams, LTypes, Others, BusyIsServed,
                                    FlagFollowsLoop, NoEarlyCut, DrainIsComplete, Conns
    <3> QED
      BY <1>3, <3>2, <3>3, <3>4
  <2>3. CASE GracefulEnd(c)
    <3>1. c \in Alive /\ EndTask(c) /\ UNCHANGED <<tcp_loop, quic_loop>>
      BY <2>3 DEF GracefulEnd, Alive
    <3>2. Sum' = Sum /\ permits' \in Nat /\ conn' = [conn EXCEPT ![c] = "ended"]
      BY <3>1, EndTaskKeepsSum
    <3>3. LTypes'
      BY <1>0, <2>3, <3>2 DEF GracefulEnd, LTypes
    <3>4. Others'
      BY <1>0, <1>4, <2>3, <3>2 DEF GracefulEnd, LTypes, Others, BusyIsServed, FlagFollowsLoop,
                                    NoEarlyCut, DrainIsComplete, Conns
    <3> QED
      BY <1>3, <3>2, <3>3, <3>4
  <2> QED
    BY <1>13, <2>1, <2>2, <2>3 DEF Task
<1> QED
  BY <1>2, <1>5, <1>6, <1>7, <1>8, <1>9, <1>10, <1>11, <1>12, <1>13

----------------------------------------------------------------------------
\* conn_limit is exact over both transports, for any limit: every path of the two
\* loops and of a connection's task gives back exactly the permit it took.
THEOREM PermitsAreExact == ListenerSpec => []PermitsExact
<1>1. LInv => PermitsExact
  BY DEF LInv
<1> QED
  BY <1>1, LInitInv, LNextInv, PTL DEF ListenerSpec

\* The server ends a connection with TCP requests in flight only after the drain
\* deadline, and one with h3 requests only while it drains.
THEOREM CutsAreLate == ListenerSpec => []NoEarlyCut
<1>1. LInv => NoEarlyCut
  BY DEF LInv
<1> QED
  BY <1>1, LInitInv, LNextInv, PTL DEF ListenerSpec

\* When acquire_many has all permits before the deadline, no connection of either
\* transport and no request on an open stream is left: what h2 and h3 requests
\* still run have lost their streams.
THEOREM DrainLeavesNothing == ListenerSpec => []DrainIsComplete
<1>1. LInv => DrainIsComplete
  BY DEF LInv
<1> QED
  BY <1>1, LInitInv, LNextInv, PTL DEF ListenerSpec
============================================================================
