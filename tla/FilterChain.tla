---------------------------- MODULE FilterChain ----------------------------
(***************************************************************************)
(* One transaction per request through a route's filter chain: the request *)
(* hooks in order, the buffered body through the body hooks, the forward,  *)
(* the response hooks in reverse (crates/control/src/chain.rs, the chain   *)
(* half of crates/server/src/proxy.rs, the hook runners of                 *)
(* crates/host/src/lib.rs), with the outbound calls a hook may make        *)
(* (crates/host/src/outbound_http.rs) and a reload going on meanwhile.     *)
(*                                                                         *)
(* Hooks run in a closure of the blocking pool: a client that goes away    *)
(* drops the request future, not the closure, which runs on to the end of  *)
(* its half of the chain.  Routing and the rate limit come before this     *)
(* module (FrontDoor), breaker, retries and timeouts of the forward are    *)
(* one step of it (Transaction).                                           *)
(***************************************************************************)
EXTENDS Integers, Sequences, FiniteSets, Headers, Outbound

CONSTANTS
  NONE,
  Task,                       \* requests
  Chain,                      \* generation -> the route's filter ids, in order
  ReadsBody,                  \* filters that export on-request-body
  Trusted,                    \* filters whose instances are pooled
  Policy,                     \* outbound policy of the filters that have one
  RequestEdit, ResponseEdit,  \* the edit a filter may decide on
  Inbound,                    \* what clients send: [map, bodyless]
  OverQuic,                   \* requests of HTTP/3
  AltSvc,                     \* what a TCP response advertises, NONE without QUIC
  UpstreamMap,                \* the header map of an upstream's response
  Target_,                    \* what a guest may ask for
  Zone,                       \* host -> the answers a lookup may get
  MaxCalls,                   \* outbound calls of a request
  Careless,                   \* requests whose guests may go on with a call pending
  Buffers                     \* MAX_INFLIGHT_BODY_BUFFERS

Generation == DOMAIN Chain
Filter     == UNION {{Chain[g][i] : i \in DOMAIN Chain[g]} : g \in Generation}
HookPhase  == {"request", "body", "response"}
Peer       == "peer"
Scheme     == "https"
Trace      == "trace"

ASSUME ChainAssumption ==
  /\ 1 \in Generation /\ Generation \subseteq Nat
  /\ \A g \in Generation : Chain[g] \in Seq(Filter)
  /\ IsFiniteSet(Task) /\ OverQuic \subseteq Task
  /\ \A kind \in DOMAIN Inbound : IsList(Inbound[kind].map)
  /\ IsList(UpstreamMap)
  /\ \A f \in Filter : IsList(RequestEdit[f].set) /\ IsList(ResponseEdit[f].set)
  /\ \A f \in ReadsBody \cup Trusted \cup DOMAIN Policy : f \in Filter
  /\ Buffers \in Nat \ {0} /\ MaxCalls \in Nat
  /\ \A f \in DOMAIN Policy : Policy[f].max_concurrent \in Nat \ {0}
  /\ Target_ \subseteq Targets
  /\ \A target \in Target_ : HasAuthority(target) => Zone[target.host] \subseteq Seq(Addresses)

VARIABLES
  active,    \* the generation a new transaction pins
  task,      \* one transaction per request
  call,      \* the outbound call a request's hook has going
  permits,   \* free permits of a loaded filter's outbound semaphore
  buffers,   \* free permits of the body-buffer semaphore
  waiting    \* requests waiting for one, first come first served

vars == <<active, task, call, permits, buffers, waiting>>

\* Of each hook, the filters it was run of.
NoHooks == [hook \in HookPhase |-> <<>>]

Blank ==
  [pc |-> "new", gen |-> 0, kind |-> NONE, k |-> 0, status |-> 0, headers |-> <<>>, body |-> NONE,
   trail |-> NoHooks, edits |-> NoHooks, await |-> FALSE, calls |-> MaxCalls, gone |-> FALSE, answer |-> NONE]

\* A semaphore per loaded filter, not per request; a reload makes new ones.
FreshPermits == [f \in DOMAIN Policy |-> Policy[f].max_concurrent]

NoCall == [pc |-> "none", gen |-> 0, filter |-> NONE, by |-> <<>>, target |-> NONE,
           addrs |-> <<>>]

Init ==
  /\ active = 1
  /\ task = [t \in Task |-> Blank]
  /\ call = [t \in Task |-> NoCall]
  /\ permits = [g \in Generation |-> FreshPermits]
  /\ buffers = Buffers
  /\ waiting = <<>>

----------------------------------------------------------------------------
(* Edits and responses.                                                    *)

is_repeatable(name) == name = "set-cookie"

remove_headers(headers, names) == Drop(headers, names)

set_headers(headers, set) ==
  FoldLeft(LAMBDA hs, new : Append(IF is_repeatable(new.name) THEN hs
                                   ELSE remove_headers(hs, {new.name}), new),
           headers, set)

apply_request_edit(headers, edit) == set_headers(remove_headers(headers, edit.remove), edit.set)

\* set_status 0: the edit names none.
apply_response_edit(resp, edit) ==
  [resp EXCEPT !.status  = IF edit.set_status = 0 THEN @ ELSE edit.set_status,
               !.headers = apply_request_edit(@, edit)]

\* A status outside 100..999 cannot be sent.
status_code(status) == IF status \in 100..999 THEN status ELSE 502

http_response(resp) ==
  [streamed |-> FALSE, status |-> status_code(resp.status),
   headers |-> copy_headers(resp.headers)]

stream_response(resp, original) ==
  [streamed |-> TRUE, status |-> status_code(resp.status),
   headers |-> copy_headers_preserving(resp.headers, original)]

synth(status, fault) ==
  [streamed |-> FALSE, status |-> status, headers |-> <<Hdr("x-plecto-fault", fault)>>]

RunErrors == {"deadline", "trap", "instantiate", "unavailable"}

FaultResponse(err, body) ==
  [status |-> CASE err = "deadline" -> 504 [] err = "unavailable" -> 503 [] OTHER -> 502,
   headers |-> <<Hdr("x-plecto-fault", err)>>, body |-> body]

FailClosedBodilessMut(err) == FaultResponse(err, "")

fail_closed_response(err) == FaultResponse(err, "message")

\* The end of proxy_core_inner: a body is the mark of a synthetic response.
Delivered(resp, original) ==
  IF resp.body = "" THEN stream_response(resp, original) ELSE http_response(resp)

----------------------------------------------------------------------------
(* The request's steps share these.                                        *)

ChainOfActiveMut(t) == Chain[active]

\* snapshot_with_trace pins the generation; every hook reads the chain from it.
ChainOf(t) == Chain[task[t].gen]

route_reads_body(t) == \E i \in DOMAIN ChainOf(t) : ChainOf(t)[i] \in ReadsBody

FilterAt(t) ==
  LET c == ChainOf(t)
  IN  IF task[t].pc = "response" THEN c[Len(c) + 1 - task[t].k] ELSE c[task[t].k]

ChainPassed(t) == task[t].pc \in HookPhase /\ task[t].k > Len(ChainOf(t))

\* The guest is running, not parked on an outbound call.
InHook(t) ==
  task[t].pc \in HookPhase /\ task[t].k <= Len(ChainOf(t)) /\ ~task[t].await

\* A header-only filter is not entered for the body.
Entered(t) == task[t].pc = "body" => FilterAt(t) \in ReadsBody

HoldsBuffer(t) == task[t].pc \in {"read", "body"} /\ ~task[t].gone

ReleaseBuffer(t) == buffers' = buffers + (IF HoldsBuffer(t) THEN 1 ELSE 0)

\* dispatch::handle advertises HTTP/3 on all it sends over TCP.
advertises(t) == AltSvc # NONE /\ t \notin OverQuic

attach_alt_svc(t, headers) ==
  IF advertises(t) THEN Drop(headers, {"alt-svc"}) \o <<Hdr("alt-svc", AltSvc)>> ELSE headers

\* The response of t is ready; nobody is left to take it if the client is gone.
\* The history is kept where there is something to compare it with.
Respond(t, answer) ==
  /\ task' = [task EXCEPT ![t] =
       IF @.gone THEN [Blank EXCEPT !.pc = "sent"]
       ELSE [(IF answer.streamed THEN @ ELSE Blank) EXCEPT
               !.pc = "answered",
               !.answer = [answer EXCEPT !.headers = attach_alt_svc(t, @)]]]
  /\ ReleaseBuffer(t)

CallHeld(c) == c.pc \in {"resolving", "dialling", "sending"}

\* The spawned call ends, is aborted with its future, or hands over the head.
ReleasePermit(c) ==
  permits' = IF CallHeld(c) THEN [permits EXCEPT ![c.gen][c.filter] = @ + 1] ELSE permits

ThisHook(t) == <<task[t].pc, task[t].k>>

\* A fresh instance's Store goes with its hook, and every call in it; a pooled
\* instance keeps what its guest left pending, until it is itself discarded.
HookReturns(t, discarded) ==
  IF call[t].by = ThisHook(t) /\ (discarded \/ FilterAt(t) \notin Trusted)
  THEN call' = [call EXCEPT ![t] = NoCall] /\ ReleasePermit(call[t])
  ELSE call' = [call EXCEPT ![t].by = <<>>] /\ UNCHANGED permits

\* trail and edits are history: the hooks passed, and those that changed something.
Noted(t, filters) == [filters EXCEPT ![task[t].pc] = Append(@, FilterAt(t))]

Passed(t) ==
  [task[t] EXCEPT !.k = @ + 1, !.trail = IF task[t].gone THEN @ ELSE Noted(t, @)]

Edited(t) == [Passed(t) EXCEPT !.edits = Noted(t, @)]

----------------------------------------------------------------------------
(* Ingress and the request hooks.                                          *)

\* The view the first hook gets, of a request and of the response: nothing of it
\* depends on when it is made.
RequestView == [kind \in DOMAIN Inbound |->
                  set_forwarded(headers_to_vec(Inbound[kind].map), Peer, Scheme)]
ResponseView == headers_to_vec(UpstreamMap)

Arrive(t, kind) ==
  /\ task[t].pc = "new"
  /\ task' = [task EXCEPT ![t] =
       [@ EXCEPT !.pc = "request", !.gen = active, !.kind = kind, !.k = 1,
                 !.headers = RequestView[kind]]]
  /\ UNCHANGED <<active, call, permits, buffers, waiting>>

HookContinues(t) ==
  /\ InHook(t)
  /\ task' = [task EXCEPT ![t] = Passed(t)]
  /\ IF Entered(t) THEN HookReturns(t, FALSE) ELSE UNCHANGED <<call, permits>>
  /\ UNCHANGED <<active, buffers, waiting>>

\* RequestDecision::Modified, ResponseDecision::Modified, or a body hook that
\* continues with a body of its own.  (Of a gone request nobody sees the edit.)
HookModifies(t) ==
  /\ InHook(t) /\ Entered(t) /\ ~task[t].gone
  /\ LET f == FilterAt(t)
         p == Edited(t)
     IN  task' = [task EXCEPT ![t] =
           CASE p.pc = "request"  -> [p EXCEPT !.headers = apply_request_edit(@, RequestEdit[f])]
             [] p.pc = "body"     -> [p EXCEPT !.body = f]
             [] p.pc = "response" -> apply_response_edit(p, ResponseEdit[f])]
  /\ HookReturns(t, FALSE)
  /\ UNCHANGED <<active, buffers, waiting>>

\* A filter answers itself, with a body or without; response hooks cannot.
HookShortCircuits(t) ==
  /\ InHook(t) /\ Entered(t) /\ task[t].pc # "response"
  /\ Respond(t, http_response([status |-> 403, headers |-> <<>>, body |-> ""]))
  /\ HookReturns(t, FALSE)
  /\ UNCHANGED <<active, waiting>>

HookFails(t, err) ==
  /\ InHook(t) /\ Entered(t)
  /\ err = "unavailable" => FilterAt(t) \in Trusted
  /\ LET resp == fail_closed_response(err)
     IN  Respond(t, IF task[t].pc = "response" THEN Delivered(resp, UpstreamMap)
                    ELSE http_response(resp))
  /\ HookReturns(t, TRUE)
  /\ UNCHANGED <<active, waiting>>

----------------------------------------------------------------------------
(* Between the hooks.                                                      *)

GoTo(t, pc) == task' = [task EXCEPT ![t] = IF @.gone THEN [Blank EXCEPT !.pc = "sent"]
                                           ELSE [@ EXCEPT !.pc = pc, !.k = 1]]

BodyIsNext(t) ==
  task[t].pc = "request" /\ route_reads_body(t) /\ ~Inbound[task[t].kind].bodyless

\* ChainOutcome::Forward: a bodied request of a route that reads bodies queues
\* for a buffer, any other is sent upstream with its body unread.
RequestChainPasses(t) ==
  /\ task[t].pc = "request" /\ ChainPassed(t)
  /\ IF BodyIsNext(t) /\ ~task[t].gone
     THEN GoTo(t, "queue") /\ waiting' = Append(waiting, t)
     ELSE GoTo(t, "upstream") /\ UNCHANGED waiting
  /\ UNCHANGED <<active, call, permits, buffers>>

\* No backend has an eligible instance, before the body is read or at the pick
\* after it; or, after it, the breaker is at its cap.
Refused(t) ==
  /\ task[t].pc \in {"request", "body"} /\ ChainPassed(t) /\ ~task[t].gone
  /\ \/ Respond(t, synth(503, "no-healthy-upstream"))
     \/ ~BodyIsNext(t) /\ Respond(t, synth(503, "circuit-open"))
  /\ UNCHANGED <<active, call, permits, waiting>>

AcquireBuffer(t) ==
  /\ waiting # <<>> /\ Head(waiting) = t /\ buffers > 0
  /\ waiting' = Tail(waiting)
  /\ buffers' = buffers - 1
  /\ task' = [task EXCEPT ![t].pc = "read"]
  /\ UNCHANGED <<active, call, permits>>

\* buffer_request_body under INBOUND_BODY_READ_TIMEOUT.
BodyRead(t) ==
  /\ task[t].pc = "read"
  /\ GoTo(t, "body")
  /\ UNCHANGED <<active, call, permits, buffers, waiting>>

BodyRefused(t) ==
  /\ task[t].pc = "read"
  /\ \/ Respond(t, synth(413, "body-too-large"))
     \/ Respond(t, synth(408, "body-timeout"))
  /\ UNCHANGED <<active, call, permits, waiting>>

BodyChainPasses(t) ==
  /\ task[t].pc = "body" /\ ChainPassed(t)
  /\ GoTo(t, "upstream")
  /\ ReleaseBuffer(t)
  /\ UNCHANGED <<active, call, permits, waiting>>

\* What an attempt sends (forward.rs).
UpstreamHeaders(t) ==
  Drop(copy_headers_preserving(task[t].headers, Inbound[task[t].kind].map), {"traceparent"})
    \o <<Hdr("traceparent", Trace)>>

\* Overall or per-try timeout; or an error dispatch::handle makes a 502 of.
UpstreamFails(t) ==
  /\ task[t].pc = "upstream"
  /\ \/ Respond(t, synth(504, "upstream-timeout"))
     \/ Respond(t, synth(502, "upstream"))
  /\ UNCHANGED <<active, call, permits, waiting>>

UpstreamAnswers(t) ==
  /\ task[t].pc = "upstream"
  /\ task' = [task EXCEPT ![t] =
       [Blank EXCEPT !.pc = "response", !.gen = task[t].gen, !.k = 1, !.calls = task[t].calls,
                     !.trail = [NoHooks EXCEPT !["request"] = task[t].trail["request"]],
                     !.status = 200, !.headers = ResponseView]]
  /\ UNCHANGED <<active, call, permits, buffers, waiting>>

ResponseChainPasses(t) ==
  /\ task[t].pc = "response" /\ ChainPassed(t)
  /\ Respond(t, Delivered([status |-> task[t].status, headers |-> task[t].headers, body |-> ""],
                          UpstreamMap))
  /\ UNCHANGED <<active, call, permits, waiting>>

Sent(t) ==
  /\ task[t].pc = "answered"
  /\ task' = [task EXCEPT ![t] = [Blank EXCEPT !.pc = "sent"]]
  /\ UNCHANGED <<active, call, permits, buffers, waiting>>

\* What the closure of a dropped request still works with.
Orphan(r) == [Blank EXCEPT !.pc = r.pc, !.gen = r.gen, !.kind = r.kind, !.k = r.k,
                           !.await = r.await, !.calls = r.calls, !.gone = TRUE]

\* The queue without t, which is in it once if at all.
Without(queue, t) ==
  IF \E i \in DOMAIN queue : queue[i] = t
  THEN RemoveAt(queue, CHOOSE i \in DOMAIN queue : queue[i] = t)
  ELSE queue

\* The connection drops the request future, wherever it awaits; a request of
\* HTTP/3 is a task of its own, which runs on.
Disconnect(t) ==
  /\ ~task[t].gone /\ t \notin OverQuic
  /\ task[t].pc \in HookPhase \cup {"queue", "read", "upstream"}
  /\ task' = [task EXCEPT ![t] = IF @.pc \in HookPhase THEN Orphan(@)
                                 ELSE [Blank EXCEPT !.pc = "sent"]]
  /\ ReleaseBuffer(t)
  /\ waiting' = Without(waiting, t)
  /\ UNCHANGED <<active, call, permits>>

\* Control::reload stores the next configuration, every filter loaded anew.
Reload ==
  /\ active + 1 \in Generation
  /\ active' = active + 1
  /\ UNCHANGED <<task, call, permits, buffers, waiting>>

----------------------------------------------------------------------------
(* Outbound calls.                                                         *)

MayCall(t) ==
  /\ InHook(t) /\ Entered(t)
  /\ FilterAt(t) \in DOMAIN Policy
  /\ task[t].calls > 0 /\ call[t].pc = "none"

Admissible(t, target) ==
  /\ HasAuthority(target) /\ allows(Policy[FilterAt(t)], target)
  /\ permits[task[t].gen][FilterAt(t)] > 0

\* HttpRequestUriInvalid, HttpRequestDenied or ConnectionLimitReached, at once.
CallDenied(t, target) ==
  /\ MayCall(t) /\ ~Admissible(t, target)
  /\ task' = [task EXCEPT ![t].calls = @ - 1]
  /\ UNCHANGED <<active, call, permits, buffers, waiting>>

\* dispatch spawns the call; the guest waits for it or goes on without.
CallStarts(t, target, await) ==
  /\ MayCall(t) /\ Admissible(t, target)
  /\ await \/ t \in Careless
  /\ call' = [call EXCEPT ![t] = [NoCall EXCEPT !.pc = "resolving", !.gen = task[t].gen,
                                                !.filter = FilterAt(t), !.by = ThisHook(t),
                                                !.target = target]]
  /\ permits' = [permits EXCEPT ![task[t].gen][FilterAt(t)] = @ - 1]
  /\ task' = [task EXCEPT ![t].calls = @ - 1, ![t].await = await]
  /\ UNCHANGED <<active, buffers, waiting>>

\* The future resolves, to a response or to an error code, or is dropped.
CallEnds(t) ==
  /\ call' = [call EXCEPT ![t] = NoCall]
  /\ ReleasePermit(call[t])
  /\ task' = [task EXCEPT ![t].await = FALSE]
  /\ UNCHANGED <<active, buffers, waiting>>

\* What the system resolver may say, each time it is asked.
Lookup(host) == Zone[host]

\* One lookup; every address it gave is vetted before the first is dialled.
Resolved(t, addrs) ==
  /\ call[t].pc = "resolving"
  /\ IF addrs = <<>> \/ ~all_addresses_allowed(addrs, Policy[call[t].filter])
     THEN CallEnds(t)
     ELSE /\ call' = [call EXCEPT ![t] = [@ EXCEPT !.pc = "dialling", !.addrs = addrs]]
          /\ UNCHANGED <<active, task, permits, buffers, waiting>>

\* The TCP connection is up: TLS if the scheme asks for it, the HTTP/1.1
\* handshake and the request follow on it, each step under connect_timeout.
Connects(t) ==
  /\ call[t].pc = "dialling"
  /\ call' = [call EXCEPT ![t] = [@ EXCEPT !.pc = "sending", !.addrs = <<>>]]
  /\ UNCHANGED <<active, task, permits, buffers, waiting>>

CallFails(t) ==
  /\ CallHeld(call[t])
  /\ CallEnds(t)

\* timeout(total_timeout, resolve_and_connect): the clock over all of it.
NoTotalTimeoutMut(t) == FALSE /\ CallEnds(t)

TotalTimeout(t) ==
  /\ CallHeld(call[t])
  /\ CallEnds(t)

\* The spawned future returns the response, its body unread, and drops the
\* permit; a response nobody waits for holds nothing anyone else wants.
HeadArrives(t) ==
  /\ call[t].pc = "sending"
  /\ call' = [call EXCEPT ![t] = IF task[t].await THEN [@ EXCEPT !.pc = "reading"] ELSE NoCall]
  /\ ReleasePermit(call[t])
  /\ UNCHANGED <<active, task, buffers, waiting>>

\* The guest reads to the end, to max_response_bytes or until a chunk is late
\* (between_bytes_timeout); or drops it.
BodyEnds(t) ==
  /\ call[t].pc = "reading"
  /\ CallEnds(t)

----------------------------------------------------------------------------
(* The specification.                                                      *)

HookEnds(t) ==
  \/ HookContinues(t) \/ HookModifies(t) \/ HookShortCircuits(t)
  \/ \E err \in RunErrors : HookFails(t, err)

Outgoing(t) ==
  \/ \E target \in Target_ : CallDenied(t, target)
  \/ \E target \in Target_, await \in BOOLEAN : CallStarts(t, target, await)
  \/ call[t].pc = "resolving" /\ \E addrs \in Lookup(call[t].target.host) : Resolved(t, addrs)
  \/ Connects(t) \/ HeadArrives(t) \/ CallFails(t)

Next ==
  \/ Reload
  \/ \E t \in Task :
       \/ \E kind \in DOMAIN Inbound : Arrive(t, kind)
       \/ HookEnds(t)
       \/ RequestChainPasses(t) \/ Refused(t) \/ AcquireBuffer(t)
       \/ BodyRead(t) \/ BodyRefused(t) \/ BodyChainPasses(t)
       \/ UpstreamFails(t) \/ UpstreamAnswers(t)
       \/ ResponseChainPasses(t) \/ Sent(t) \/ Disconnect(t)
       \/ Outgoing(t) \/ TotalTimeout(t) \/ BodyEnds(t)

\* What is sure to happen to a request: a hook ends, by its epoch deadline if not
\* before, a body read and an upstream by their timers, the semaphore serves its
\* queue and the executor runs what is ready.
Runs(t) ==
  \/ HookFails(t, "deadline") \/ (InHook(t) /\ ~Entered(t) /\ HookContinues(t))
  \/ RequestChainPasses(t) \/ BodyChainPasses(t) \/ ResponseChainPasses(t)
  \/ AcquireBuffer(t) \/ BodyRefused(t) \/ UpstreamFails(t)

\* And to a call: its deadline passes, or that of its next chunk.
Times(t) == TotalTimeout(t) \/ BodyEnds(t)

\* (Weak fairness of the two together is less than that of each, and enough.)
Fairness == \A t \in Task : WF_vars(Runs(t) \/ Times(t))

Spec == Init /\ [][Next]_vars /\ Fairness

----------------------------------------------------------------------------
(* Properties.                                                             *)

Hooked(t, hook)    == task[t].trail[hook]
Modifiers(t, hook) == task[t].edits[hook]

\* A request on its way upstream has been let through by every filter of the
\* chain it was matched under, in the chain's order, and its body by every body
\* hook, whatever was reloaded meanwhile; the body sent is the one the last
\* filter to rewrite it left (chain.rs dispatch_request, dispatch_request_body).
ForwardOnlyIfPassed ==
  \A t \in Task : task[t].pc = "upstream" =>
    LET c        == Chain[task[t].gen]
        buffered == /\ ~Inbound[task[t].kind].bodyless
                    /\ \E i \in DOMAIN c : c[i] \in ReadsBody
        rewrote  == Modifiers(t, "body")
    IN  /\ Hooked(t, "request") = c
        /\ Hooked(t, "body") = IF buffered THEN c ELSE <<>>
        /\ task[t].body = IF rewrote = <<>> THEN NONE ELSE rewrote[Len(rewrote)]

\* The upstream's body reaches the client only when every filter the request
\* passed has passed the response too, in reverse; a response hook that failed
\* leaves a synthetic answer (chain.rs dispatch_response, proxy.rs's end).
ResponseMirrors ==
  \A t \in Task : task[t].pc = "answered" /\ task[t].answer.streamed =>
    Hooked(t, "response") = Reverse(Hooked(t, "request"))

\* A filter's call never reaches for an address the operator did not open: one
\* that is reserved, alone or wrapped in IPv6, or private and not opted into; nor
\* for a host off the allowlist; nor at all if any address of the one answer it
\* resolved is such (outbound_http.rs resolve_and_connect).
OnlyVettedDialled ==
  \A t \in Task : call[t].pc = "dialling" =>
    LET p == Policy[call[t].filter]
    IN  /\ \E e \in p.allow : e.host = call[t].target.host /\ e.tls = call[t].target.tls
        /\ call[t].addrs # <<>>
        /\ \A i \in DOMAIN call[t].addrs :
             LET ip == call[t].addrs[i]
             IN  ip.range = "global" \/ (ip.range = "private" /\ ip.net \in p.allow_private)

\* The headers of a name, and their values.
Only(hs, name)  == Keep(hs, LAMBDA h : h.name = name)
Lines(hs, name) == LET only == Only(hs, name) IN [i \in DOMAIN only |-> only[i].value]

SetBy(edit)    == {edit.set[i].name : i \in DOMAIN edit.set}
Touched(edits) == UNION {edits[i].remove \cup SetBy(edits[i]) : i \in DOMAIN edits}
EditsBy(edit, fs) == [i \in DOMAIN fs |-> edit[fs[i]]]

\* Two lines of one name that read alike once decoded are told apart by nothing.
Ambiguous(lines) ==
  \E i, j \in DOMAIN lines : lines[i] # lines[j] /\ lossy(lines[i]) = lossy(lines[j])

\* What no filter touched: nothing of the fixed hop-by-hop set or named by
\* Connection is in out, and every other line is, byte for byte, a line of map.
Carried(out, map, others) ==
  /\ \A i \in DOMAIN out : out[i].name \notin HOP_BY_HOP
  /\ \A name \in connection_named(map) \ others : Lines(out, name) = <<>>
  /\ \A name \in {map[i].name : i \in DOMAIN map} \cup {out[i].name : i \in DOMAIN out} :
       name \notin HOP_BY_HOP \cup connection_named(map) \cup others =>
         IF Ambiguous(Lines(map, name)) THEN Len(Lines(out, name)) = Len(Lines(map, name))
                                        ELSE Lines(out, name) = Lines(map, name)

\* What the proxy itself says of the client.
Own(name) == CASE name \in {"x-forwarded-for", "x-real-ip"} -> <<Peer>>
               [] name = "x-forwarded-proto"               -> <<Scheme>>
               [] OTHER                                    -> <<>>

\* What the proxy says of itself, whoever made the response.
Advert(t) == IF advertises(t) THEN {"alt-svc"} ELSE {}

\* What leaves the proxy, where no filter touched it, is what came in: no
\* connection-specific header crosses it, whether of the fixed set or named by
\* Connection; what the client says of its own address is replaced, and so is what
\* the upstream says of alternative services where the proxy has its own to say;
\* every other line keeps its bytes, both ways (headers.rs, dispatch.rs).
UntouchedKept ==
  \A t \in Task :
    /\ task[t].pc = "upstream" =>
         LET out     == UpstreamHeaders(t)
             touched == Touched(EditsBy(RequestEdit, Modifiers(t, "request")))
         IN  /\ Carried(out, Inbound[task[t].kind].map,
                        FORWARDED_HEADERS \cup {"traceparent"} \cup touched)
             /\ Lines(out, "traceparent") = <<Trace>>
             /\ \A name \in FORWARDED_HEADERS \ touched : Lines(out, name) = Own(name)
    /\ task[t].pc = "answered" =>
         LET out == task[t].answer.headers
         IN  /\ \A name \in Advert(t) : Lines(out, name) = <<AltSvc>>
             /\ task[t].answer.streamed =>
                  Carried(out, UpstreamMap,
                          Advert(t) \cup Touched(EditsBy(ResponseEdit, Modifiers(t, "response"))))

\* What one edit makes of the headers of a name: it may remove them, and replaces
\* them by the last it sets, or adds all it sets if the name may repeat.
Said(only, edit, name) ==
  LET left == IF name \in edit.remove THEN <<>> ELSE only
      set  == Only(edit.set, name)
  IN  IF set = <<>> THEN left
      ELSE IF is_repeatable(name) THEN left \o set
      ELSE <<set[Len(set)]>>

\* What the edits leave of a name, of the headers of it that the first filter saw.
Word(first, edits, name) == FoldLeft(LAMBDA only, e : Said(only, e, name), first, edits)

Decoded(map, name) ==
  IF name \in connection_named(map) THEN <<>>
  ELSE LET lines == Lines(map, name) IN [i \in DOMAIN lines |-> Hdr(name, lossy(lines[i]))]

\* What of a word can be sent.
Sendable(word, sent) == Keep(word, LAMBDA h : h.value \in sent \/ ValidValue(h.value))

\* The lines of out say the word: those that can be sent, each as the edits have it
\* or in the bytes of a line of map that reads like it.
Says(out, map, name, word) ==
  LET inner == Lines(map, name)
      outer == Lines(out, name)
      sent  == {lossy(inner[i]) : i \in DOMAIN inner}
      fit   == Sendable(word, sent)
  IN  /\ Len(outer) = Len(fit)
      /\ \A i \in DOMAIN fit :
           IF fit[i].value \in sent
           THEN outer[i] \in Range(inner) /\ lossy(outer[i]) = fit[i].value
           ELSE outer[i] = fit[i].value

\* What a filter touched is as the filters left it, name by name, whatever else they
\* edited: the last to set or remove a header has the last word on it, and cookies
\* add up; but not on what the proxy adds after the chain, traceparent upstream and
\* alt-svc to a client over TCP (chain.rs set_headers, headers.rs
\* copy_headers_preserving, dispatch.rs attach_alt_svc).
EditsHold ==
  \A t \in Task :
    /\ task[t].pc = "upstream" =>
         LET map   == Inbound[task[t].kind].map
             out   == UpstreamHeaders(t)
             edits == EditsBy(RequestEdit, Modifiers(t, "request"))
         IN  \A name \in Touched(edits) \ (HOP_BY_HOP \cup {"traceparent"}) :
               Says(out, map, name,
                    Word(IF name \in FORWARDED_HEADERS THEN <<>> ELSE Decoded(map, name), edits, name))
    /\ task[t].pc = "answered" /\ task[t].answer.streamed =>
         LET edits == EditsBy(ResponseEdit, Modifiers(t, "response"))
         IN  \A name \in Touched(edits) \ (HOP_BY_HOP \cup Advert(t)) :
               Says(task[t].answer.headers, UpstreamMap, name,
                    Word(Decoded(UpstreamMap, name), edits, name))

\* The headers that leave the proxy are, both ways, those that came in where no
\* filter touched them, and what the filters made of them elsewhere, whatever
\* Connection names, the client claims or cannot be decoded (headers.rs, chain.rs).
HeadersClean == UntouchedKept /\ EditsHold

\* Every request is answered, or given up by its client: no hook, body read,
\* outbound call or wait for a buffer holds it for ever (proxy.rs, body.rs
\* INBOUND_BODY_READ_TIMEOUT, outbound_http.rs total_timeout).  A task is one
\* request, so the proxy comes to rest again and again.
EveryRequestEnds ==
  []<>(\A t \in Task : task[t].pc \in {"new", "answered", "sent"})
============================================================================
