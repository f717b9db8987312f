------------------------- MODULE FilterChain_proofs ------------------------
(***************************************************************************)
(* What holds of every chain, however many requests, hooks, outbound calls *)
(* and reloads interleave.  Four invariants, each of them inductive:       *)
(*   - WalkInv: where a request is on its way along the chain it was       *)
(*     matched under, what let it come there, and who waits for a buffer;  *)
(*   - CallInv, on top of it: what a call has been checked for when it has *)
(*     come as far as it has, and that permits are neither lost nor made;  *)
(*   - BuffersExact, on top of it: the same of the body buffers.           *)
(*   - WordInv, on top of the first: what the headers of a request say,    *)
(*     name by name, is what the edits made so far have made of the view   *)
(*     its first hook got.                                                 *)
(* A loop of the code is a fold; each gets its induction from an instance  *)
(* of Folding.                                                             *)
(***************************************************************************)
EXTENDS FilterChain, FiniteSetTheorems, SequenceTheorems, TLAPS

----------------------------------------------------------------------------
(* Records and tables.                                                     *)

\* r has the fields of a transaction; nothing is said of most of them.
Shape(r) ==
  r = [pc |-> r.pc, gen |-> r.gen, kind |-> r.kind, k |-> r.k, status |-> r.status,
       headers |-> r.headers, body |-> r.body, trail |-> r.trail, edits |-> r.edits,
       await |-> r.await, calls |-> r.calls, gone |-> r.gone, answer |-> r.answer]

Tabular(f) == f = [t \in Task |-> f[t]]

LEMMA TableUpdate ==
  ASSUME NEW f, NEW g, Tabular(f), NEW t \in Task, NEW r, g = [f EXCEPT ![t] = r]
  PROVE  Tabular(g) /\ g[t] = r /\ \A u \in Task : u # t => g[u] = f[u]
BY DEF Tabular

----------------------------------------------------------------------------
(* The walk of a request along the chain it was matched under.             *)

\* s is the first n filters of c; the last n, from the end.
FromStart(s, c, n) == s \in Seq(Filter) /\ Len(s) = n /\ \A i \in 1..n : s[i] = c[i]
FromEnd(s, c, n) == s \in Seq(Filter) /\ Len(s) = n /\ \A i \in 1..n : s[i] = c[Len(c) + 1 - i]

Buffered(r) ==
  ~Inbound[r.kind].bodyless /\ \E i \in DOMAIN Chain[r.gen] : Chain[r.gen][i] \in ReadsBody

\* The body of r is the one the last filter to rewrite it left.
LastRewrite(r) ==
  r.body = IF r.edits["body"] = <<>> THEN NONE ELSE r.edits["body"][Len(r.edits["body"])]

Untouched(r) == r.trail["body"] = <<>> /\ r.edits["body"] = <<>> /\ r.body = NONE

Places == {"new", "request", "queue", "read", "body", "upstream", "response", "answered", "sent"}
UnderWay == {"request", "queue", "read", "body", "upstream", "response"}

\* Where r is, and what let it come there.
Progress(r) ==
  LET c == Chain[r.gen] IN
  /\ r.pc = "request" => FromStart(r.trail["request"], c, r.k - 1) /\ Untouched(r)
  /\ r.pc \in {"queue", "read"} =>
       FromStart(r.trail["request"], c, Len(c)) /\ Untouched(r) /\ Buffered(r)
  /\ r.pc = "body" => /\ FromStart(r.trail["request"], c, Len(c)) /\ Buffered(r)
                      /\ FromStart(r.trail["body"], c, r.k - 1) /\ LastRewrite(r)
  /\ r.pc = "upstream" => /\ FromStart(r.trail["request"], c, Len(c)) /\ LastRewrite(r)
                          /\ Buffered(r) => FromStart(r.trail["body"], c, Len(c))
                          /\ ~Buffered(r) => r.trail["body"] = <<>>
  /\ r.pc = "response" => /\ FromStart(r.trail["request"], c, Len(c))
                          /\ FromEnd(r.trail["response"], c, r.k - 1)
  /\ r.pc = "answered" /\ r.answer.streamed =>
       /\ r.gen \in Generation
       /\ FromStart(r.trail["request"], c, Len(c)) /\ FromEnd(r.trail["response"], c, Len(c))

Walked(r) ==
  /\ Shape(r) /\ r.gone \in BOOLEAN /\ r.pc \in Places
  /\ r.pc = "new" => r = Blank
  /\ r.gone => r.pc \in HookPhase
  /\ r.pc \in UnderWay =>
       /\ r.gen \in Generation /\ r.k \in 1..(Len(Chain[r.gen]) + 1)
       /\ r.trail \in [HookPhase -> Seq(Filter)] /\ r.edits \in [HookPhase -> Seq(Filter)]
  /\ ~r.gone => Progress(r)

\* Who waits for a buffer waits once, and is nowhere else.
Queue ==
  /\ waiting \in Seq(Task)
  /\ \A i, j \in 1..Len(waiting) : waiting[i] = waiting[j] => i = j
  /\ \A i \in 1..Len(waiting) : task[waiting[i]].pc = "queue"

WalkInv == Tabular(task) /\ (\A t \in Task : Walked(task[t])) /\ Queue /\ active \in Generation

LEMMA ChainFacts ==
  /\ 1 \in Generation /\ Generation \subseteq Nat
  /\ \A g \in Generation : Chain[g] \in Seq(Filter) /\ Len(Chain[g]) \in Nat
                           /\ DOMAIN Chain[g] = 1..Len(Chain[g])
BY ChainAssumption DEF ChainAssumption

LEMMA BlankWalked == \A x \in {"new", "sent"} : Walked([Blank EXCEPT !.pc = x])
<1> SUFFICES ASSUME NEW x \in {"new", "sent"}, NEW q, q = [Blank EXCEPT !.pc = x] PROVE Walked(q)
  OBVIOUS
<1>1. Shape(q) /\ q.pc = x /\ q.gone = FALSE
  BY DEF Shape, Blank
<1>2. x = "new" => q = Blank
  BY DEF Blank
<1> QED
  BY <1>1, <1>2 DEF Walked, Progress, Places, HookPhase, UnderWay

\* What goes out of an answer is one too, from the same source.
Answer(answer) == "streamed" \in DOMAIN answer /\ "headers" \in DOMAIN answer

Framed(t, answer) == [answer EXCEPT !.headers = attach_alt_svc(t, @)]

LEMMA FramedAnswer ==
  ASSUME NEW t, NEW answer, Answer(answer)
  PROVE  /\ Framed(t, answer).streamed = answer.streamed
         /\ Framed(t, answer).headers = attach_alt_svc(t, answer.headers)
<1>1. PICK hs : hs = attach_alt_svc(t, answer.headers)
  OBVIOUS
<1>2. Framed(t, answer) = [answer EXCEPT !.headers = hs]
  BY <1>1 DEF Framed
<1>3. \A a : a = [answer EXCEPT !.headers = hs] => a.streamed = answer.streamed /\ a.headers = hs
  BY DEF Answer
<1> QED
  BY <1>1, <1>2, <1>3

\* The step of the answer.
LEMMA RespondTo ==
  ASSUME NEW t \in Task, NEW answer, Respond(t, answer), NEW r, r = task[t]
  PROVE  task' = [task EXCEPT ![t] =
           IF r.gone THEN [Blank EXCEPT !.pc = "sent"]
           ELSE [(IF answer.streamed THEN r ELSE Blank) EXCEPT !.pc = "answered",
                                                              !.answer = Framed(t, answer)]]
BY DEF Respond, Framed

\* The request is answered: a streamed answer is the one whose hooks all passed.
LEMMA RespondWalked ==
  ASSUME WalkInv, NEW t \in Task, NEW answer, Respond(t, answer), Answer(answer),
         task[t].pc # "new",
         answer.streamed \in BOOLEAN,
         answer.streamed /\ ~task[t].gone =>
           /\ task[t].pc = "response" /\ task[t].k > Len(Chain[task[t].gen])
  PROVE  /\ Tabular(task)' /\ Walked(task'[t]) /\ \A u \in Task : u # t => task'[u] = task[u]
         /\ task'[t].pc \in {"answered", "sent"}
<1>1. PICK r : r = task[t] /\ Walked(r)
  BY DEF WalkInv
<1>0. PICK a : a = Framed(t, answer)
  OBVIOUS
<1>2. PICK q : q = IF r.gone THEN [Blank EXCEPT !.pc = "sent"]
                  ELSE [(IF answer.streamed THEN r ELSE Blank) EXCEPT !.pc = "answered",
                                                                     !.answer = a]
  OBVIOUS
<1>3. task' = [task EXCEPT ![t] = q]
  BY <1>0, <1>1, <1>2, RespondTo
<1>4. Tabular(task)' /\ task'[t] = q /\ \A u \in Task : u # t => task'[u] = task[u]
  BY <1>3 DEF WalkInv, Tabular
<1>5. Walked(q)
  <2>1. CASE r.gone
    BY <1>2, <2>1, BlankWalked
  <2>2. CASE ~r.gone /\ answer.streamed
    <3>1. q = [r EXCEPT !.pc = "answered", !.answer = a]
      BY <1>2, <2>2
    <3>2. /\ Shape(q) /\ q.pc = "answered" /\ q.gone = r.gone /\ q.gen = r.gen
          /\ q.trail = r.trail /\ q.answer = a
      BY <1>1, <3>1 DEF Shape, Walked
    <3>3. r.pc = "response" /\ r.k > Len(Chain[r.gen]) /\ r.gen \in Generation
          /\ r.k \in 1..(Len(Chain[r.gen]) + 1) /\ Progress(r)
      BY <1>1, <2>2 DEF Walked, UnderWay
    <3>4. r.k - 1 = Len(Chain[r.gen])
      <4>1. Len(Chain[r.gen]) \in Nat
        BY <3>3, ChainFacts
      <4> QED
        BY <3>3, <4>1
    <3>5. Progress(q)
      BY <3>2, <3>3, <3>4 DEF Progress
    <3> QED
      BY <1>1, <2>2, <3>2, <3>5 DEF Walked, Places, HookPhase, UnderWay
  <2>3. CASE ~r.gone /\ ~answer.streamed
    <3>1. q = [Blank EXCEPT !.pc = "answered", !.answer = a]
      BY <1>2, <2>3
    <3>2. Shape(q) /\ q.pc = "answered" /\ q.gone = FALSE /\ q.answer = a
      BY <3>1 DEF Shape, Blank
    <3>3. ~q.answer.streamed
      BY <1>0, <2>3, <3>2, FramedAnswer
    <3> QED
      BY <2>3, <3>2, <3>3 DEF Walked, Progress, Places, HookPhase, UnderWay
  <2> QED
    BY <2>1, <2>2, <2>3
<1>6. q.pc \in {"answered", "sent"}
  BY <1>1, <1>2 DEF Walked, Shape, Blank
<1> QED
  BY <1>4, <1>5, <1>6

\* What a step of t does to the transactions.
Moved(t) ==
  Tabular(task)' /\ Walked(task'[t]) /\ \A u \in Task : u # t => task'[u] = task[u]

LEMMA MovedTo ==
  ASSUME WalkInv, NEW t \in Task, NEW q, Walked(q), task' = [task EXCEPT ![t] = q]
  PROVE  Moved(t) /\ task'[t] = q
BY DEF WalkInv, Tabular, Moved

\* A step that leaves the queue and those in it alone.
LEMMA OutOfQueue ==
  ASSUME WalkInv, NEW t \in Task, Moved(t), waiting' = waiting, active' = active,
         task[t].pc # "queue"
  PROVE  WalkInv'
<1>1. \A u \in Task : Walked(task'[u])
  BY DEF WalkInv, Moved
<1>2. Queue'
  <2>1. \A i \in 1..Len(waiting) : waiting[i] \in Task
    BY DEF WalkInv, Queue
  <2>2. \A i \in 1..Len(waiting) : task'[waiting[i]] = task[waiting[i]]
    BY <2>1 DEF WalkInv, Queue, Moved
  <2> QED
    BY <2>2 DEF WalkInv, Queue
<1> QED
  BY <1>1, <1>2 DEF WalkInv, Moved

LEMMA Appended ==
  ASSUME NEW s \in Seq(Filter), NEW f \in Filter
  PROVE  /\ Append(s, f) \in Seq(Filter) /\ Len(Append(s, f)) = Len(s) + 1
         /\ Append(s, f)[Len(s) + 1] = f
         /\ \A i \in 1..Len(s) : Append(s, f)[i] = s[i]
         /\ Append(s, f) # <<>>
OBVIOUS

\* In a hook, the filter and its place in the chain.
LEMMA AtFilter ==
  ASSUME WalkInv, NEW t \in Task, InHook(t)
  PROVE  /\ task[t].pc \in HookPhase /\ task[t].gen \in Generation
         /\ task[t].k \in 1..Len(ChainOf(t)) /\ FilterAt(t) \in Filter
         /\ task[t].pc = "response" => FilterAt(t) = ChainOf(t)[Len(ChainOf(t)) + 1 - task[t].k]
         /\ task[t].pc # "response" => FilterAt(t) = ChainOf(t)[task[t].k]
<1>1. /\ task[t].pc \in HookPhase /\ task[t].gen \in Generation
      /\ task[t].k \in 1..(Len(Chain[task[t].gen]) + 1) /\ task[t].k <= Len(Chain[task[t].gen])
  BY DEF WalkInv, Walked, InHook, HookPhase, UnderWay, ChainOf
<1>2. ChainOf(t) \in Seq(Filter) /\ Len(ChainOf(t)) \in Nat
  BY <1>1, ChainFacts DEF ChainOf
<1>3. task[t].k \in 1..Len(ChainOf(t)) /\ Len(ChainOf(t)) + 1 - task[t].k \in 1..Len(ChainOf(t))
  BY <1>1, <1>2 DEF ChainOf
<1>4. /\ task[t].pc = "response" => FilterAt(t) = ChainOf(t)[Len(ChainOf(t)) + 1 - task[t].k]
      /\ task[t].pc # "response" => FilterAt(t) = ChainOf(t)[task[t].k]
  BY DEF FilterAt
<1>5. FilterAt(t) \in Filter
  BY <1>2, <1>3, <1>4
<1> QED
  BY <1>1, <1>3, <1>4, <1>5

\* A filter lets the transaction pass: the chain's next filter joins the trail.
LEMMA PassedWalked ==
  ASSUME WalkInv, NEW t \in Task, InHook(t)
  PROVE  /\ Walked(Passed(t)) /\ Passed(t).pc = task[t].pc
         /\ Passed(t).edits = task[t].edits /\ Passed(t).gone = task[t].gone
         /\ Passed(t).body = task[t].body
<1>1. PICK r : r = task[t] /\ Walked(r)
  BY DEF WalkInv
<1>2. PICK f : f = FilterAt(t)
  OBVIOUS
<1>3. PICK c : c = Chain[r.gen]
  OBVIOUS
<1>4. /\ r.pc \in HookPhase /\ r.gen \in Generation /\ r.k \in 1..Len(c) /\ f \in Filter
      /\ r.pc = "response" => f = c[Len(c) + 1 - r.k]
      /\ r.pc # "response" => f = c[r.k]
      /\ c \in Seq(Filter) /\ Len(c) \in Nat
  BY <1>1, <1>2, <1>3, AtFilter, ChainFacts DEF ChainOf
<1>5. PICK h : h = IF r.gone THEN r.trail ELSE [r.trail EXCEPT ![r.pc] = Append(@, f)]
  OBVIOUS
<1>6. PICK q : q = [r EXCEPT !.k = r.k + 1, !.trail = h]
  OBVIOUS
<1>7. q = Passed(t)
  BY <1>1, <1>2, <1>5, <1>6 DEF Passed, Noted
<1>8. /\ Shape(q) /\ q.pc = r.pc /\ q.gen = r.gen /\ q.k = r.k + 1 /\ q.trail = h
      /\ q.edits = r.edits /\ q.gone = r.gone /\ q.body = r.body /\ q.kind = r.kind
  BY <1>1, <1>6 DEF Shape, Walked
<1>9. r.trail \in [HookPhase -> Seq(Filter)] /\ r.edits \in [HookPhase -> Seq(Filter)]
  BY <1>1, <1>4 DEF Walked, UnderWay, HookPhase
<1>10. h \in [HookPhase -> Seq(Filter)]
  BY <1>4, <1>5, <1>9
<1>11. q.k \in 1..(Len(c) + 1)
  BY <1>4, <1>8
<1>12. ASSUME ~r.gone PROVE Progress(q)
  <2>1. Progress(r)
    BY <1>1, <1>12 DEF Walked
  <2>2. h = [r.trail EXCEPT ![r.pc] = Append(@, f)]
    BY <1>5, <1>12
  <2>3. /\ h[r.pc] = Append(r.trail[r.pc], f) /\ r.trail[r.pc] \in Seq(Filter)
        /\ \A x \in HookPhase : x # r.pc => h[x] = r.trail[x]
    BY <1>4, <1>9, <2>2
  <2>4. PICK s \in Seq(Filter) : s = r.trail[r.pc]
    BY <2>3
  <2>5. /\ Append(s, f) \in Seq(Filter) /\ Len(Append(s, f)) = Len(s) + 1
        /\ Append(s, f)[Len(s) + 1] = f
        /\ \A i \in 1..Len(s) : Append(s, f)[i] = s[i]
    BY <1>4, Appended
  <2>k. q.k - 1 = r.k /\ Chain[q.gen] = c /\ q.trail[r.pc] = Append(s, f)
        /\ \A x \in HookPhase : x # r.pc => q.trail[x] = r.trail[x]
    BY <1>3, <1>4, <1>8, <2>3, <2>4
  <2>6. CASE r.pc = "response"
    <3>1. FromStart(r.trail["request"], c, Len(c)) /\ FromEnd(s, c, r.k - 1)
      BY <1>3, <2>1, <2>4, <2>6 DEF Progress
    <3>2. FromEnd(Append(s, f), c, r.k)
      BY <1>4, <2>5, <2>6, <3>1 DEF FromEnd
    <3> QED
      BY <1>8, <2>k, <2>6, <3>1, <3>2, Zenon DEF Progress, HookPhase
  <2>7. CASE r.pc = "request"
    <3>1. FromStart(s, c, r.k - 1) /\ Untouched(r)
      BY <1>3, <2>1, <2>4, <2>7 DEF Progress
    <3>2. FromStart(Append(s, f), c, r.k)
      BY <1>4, <2>5, <2>7, <3>1 DEF FromStart
    <3>3. Untouched(q)
      BY <1>8, <2>3, <2>7, <3>1 DEF Untouched, HookPhase
    <3> QED
      BY <1>8, <2>k, <2>7, <3>2, <3>3, Zenon DEF Progress, HookPhase
  <2>8. CASE r.pc = "body"
    <3>1. /\ FromStart(r.trail["request"], c, Len(c)) /\ Buffered(r)
          /\ FromStart(s, c, r.k - 1) /\ LastRewrite(r)
      BY <1>3, <2>1, <2>4, <2>8 DEF Progress
    <3>2. FromStart(Append(s, f), c, r.k)
      BY <1>4, <2>5, <2>8, <3>1 DEF FromStart
    <3>3. LastRewrite(q) /\ Buffered(q)
      BY <1>8, <3>1 DEF LastRewrite, Buffered
    <3> QED
      BY <1>8, <2>k, <2>8, <3>1, <3>2, <3>3, Zenon DEF Progress, HookPhase
  <2> QED
    BY <1>4, <2>6, <2>7, <2>8 DEF HookPhase
<1>13. Walked(q)
  BY <1>1, <1>3, <1>4, <1>8, <1>9, <1>10, <1>11, <1>12 DEF Walked, HookPhase, Places, UnderWay
<1> QED
  BY <1>1, <1>7, <1>8, <1>13

\* The fields the walk does not depend on.
LEMMA IndifferentWalked ==
  ASSUME NEW r, Walked(r), NEW q, Shape(q), r.pc # "new", q.pc = r.pc, q.gone = r.gone,
         q.gen = r.gen, q.k = r.k, q.kind = r.kind, q.body = r.body, q.trail = r.trail,
         q.answer = r.answer,
         \/ q.edits = r.edits
         \/ r.pc \in {"request", "response"} /\ q.edits["body"] = r.edits["body"]
            /\ q.edits \in [HookPhase -> Seq(Filter)]
  PROVE  Walked(q)
<1>1. r.pc \in UnderWay => q.edits \in [HookPhase -> Seq(Filter)]
  BY DEF Walked
<1>2. ASSUME ~r.gone PROVE Progress(q)
  <2>1. Progress(r)
    BY <1>2 DEF Walked
  <2>2. Buffered(r) <=> Buffered(q)
    BY DEF Buffered
  <2>3. Untouched(r) <=> Untouched(q)
    BY DEF Untouched
  <2>4. LastRewrite(r) <=> LastRewrite(q)
    BY DEF LastRewrite
  <2> QED
    BY <2>1, <2>2, <2>3, <2>4, Zenon DEF Progress
<1> QED
  BY <1>1, <1>2 DEF Walked

LEMMA EditedWalked ==
  ASSUME WalkInv, NEW t \in Task, InHook(t), Entered(t), ~task[t].gone, HookModifies(t)
  PROVE  Moved(t) /\ task'[t].pc = task[t].pc /\ task'[t].gone = task[t].gone
<1>1. PICK p : p = Passed(t)
  OBVIOUS
<1>2. /\ Walked(p) /\ p.pc = task[t].pc /\ p.edits = task[t].edits /\ p.gone = task[t].gone
      /\ p.body = task[t].body
  BY <1>1, PassedWalked
<1>3. PICK f : f = FilterAt(t)
  OBVIOUS
<1>4. /\ p.pc \in HookPhase /\ f \in Filter /\ p.edits \in [HookPhase -> Seq(Filter)]
      /\ p.edits[p.pc] \in Seq(Filter)
  BY <1>2, <1>3, AtFilter DEF Walked, UnderWay, HookPhase
<1>5. PICK n : n = [p.edits EXCEPT ![p.pc] = Append(@, f)]
  OBVIOUS
<1>6. /\ n \in [HookPhase -> Seq(Filter)] /\ n[p.pc] = Append(p.edits[p.pc], f)
      /\ \A x \in HookPhase : x # p.pc => n[x] = p.edits[x]
  BY <1>4, <1>5
<1>7. PICK e : e = [p EXCEPT !.edits = n]
  OBVIOUS
<1>8. e = Edited(t)
  BY <1>1, <1>2, <1>3, <1>5, <1>7 DEF Edited, Noted
<1>9. /\ Shape(e) /\ e.pc = p.pc /\ e.gone = p.gone /\ e.gen = p.gen /\ e.k = p.k
      /\ e.kind = p.kind /\ e.body = p.body /\ e.trail = p.trail /\ e.edits = n
      /\ e.answer = p.answer
  BY <1>2, <1>7 DEF Shape, Walked
<1>10. PICK q : q = CASE e.pc = "request"  -> [e EXCEPT !.headers = apply_request_edit(@, RequestEdit[f])]
                      [] e.pc = "body"     -> [e EXCEPT !.body = f]
                      [] e.pc = "response" -> apply_response_edit(e, ResponseEdit[f])
  OBVIOUS
<1>11. task' = [task EXCEPT ![t] = q]
  BY <1>3, <1>8, <1>10 DEF HookModifies
<1>12. CASE p.pc = "request" \/ p.pc = "response"
  <2>1. /\ Shape(q) /\ q.pc = p.pc /\ q.gone = p.gone /\ q.gen = p.gen /\ q.k = p.k
        /\ q.kind = p.kind /\ q.body = p.body /\ q.trail = p.trail /\ q.edits = n
        /\ q.answer = p.answer
    <3>1. CASE p.pc = "request"
      <4>1. PICK hs : q = [e EXCEPT !.headers = hs]
        BY <1>9, <1>10, <3>1
      <4> QED
        BY <1>9, <4>1 DEF Shape
    <3>2. CASE p.pc = "response"
      <4>1. PICK st, hs : q = [e EXCEPT !.status = st, !.headers = hs]
        <5>1. q = apply_response_edit(e, ResponseEdit[f])
          BY <1>9, <1>10, <3>2
        <5> QED
          BY <5>1, Zenon DEF apply_response_edit
      <4> QED
        BY <1>9, <4>1 DEF Shape
    <3> QED
      BY <1>12, <3>1, <3>2
  <2>2. n["body"] = p.edits["body"] /\ p.pc \in {"request", "response"} /\ p.pc # "new"
    BY <1>6, <1>12 DEF HookPhase
  <2>3. Walked(q)
    BY <1>2, <1>6, <2>1, <2>2, IndifferentWalked
  <2> QED
    BY <1>2, <1>11, <2>1, <2>3, MovedTo
<1>13. CASE p.pc = "body"
  <2>1. q = [e EXCEPT !.body = f]
    BY <1>9, <1>10, <1>13
  <2>2. /\ Shape(q) /\ q.pc = p.pc /\ q.gone = p.gone /\ q.gen = p.gen /\ q.k = p.k
        /\ q.kind = p.kind /\ q.body = f /\ q.trail = p.trail /\ q.edits = n
    BY <1>9, <2>1 DEF Shape
  <2>3. LastRewrite(q)
    <3>1. PICK s \in Seq(Filter) : s = p.edits["body"]
      BY <1>4, <1>13
    <3>2. /\ n["body"] = Append(s, f) /\ Append(s, f) # <<>>
          /\ Append(s, f)[Len(Append(s, f))] = f
      BY <1>4, <1>6, <1>13, <3>1, Appended
    <3> QED
      BY <2>2, <3>2 DEF LastRewrite
  <2>4. Progress(q)
    <3>1. Progress(p) /\ Buffered(p) = Buffered(q)
      BY <1>2, <2>2 DEF Walked, Buffered
    <3> QED
      BY <1>13, <2>2, <2>3, <3>1, Zenon DEF Progress
  <2>5. Walked(q)
    BY <1>2, <1>6, <1>13, <2>2, <2>4 DEF Walked, UnderWay
  <2> QED
    BY <1>2, <1>11, <2>2, <2>5, MovedTo
<1> QED
  BY <1>4, <1>12, <1>13 DEF HookPhase

\* Only the end of the response chain makes a streamed answer.
Unstreamed(answer) == Answer(answer) /\ answer.streamed = FALSE

LEMMA Synthetic ==
  /\ \A resp : Unstreamed(http_response(resp))
  /\ \A status, fault : Unstreamed(synth(status, fault))
  /\ \A err, original : Unstreamed(Delivered(fail_closed_response(err), original))
  /\ \A resp, original : /\ Answer(Delivered(resp, original))
                         /\ Delivered(resp, original).streamed \in BOOLEAN
<1>1. \A resp : Unstreamed(http_response(resp))
  BY DEF http_response, Unstreamed, Answer
<1>2. \A status, fault : Unstreamed(synth(status, fault))
  BY DEF synth, Unstreamed, Answer
<1>3. \A resp, original : /\ Answer(stream_response(resp, original))
                         /\ stream_response(resp, original).streamed = TRUE
  BY DEF stream_response, Answer
<1>4. \A err : fail_closed_response(err).body # ""
  BY DEF fail_closed_response, FaultResponse
<1> QED
  BY <1>1, <1>2, <1>3, <1>4 DEF Delivered, Unstreamed

\* The hooks.
LEMMA HookMoves ==
  ASSUME WalkInv, NEW t \in Task, HookEnds(t)
  PROVE  /\ Moved(t) /\ task[t].pc \in HookPhase /\ waiting' = waiting /\ active' = active
<1>1. CASE HookContinues(t)
  BY <1>1, PassedWalked, MovedTo DEF HookContinues, InHook
<1>2. CASE HookModifies(t)
  BY <1>2, EditedWalked DEF HookModifies, InHook
<1>3. CASE HookShortCircuits(t)
  <2>1. PICK answer : Respond(t, answer) /\ Unstreamed(answer)
    BY <1>3, Synthetic DEF HookShortCircuits
  <2>2. task[t].pc \in HookPhase /\ task[t].pc # "new"
    BY <1>3 DEF HookShortCircuits, InHook, HookPhase
  <2> QED
    BY <1>3, <2>1, <2>2, RespondWalked DEF Moved, HookShortCircuits, Unstreamed
<1>4. CASE \E err \in RunErrors : HookFails(t, err)
  <2>0. PICK err \in RunErrors : HookFails(t, err)
    BY <1>4
  <2>1. PICK answer : Respond(t, answer) /\ Unstreamed(answer)
    BY <2>0, Synthetic DEF HookFails
  <2>2. task[t].pc \in HookPhase /\ task[t].pc # "new"
    BY <2>0 DEF HookFails, InHook, HookPhase
  <2> QED
    BY <2>0, <2>1, <2>2, RespondWalked DEF Moved, HookFails, Unstreamed
<1> QED
  BY <1>1, <1>2, <1>3, <1>4 DEF HookEnds

----------------------------------------------------------------------------
\* Between the hooks.

LEMMA GoToMoved ==
  ASSUME WalkInv, NEW t \in Task, NEW x, GoTo(t, x),
         ~task[t].gone => \A q : q = [task[t] EXCEPT !.pc = x, !.k = 1] => Walked(q)
  PROVE  /\ Moved(t)
         /\ task[t].gone => task'[t] = [Blank EXCEPT !.pc = "sent"]
         /\ ~task[t].gone => task'[t] = [task[t] EXCEPT !.pc = x, !.k = 1]
<1>1. PICK q : q = IF task[t].gone THEN [Blank EXCEPT !.pc = "sent"]
                  ELSE [task[t] EXCEPT !.pc = x, !.k = 1]
  OBVIOUS
<1>2. Walked(q)
  BY <1>1, BlankWalked
<1>3. task' = [task EXCEPT ![t] = q]
  BY <1>1 DEF GoTo
<1>4. Moved(t) /\ task'[t] = q
  BY <1>2, <1>3, MovedTo
<1> QED
  BY <1>1, <1>4

LEMMA ArriveMoved ==
  ASSUME WalkInv, NEW t \in Task, NEW kind, Arrive(t, kind)
  PROVE  Moved(t) /\ task'[t].pc = "request" /\ task'[t].gone = FALSE
<1>1. PICK hs : task' = [task EXCEPT ![t] = [@ EXCEPT !.pc = "request", !.gen = active,
                                             !.kind = kind, !.k = 1, !.headers = hs]]
  BY DEF Arrive
<1>2. task[t] = Blank
  BY DEF WalkInv, Walked, Arrive
<1>3. PICK q : q = [Blank EXCEPT !.pc = "request", !.gen = active, !.kind = kind, !.k = 1,
                                 !.headers = hs]
  OBVIOUS
<1>4. /\ Shape(q) /\ q.pc = "request" /\ q.gen = active /\ q.k = 1 /\ q.gone = FALSE
      /\ q.trail = NoHooks /\ q.edits = NoHooks /\ q.body = NONE
  BY <1>3 DEF Blank, Shape
<1>5. NoHooks \in [HookPhase -> Seq(Filter)] /\ NoHooks["request"] = <<>> /\ NoHooks["body"] = <<>>
  BY DEF NoHooks, HookPhase
<1>6. Len(Chain[active]) \in Nat
  BY ChainFacts DEF WalkInv
<1>7. Progress(q)
  <2>1. FromStart(<<>>, Chain[active], 0)
    BY DEF FromStart
  <2>2. q.k - 1 = 0 /\ Untouched(q)
    BY <1>4, <1>5 DEF Untouched
  <2> QED
    BY <1>4, <1>5, <2>1, <2>2 DEF Progress
<1>8. Walked(q)
  <2>1. active \in Generation /\ 1 \in 1..(Len(Chain[active]) + 1)
    BY <1>6 DEF WalkInv
  <2>2. q.pc \in Places /\ q.pc # "new" /\ q.gone \in BOOLEAN /\ ~q.gone
    BY <1>4 DEF Places
  <2> QED
    BY <1>4, <1>5, <1>7, <2>1, <2>2 DEF Walked
<1>9. task' = [task EXCEPT ![t] = q]
  BY <1>1, <1>2, <1>3
<1>10. Moved(t) /\ task'[t] = q
  BY <1>8, <1>9, MovedTo
<1> QED
  BY <1>4, <1>10

\* At the end of a chain the counter is one past it.
LEMMA AtEnd ==
  ASSUME WalkInv, NEW t \in Task, ChainPassed(t)
  PROVE  /\ task[t].gen \in Generation /\ task[t].k - 1 = Len(Chain[task[t].gen])
         /\ task[t].k > Len(Chain[task[t].gen])
         /\ Len(Chain[task[t].gen]) \in Nat
<1>1. /\ task[t].gen \in Generation /\ task[t].k \in 1..(Len(Chain[task[t].gen]) + 1)
      /\ task[t].k > Len(Chain[task[t].gen])
  BY DEF WalkInv, Walked, ChainPassed, ChainOf, HookPhase, UnderWay
<1>2. Len(Chain[task[t].gen]) \in Nat
  BY <1>1, ChainFacts
<1> QED
  BY <1>1, <1>2

LEMMA RequestPassed ==
  ASSUME WalkInv, NEW t \in Task, RequestChainPasses(t)
  PROVE  WalkInv'
<1>1. PICK r : r = task[t] /\ Walked(r)
  BY DEF WalkInv
<1>2. /\ r.pc = "request" /\ r.gen \in Generation /\ r.k - 1 = Len(Chain[r.gen])
      /\ Len(Chain[r.gen]) \in Nat
  BY <1>1, AtEnd DEF RequestChainPasses
<1>3. BodyIsNext(t) <=> Buffered(r)
  BY <1>1, <1>2 DEF BodyIsNext, Buffered, route_reads_body, ChainOf
<1>4. ASSUME ~r.gone PROVE FromStart(r.trail["request"], Chain[r.gen], Len(Chain[r.gen])) /\ Untouched(r)
  BY <1>1, <1>2, <1>4 DEF Walked, Progress
<1>5. ASSUME NEW x \in {"queue", "upstream"}, NEW q, q = [r EXCEPT !.pc = x, !.k = 1], ~r.gone,
             x = "queue" <=> Buffered(r)
      PROVE  Walked(q)
  <2>1. /\ Shape(q) /\ q.pc = x /\ q.gone = r.gone /\ q.gen = r.gen /\ q.k = 1
        /\ q.kind = r.kind /\ q.body = r.body /\ q.trail = r.trail /\ q.edits = r.edits
    BY <1>1, <1>5 DEF Shape, Walked
  <2>2. Untouched(q) /\ Buffered(q) = Buffered(r) /\ LastRewrite(q)
    BY <1>4, <1>5, <2>1 DEF Untouched, Buffered, LastRewrite
  <2>3. q.trail["body"] = <<>>
    BY <2>2 DEF Untouched
  <2>4. Progress(q)
    BY <1>4, <1>5, <2>1, <2>2, <2>3 DEF Progress
  <2> QED
    BY <1>1, <1>2, <1>5, <2>1, <2>4 DEF Walked, UnderWay, Places, HookPhase
<1>6. CASE BodyIsNext(t) /\ ~r.gone
  <2>1. GoTo(t, "queue") /\ waiting' = Append(waiting, t) /\ active' = active
    BY <1>1, <1>6 DEF RequestChainPasses
  <2>2. Moved(t) /\ task'[t] = [r EXCEPT !.pc = "queue", !.k = 1]
    BY <1>1, <1>3, <1>5, <1>6, <2>1, GoToMoved
  <2>3. task'[t].pc = "queue"
    BY <1>1, <2>2 DEF Shape, Walked
  <2>4. /\ waiting \in Seq(Task) /\ Len(waiting) \in Nat
        /\ \A i \in 1..Len(waiting) : /\ waiting[i] \in Task
                                       /\ task[waiting[i]].pc = "queue" /\ waiting[i] # t
    BY <1>1, <1>2 DEF WalkInv, Queue
  <2>5. /\ waiting' \in Seq(Task) /\ Len(waiting') = Len(waiting) + 1
        /\ waiting'[Len(waiting) + 1] = t
        /\ \A i \in 1..Len(waiting) : waiting'[i] = waiting[i]
    BY <2>1, <2>4
  <2>6. \A i \in 1..Len(waiting') : i \in 1..Len(waiting) \/ i = Len(waiting) + 1
    BY <2>4, <2>5
  <2>7. \A i, j \in 1..Len(waiting') : waiting'[i] = waiting'[j] => i = j
    BY <2>4, <2>5, <2>6 DEF WalkInv, Queue
  <2>8. \A i \in 1..Len(waiting') : task'[waiting'[i]].pc = "queue"
    <3>1. SUFFICES ASSUME NEW i \in 1..Len(waiting') PROVE task'[waiting'[i]].pc = "queue"
      OBVIOUS
    <3>2. CASE i = Len(waiting) + 1
      BY <2>3, <2>5, <3>2
    <3>3. CASE i \in 1..Len(waiting)
      <4>1. waiting'[i] = waiting[i] /\ waiting[i] \in Task /\ waiting[i] # t
            /\ task[waiting[i]].pc = "queue"
        BY <2>4, <2>5, <3>3
      <4>2. task'[waiting[i]] = task[waiting[i]]
        BY <2>2, <4>1 DEF Moved
      <4> QED
        BY <4>1, <4>2
    <3> QED
      BY <2>6, <3>2, <3>3
  <2>9. Queue'
    BY <2>5, <2>7, <2>8 DEF Queue
  <2> QED
    BY <2>1, <2>2, <2>9 DEF WalkInv, Moved
<1>7. CASE ~(BodyIsNext(t) /\ ~r.gone)
  <2>1. GoTo(t, "upstream") /\ waiting' = waiting /\ active' = active
    BY <1>1, <1>7 DEF RequestChainPasses
  <2>2. ~r.gone => ~Buffered(r)
    BY <1>3, <1>7
  <2>3. ~r.gone => \A q : q = [r EXCEPT !.pc = "upstream", !.k = 1] => Walked(q)
    BY <1>5, <2>2
  <2>4. Moved(t)
    BY <1>1, <2>1, <2>3, GoToMoved
  <2> QED
    BY <1>1, <1>2, <2>1, <2>4, OutOfQueue
<1> QED
  BY <1>6, <1>7

LEMMA BufferAcquired ==
  ASSUME WalkInv, NEW t \in Task, AcquireBuffer(t)
  PROVE  WalkInv' /\ Moved(t) /\ task[t].pc = "queue" /\ task'[t].pc = "read" /\ ~task'[t].gone
<1>1. /\ waiting \in Seq(Task) /\ waiting # <<>> /\ t = waiting[1] /\ Len(waiting) \in Nat
      /\ 1 \in 1..Len(waiting)
  BY DEF WalkInv, Queue, AcquireBuffer
<1>2. PICK r : r = task[t] /\ Walked(r)
  BY DEF WalkInv
<1>3. r.pc = "queue" /\ ~r.gone
  BY <1>1, <1>2 DEF WalkInv, Queue, Walked, HookPhase
<1>4. PICK q : q = [r EXCEPT !.pc = "read"]
  OBVIOUS
<1>5. /\ Shape(q) /\ q.pc = "read" /\ q.gone = r.gone /\ q.gen = r.gen /\ q.k = r.k
      /\ q.kind = r.kind /\ q.body = r.body /\ q.trail = r.trail /\ q.edits = r.edits
  BY <1>2, <1>4 DEF Shape, Walked
<1>6. Walked(q)
  <2>1. Untouched(q) = Untouched(r) /\ Buffered(q) = Buffered(r) /\ Progress(r)
    BY <1>2, <1>3, <1>5 DEF Untouched, Buffered, Walked
  <2>2. Progress(q)
    BY <1>3, <1>5, <2>1 DEF Progress
  <2> QED
    BY <1>2, <1>3, <1>5, <2>2 DEF Walked, UnderWay, Places
<1>7. task' = [task EXCEPT ![t] = q]
  BY <1>2, <1>4 DEF AcquireBuffer
<1>8. Moved(t) /\ task'[t] = q
  BY <1>6, <1>7, MovedTo
<1>9. Queue'
  <2>1. /\ waiting' \in Seq(Task) /\ Len(waiting') = Len(waiting) - 1
        /\ \A i \in 1..Len(waiting') : waiting'[i] = waiting[i + 1] /\ i + 1 \in 1..Len(waiting)
    BY <1>1 DEF AcquireBuffer
  <2>2. \A i, j \in 1..Len(waiting') : waiting'[i] = waiting'[j] => i = j
    BY <1>1, <2>1 DEF WalkInv, Queue
  <2>3. ASSUME NEW i \in 1..Len(waiting') PROVE task'[waiting'[i]].pc = "queue"
    <3>1. /\ waiting'[i] = waiting[i + 1] /\ i + 1 \in 1..Len(waiting) /\ i + 1 # 1
          /\ waiting[i + 1] \in Task
      BY <1>1, <2>1
    <3>2. waiting[i + 1] # t /\ task[waiting[i + 1]].pc = "queue"
      BY <1>1, <3>1 DEF WalkInv, Queue
    <3>3. task'[waiting[i + 1]] = task[waiting[i + 1]]
      BY <1>8, <3>1, <3>2 DEF Moved
    <3> QED
      BY <3>1, <3>2, <3>3
  <2> QED
    BY <2>1, <2>2, <2>3 DEF Queue
<1> QED
  BY <1>2, <1>3, <1>5, <1>8, <1>9 DEF WalkInv, Moved, AcquireBuffer

LEMMA BodyIsRead ==
  ASSUME WalkInv, NEW t \in Task, BodyRead(t)
  PROVE  Moved(t) /\ task'[t].pc = "body" /\ ~task'[t].gone /\ ~task[t].gone
<1>1. PICK r : r = task[t] /\ Walked(r)
  BY DEF WalkInv
<1>2. r.pc = "read" /\ ~r.gone /\ GoTo(t, "body")
  BY <1>1 DEF BodyRead, Walked, HookPhase
<1>3. PICK q : q = [r EXCEPT !.pc = "body", !.k = 1]
  OBVIOUS
<1>4. /\ Shape(q) /\ q.pc = "body" /\ q.gone = r.gone /\ q.gen = r.gen /\ q.k = 1
      /\ q.kind = r.kind /\ q.body = r.body /\ q.trail = r.trail /\ q.edits = r.edits
  BY <1>1, <1>3 DEF Shape, Walked
<1>5. /\ Untouched(r) /\ Buffered(r) /\ r.gen \in Generation
      /\ FromStart(r.trail["request"], Chain[r.gen], Len(Chain[r.gen]))
  BY <1>1, <1>2 DEF Walked, Progress, UnderWay
<1>6. /\ LastRewrite(q) /\ Buffered(q) /\ q.trail["body"] = <<>> /\ q.k - 1 = 0
  BY <1>4, <1>5 DEF Untouched, LastRewrite, Buffered
<1>7. FromStart(<<>>, Chain[q.gen], 0)
  BY DEF FromStart
<1>8. Progress(q)
  BY <1>4, <1>5, <1>6, <1>7 DEF Progress
<1>9. Len(Chain[r.gen]) \in Nat
  BY <1>5, ChainFacts
<1>10. Walked(q)
  BY <1>1, <1>2, <1>4, <1>8, <1>9 DEF Walked, UnderWay, Places
<1>11. \A p : p = [task[t] EXCEPT !.pc = "body", !.k = 1] => Walked(p)
  BY <1>1, <1>3, <1>10
<1>12. Moved(t) /\ task'[t] = q
  BY <1>1, <1>2, <1>3, <1>11, GoToMoved
<1> QED
  BY <1>1, <1>2, <1>4, <1>12

LEMMA BodyPassed ==
  ASSUME WalkInv, NEW t \in Task, BodyChainPasses(t)
  PROVE  Moved(t) /\ task'[t].pc \in {"upstream", "sent"}
<1>1. PICK r : r = task[t] /\ Walked(r)
  BY DEF WalkInv
<1>2. /\ r.pc = "body" /\ r.gen \in Generation /\ r.k - 1 = Len(Chain[r.gen])
      /\ Len(Chain[r.gen]) \in Nat /\ GoTo(t, "upstream")
  BY <1>1, AtEnd DEF BodyChainPasses
<1>3. PICK q : q = [r EXCEPT !.pc = "upstream", !.k = 1]
  OBVIOUS
<1>4. /\ Shape(q) /\ q.pc = "upstream" /\ q.gone = r.gone /\ q.gen = r.gen /\ q.k = 1
      /\ q.kind = r.kind /\ q.body = r.body /\ q.trail = r.trail /\ q.edits = r.edits
  BY <1>1, <1>3 DEF Shape, Walked
<1>5. ASSUME ~r.gone PROVE Walked(q)
  <2>1. /\ Buffered(r) /\ LastRewrite(r)
        /\ FromStart(r.trail["request"], Chain[r.gen], Len(Chain[r.gen]))
        /\ FromStart(r.trail["body"], Chain[r.gen], Len(Chain[r.gen]))
    BY <1>1, <1>2, <1>5 DEF Walked, Progress
  <2>2. LastRewrite(q) /\ Buffered(q)
    BY <1>4, <2>1 DEF LastRewrite, Buffered
  <2>3. Progress(q)
    BY <1>4, <2>1, <2>2 DEF Progress
  <2> QED
    BY <1>1, <1>2, <1>4, <1>5, <2>3 DEF Walked, UnderWay, Places
<1>6. /\ Moved(t)
      /\ r.gone => task'[t] = [Blank EXCEPT !.pc = "sent"]
      /\ ~r.gone => task'[t] = q
  BY <1>1, <1>2, <1>3, <1>5, GoToMoved
<1>7. [Blank EXCEPT !.pc = "sent"].pc = "sent"
  BY DEF Blank
<1> QED
  BY <1>4, <1>6, <1>7

\* The answers made here, in dispatch and in forward.
LEMMA Refusals ==
  ASSUME WalkInv, NEW t \in Task,
         Refused(t) \/ BodyRefused(t) \/ UpstreamFails(t)
  PROVE  /\ Moved(t) /\ task[t].pc \in {"request", "body", "read", "upstream"}
         /\ waiting' = waiting /\ active' = active
<1>1. PICK answer : Respond(t, answer) /\ Unstreamed(answer)
  BY Synthetic DEF Refused, BodyRefused, UpstreamFails
<1>2. /\ task[t].pc \in {"request", "body", "read", "upstream"}
      /\ waiting' = waiting /\ active' = active
  BY DEF Refused, BodyRefused, UpstreamFails
<1> QED
  BY <1>1, <1>2, RespondWalked DEF Moved, Unstreamed

LEMMA UpstreamAnswered ==
  ASSUME WalkInv, NEW t \in Task, UpstreamAnswers(t)
  PROVE  Moved(t) /\ task'[t].pc = "response"
<1>1. PICK r : r = task[t] /\ Walked(r)
  BY DEF WalkInv
<1>2. r.pc = "upstream" /\ ~r.gone
  BY <1>1 DEF UpstreamAnswers, Walked, HookPhase
<1>3. PICK h : h = [NoHooks EXCEPT !["request"] = r.trail["request"]]
  OBVIOUS
<1>4. PICK q, hs : /\ q = [Blank EXCEPT !.pc = "response", !.gen = r.gen, !.k = 1,
                             !.calls = r.calls, !.trail = h, !.status = 200, !.headers = hs]
                   /\ task' = [task EXCEPT ![t] = q]
  BY <1>1, <1>3 DEF UpstreamAnswers
<1>5. /\ Shape(q) /\ q.pc = "response" /\ q.gone = FALSE /\ q.gen = r.gen /\ q.k = 1
      /\ q.trail = h /\ q.edits = NoHooks
  BY <1>4 DEF Shape, Blank
<1>6. /\ r.gen \in Generation /\ FromStart(r.trail["request"], Chain[r.gen], Len(Chain[r.gen]))
      /\ r.trail \in [HookPhase -> Seq(Filter)] /\ r.trail["request"] \in Seq(Filter)
  BY <1>1, <1>2 DEF Walked, Progress, UnderWay, HookPhase
<1>7. /\ NoHooks \in [HookPhase -> Seq(Filter)] /\ h \in [HookPhase -> Seq(Filter)]
      /\ h["request"] = r.trail["request"] /\ h["response"] = <<>>
  <2>1. /\ NoHooks \in [HookPhase -> Seq(Filter)] /\ NoHooks["response"] = <<>>
        /\ "request" \in HookPhase /\ "response" \in HookPhase
    BY DEF NoHooks, HookPhase
  <2> QED
    BY <1>3, <1>6, <2>1
<1>8. Progress(q)
  <2>1. FromEnd(<<>>, Chain[r.gen], 0) /\ q.k - 1 = 0
    BY <1>5 DEF FromEnd
  <2> QED
    BY <1>5, <1>6, <1>7, <2>1 DEF Progress
<1>9. Len(Chain[r.gen]) \in Nat
  BY <1>6, ChainFacts
<1>10. Walked(q)
  <2>1. 1 \in 1..(Len(Chain[r.gen]) + 1)
    BY <1>9
  <2>2. q.pc \in Places /\ q.pc # "new" /\ q.gone \in BOOLEAN /\ ~q.gone
    BY <1>5 DEF Places
  <2> QED
    BY <1>5, <1>6, <1>7, <1>8, <2>1, <2>2 DEF Walked
<1> QED
  BY <1>4, <1>5, <1>10, MovedTo

LEMMA ResponsePassed ==
  ASSUME WalkInv, NEW t \in Task, ResponseChainPasses(t)
  PROVE  Moved(t) /\ task[t].pc = "response"
<1>1. task[t].pc = "response" /\ ChainPassed(t)
  BY DEF ResponseChainPasses
<1>2. task[t].k > Len(Chain[task[t].gen])
  BY <1>1, AtEnd
<1>3. PICK answer : Respond(t, answer) /\ Answer(answer) /\ answer.streamed \in BOOLEAN
  BY Synthetic DEF ResponseChainPasses
<1> QED
  BY <1>1, <1>2, <1>3, RespondWalked DEF Moved

LEMMA SentMoved ==
  ASSUME WalkInv, NEW t \in Task, Sent(t)
  PROVE  Moved(t) /\ task[t].pc = "answered" /\ task'[t].pc = "sent"
<1>1. PICK q : q = [Blank EXCEPT !.pc = "sent"]
  OBVIOUS
<1>2. Walked(q) /\ q.pc = "sent"
  BY <1>1, BlankWalked DEF Blank
<1>3. task' = [task EXCEPT ![t] = q] /\ task[t].pc = "answered"
  BY <1>1 DEF Sent
<1> QED
  BY <1>2, <1>3, MovedTo

LEMMA FrontPart ==
  ASSUME NEW s \in Seq(Task), NEW k \in 1..Len(s), NEW a, a = SubSeq(s, 1, k - 1)
  PROVE  a \in Seq(Task) /\ Len(a) = k - 1 /\ \A i \in 1..(k - 1) : a[i] = s[i]
OBVIOUS

LEMMA BackPart ==
  ASSUME NEW s \in Seq(Task), NEW k \in 1..Len(s), NEW b, b = SubSeq(s, k + 1, Len(s))
  PROVE  b \in Seq(Task) /\ Len(b) = Len(s) - k /\ \A i \in 1..(Len(s) - k) : b[i] = s[i + k]
OBVIOUS

LEMMA Joined ==
  ASSUME NEW a \in Seq(Task), NEW b \in Seq(Task), NEW q, q = a \o b
  PROVE  /\ q \in Seq(Task) /\ Len(q) = Len(a) + Len(b)
         /\ \A i \in 1..Len(a) : q[i] = a[i]
         /\ \A i \in 1..Len(b) : q[Len(a) + i] = b[i]
OBVIOUS

\* A sequence without its element k.
LEMMA Removed ==
  ASSUME NEW s \in Seq(Task), NEW k \in 1..Len(s), NEW q, q = RemoveAt(s, k)
  PROVE  /\ q \in Seq(Task) /\ Len(q) = Len(s) - 1
         /\ \A i \in 1..(k - 1) : q[i] = s[i]
         /\ \A i \in k..(Len(s) - 1) : q[i] = s[i + 1]
<1>1. PICK a, b : a = SubSeq(s, 1, k - 1) /\ b = SubSeq(s, k + 1, Len(s)) /\ q = a \o b
  BY DEF RemoveAt
<1>2. /\ a \in Seq(Task) /\ Len(a) = k - 1 /\ \A i \in 1..(k - 1) : a[i] = s[i]
      /\ b \in Seq(Task) /\ Len(b) = Len(s) - k /\ \A i \in 1..(Len(s) - k) : b[i] = s[i + k]
  BY <1>1, FrontPart, BackPart
<1>3. /\ q \in Seq(Task) /\ Len(q) = Len(a) + Len(b)
      /\ \A i \in 1..Len(a) : q[i] = a[i]
      /\ \A i \in 1..Len(b) : q[Len(a) + i] = b[i]
  <2>1. a \in Seq(Task) /\ b \in Seq(Task) /\ q = a \o b
    BY <1>1, <1>2
  <2> QED
    BY <2>1, Joined
<1>4. Len(s) \in Nat /\ Len(a) + Len(b) = Len(s) - 1
  BY <1>2
<1>5. \A i \in 1..(k - 1) : q[i] = s[i]
  BY <1>2, <1>3
<1>6. ASSUME NEW i \in k..(Len(s) - 1) PROVE q[i] = s[i + 1]
  <2>1. /\ i - (k - 1) \in 1..Len(b) /\ i - (k - 1) \in 1..(Len(s) - k)
        /\ i - (k - 1) + k = i + 1 /\ Len(a) + (i - (k - 1)) = i
    BY <1>2, <1>4
  <2>2. q[Len(a) + (i - (k - 1))] = b[i - (k - 1)] /\ b[i - (k - 1)] = s[i - (k - 1) + k]
    BY <1>2, <1>3, <2>1, Zenon
  <2> QED
    BY <2>1, <2>2
<1> QED
  BY <1>3, <1>4, <1>5, <1>6

\* Nobody stands in the queue s twice.
Distinct(s) ==
  \A i, j \in 1..Len(s) : s[i] = s[j] => i = j

\* The queue w is what is left of s once t has gone: every place in it is held by
\* somebody of s other than t, and by nobody twice.
LeftOf(w, s, t) ==
  /\ w \in Seq(Task)
  /\ Distinct(w)
  /\ \A i \in 1..Len(w) : w[i] # t /\ \E j \in 1..Len(s) : w[i] = s[j]

\* Taking t, which is there at most once, out of a queue (Disconnect: the queued
\* acquire is dropped with its future).
LEMMA WithoutIsOut ==
  ASSUME NEW s \in Seq(Task), NEW t, Distinct(s)
  PROVE  LeftOf(Without(s, t), s, t)
<1>0. DOMAIN s = 1..Len(s) /\ Len(s) \in Nat
  OBVIOUS
<1>1. CASE \A i \in 1..Len(s) : s[i] # t
  <2>1. Without(s, t) = s
    BY <1>0, <1>1 DEF Without
  <2> QED
    BY <1>0, <1>1, <2>1 DEF LeftOf
<1>2. CASE \E i \in 1..Len(s) : s[i] = t
  <2>1. PICK k \in 1..Len(s) : s[k] = t /\ Without(s, t) = RemoveAt(s, k)
    <3>1. Without(s, t) = RemoveAt(s, CHOOSE i \in DOMAIN s : s[i] = t)
      BY <1>0, <1>2 DEF Without
    <3>2. /\ (CHOOSE i \in DOMAIN s : s[i] = t) \in 1..Len(s)
          /\ s[CHOOSE i \in DOMAIN s : s[i] = t] = t
      BY <1>0, <1>2
    <3> QED
      BY <3>1, <3>2
  <2>4. PICK q : q = Without(s, t)
    OBVIOUS
  <2>5. /\ q \in Seq(Task) /\ Len(q) = Len(s) - 1
        /\ \A i \in 1..(k - 1) : q[i] = s[i]
        /\ \A i \in k..(Len(s) - 1) : q[i] = s[i + 1]
    <3>1. q = RemoveAt(s, k)
      BY <2>1, <2>4
    <3> QED
      BY <3>1, Removed
  <2>6. ASSUME NEW i \in 1..Len(q)
        PROVE  \E j \in 1..Len(s) : j # k /\ q[i] = s[j] /\ j = IF i < k THEN i ELSE i + 1
    BY <1>0, <2>5
  <2>7. \A i, j \in 1..Len(q) : q[i] = q[j] => i = j
    <3>1. SUFFICES ASSUME NEW i \in 1..Len(q), NEW j \in 1..Len(q), q[i] = q[j] PROVE i = j
      OBVIOUS
    <3>2. PICK x \in 1..Len(s) : q[i] = s[x] /\ x = IF i < k THEN i ELSE i + 1
      BY <2>6
    <3>3. PICK y \in 1..Len(s) : q[j] = s[y] /\ y = IF j < k THEN j ELSE j + 1
      BY <2>6
    <3>4. x = y
      BY <3>1, <3>2, <3>3 DEF Distinct
    <3> QED
      BY <1>0, <2>5, <3>2, <3>3, <3>4
  <2>8. \A i \in 1..Len(q) : q[i] # t /\ \E j \in 1..Len(s) : q[i] = s[j]
    BY <2>1, <2>6 DEF Distinct
  <2>9. LeftOf(q, s, t)
    BY <2>5, <2>7, <2>8 DEF LeftOf, Distinct
  <2> QED
    BY <2>4, <2>9
<1> QED
  BY <1>1, <1>2

LEMMA Disconnected ==
  ASSUME WalkInv, NEW t \in Task, Disconnect(t)
  PROVE  WalkInv' /\ Moved(t) /\ (task'[t].gone \/ task'[t].pc = "sent")
<1>1. PICK r : r = task[t] /\ Walked(r)
  BY DEF WalkInv
<1>2. /\ ~r.gone /\ r.pc \in HookPhase \cup {"queue", "read", "upstream"}
      /\ waiting' = Without(waiting, t) /\ active' = active
  BY <1>1 DEF Disconnect
<1>3. PICK q : q = IF r.pc \in HookPhase THEN Orphan(r) ELSE [Blank EXCEPT !.pc = "sent"]
  OBVIOUS
<1>4. task' = [task EXCEPT ![t] = q]
  BY <1>1, <1>3 DEF Disconnect
<1>5. Walked(q) /\ (q.gone \/ q.pc = "sent")
  <2>1. CASE r.pc \in HookPhase
    <3>1. /\ Shape(q) /\ q.pc = r.pc /\ q.gen = r.gen /\ q.k = r.k /\ q.gone = TRUE
          /\ q.trail = NoHooks /\ q.edits = NoHooks
      BY <1>3, <2>1 DEF Orphan, Blank, Shape
    <3>2. NoHooks \in [HookPhase -> Seq(Filter)]
      BY DEF NoHooks
    <3>3. /\ r.pc \in Places /\ r.pc # "new" /\ r.gen \in Generation
          /\ r.k \in 1..(Len(Chain[r.gen]) + 1)
      BY <1>1, <2>1 DEF Walked, HookPhase, UnderWay, Places
    <3> QED
      BY <2>1, <3>1, <3>2, <3>3 DEF Walked
  <2>2. CASE r.pc \notin HookPhase
    BY <1>3, <2>2, BlankWalked DEF Blank
  <2> QED
    BY <2>1, <2>2
<1>6. Moved(t) /\ task'[t] = q
  BY <1>4, <1>5, MovedTo
<1>7. Queue'
  <2>1. waiting \in Seq(Task) /\ Distinct(waiting)
    BY DEF WalkInv, Queue, Distinct
  <2>2. PICK w : w = Without(waiting, t)
    OBVIOUS
  <2>3. /\ w \in Seq(Task) /\ \A i, j \in 1..Len(w) : w[i] = w[j] => i = j
        /\ \A i \in 1..Len(w) : w[i] # t /\ \E j \in 1..Len(waiting) : w[i] = waiting[j]
    <3>1. LeftOf(Without(waiting, t), waiting, t)
      BY <2>1, WithoutIsOut
    <3>2. LeftOf(w, waiting, t)
      BY <2>2, <3>1
    <3> QED
      BY <3>2 DEF LeftOf, Distinct
  <2>4. ASSUME NEW i \in 1..Len(w) PROVE task'[w[i]].pc = "queue"
    <3>1. w[i] \in Task /\ w[i] # t /\ task[w[i]].pc = "queue"
      BY <2>3 DEF WalkInv, Queue
    <3> QED
      BY <1>6, <3>1 DEF Moved
  <2>5. waiting' = w
    BY <1>2, <2>2
  <2> QED
    BY <2>3, <2>4, <2>5 DEF Queue
<1> QED
  BY <1>2, <1>5, <1>6, <1>7 DEF WalkInv, Moved

\* A call changes nothing of its transaction but what it may still call for and
\* whether it waits.
Calling(t) ==
  Outgoing(t) \/ TotalTimeout(t) \/ BodyEnds(t)

LEMMA CallMoves ==
  ASSUME WalkInv, NEW t \in Task, Calling(t)
  PROVE  /\ waiting' = waiting /\ active' = active /\ buffers' = buffers
         /\ task' = task \/ /\ Moved(t) /\ task'[t].pc = task[t].pc
                            /\ task'[t].gone = task[t].gone
<1>1. PICK r : r = task[t] /\ Walked(r) /\ Shape(r)
  BY DEF WalkInv, Walked
<1>2. ASSUME NEW q, task' = [task EXCEPT ![t] = q], NEW n, NEW w,
             q = [r EXCEPT !.calls = n, !.await = w], r.pc = "new" => q = r
      PROVE  Moved(t) /\ task'[t].pc = task[t].pc /\ task'[t].gone = task[t].gone
  <2>1. /\ Shape(q) /\ q.pc = r.pc /\ q.gone = r.gone /\ q.gen = r.gen /\ q.k = r.k
        /\ q.kind = r.kind /\ q.body = r.body /\ q.trail = r.trail /\ q.edits = r.edits
        /\ q.answer = r.answer
    BY <1>1, <1>2 DEF Shape
  <2>2. Walked(q)
    <3>1. CASE r.pc = "new"
      BY <1>1, <1>2, <3>1
    <3>2. CASE r.pc # "new"
      BY <1>1, <2>1, <3>2, IndifferentWalked
    <3> QED
      BY <3>1, <3>2
  <2> QED
    BY <1>1, <1>2, <2>1, <2>2, MovedTo
<1>3. ASSUME CallEnds(t) PROVE Moved(t) /\ task'[t].pc = task[t].pc /\ task'[t].gone = task[t].gone
  <2>1. PICK q : q = [r EXCEPT !.await = FALSE]
    OBVIOUS
  <2>2. task' = [task EXCEPT ![t] = q]
    BY <1>1, <1>3, <2>1 DEF CallEnds
  <2>3. q = [r EXCEPT !.calls = r.calls, !.await = FALSE]
    BY <1>1, <2>1 DEF Shape
  <2>4. r.pc = "new" => q = r
    <3>1. r.pc = "new" => r = Blank
      BY <1>1 DEF Walked
    <3>2. ASSUME NEW b, b = [Blank EXCEPT !.await = FALSE] PROVE b = Blank
      BY <3>2 DEF Blank
    <3> QED
      BY <2>1, <3>1, <3>2
  <2> QED
    BY <1>2, <2>2, <2>3, <2>4
<1>4. ASSUME NEW target, CallDenied(t, target)
      PROVE  Moved(t) /\ task'[t].pc = task[t].pc /\ task'[t].gone = task[t].gone
  <2>1. PICK q : q = [r EXCEPT !.calls = r.calls - 1]
    OBVIOUS
  <2>2. task' = [task EXCEPT ![t] = q] /\ r.pc # "new"
    BY <1>1, <1>4, <2>1 DEF CallDenied, MayCall, InHook, HookPhase
  <2>3. q = [r EXCEPT !.calls = r.calls - 1, !.await = r.await]
    BY <1>1, <2>1 DEF Shape
  <2> QED
    BY <1>2, <2>2, <2>3
<1>5. ASSUME NEW target, NEW await, CallStarts(t, target, await)
      PROVE  Moved(t) /\ task'[t].pc = task[t].pc /\ task'[t].gone = task[t].gone
  <2>1. PICK q : q = [r EXCEPT !.calls = r.calls - 1, !.await = await]
    OBVIOUS
  <2>2. task' = [task EXCEPT ![t] = q] /\ r.pc # "new"
    <3>1. task' = [task EXCEPT ![t].calls = @ - 1, ![t].await = await] /\ r.pc # "new"
      BY <1>1, <1>5 DEF CallStarts, MayCall, InHook, HookPhase
    <3> QED
      BY <1>1, <2>1, <3>1 DEF WalkInv, Tabular, Shape
  <2> QED
    BY <1>2, <2>1, <2>2
<1>6. ASSUME NEW addrs, Resolved(t, addrs) PROVE CallEnds(t) \/ task' = task
  BY <1>6 DEF Resolved
<1>7. waiting' = waiting /\ active' = active /\ buffers' = buffers
  BY DEF Calling, Outgoing, TotalTimeout, BodyEnds, CallEnds, CallDenied, CallStarts, Resolved,
         Connects, HeadArrives, CallFails
<1> QED
  BY <1>3, <1>4, <1>5, <1>6, <1>7
  DEF Calling, Outgoing, TotalTimeout, BodyEnds, Connects, HeadArrives, CallFails

LEMMA WalkInit == Init => WalkInv
<1> SUFFICES ASSUME Init PROVE WalkInv
  OBVIOUS
<1>1. Walked(Blank)
  <2>1. PICK b : b = [Blank EXCEPT !.pc = "new"]
    OBVIOUS
  <2>2. b = Blank
    BY <2>1 DEF Blank
  <2> QED
    BY <2>1, <2>2, BlankWalked
<1>2. Queue
  BY DEF Init, Queue
<1> QED
  BY <1>1, <1>2, ChainFacts DEF Init, WalkInv, Tabular

LEMMA WalkNext == WalkInv /\ [Next]_vars => WalkInv'
<1> SUFFICES ASSUME WalkInv, [Next]_vars PROVE WalkInv'
  OBVIOUS
<1>1. CASE UNCHANGED vars
  BY <1>1 DEF vars, WalkInv, Queue, Tabular
<1>2. CASE Reload
  BY <1>2 DEF Reload, WalkInv, Queue, Tabular
<1>3. ASSUME NEW t \in Task, NEW kind, Arrive(t, kind) PROVE WalkInv'
  BY <1>3, ArriveMoved, OutOfQueue DEF Arrive
<1>4. ASSUME NEW t \in Task, HookEnds(t) PROVE WalkInv'
  BY <1>4, HookMoves, OutOfQueue DEF HookPhase
<1>5. ASSUME NEW t \in Task, Refused(t) \/ BodyRefused(t) \/ UpstreamFails(t) PROVE WalkInv'
  <2>1. /\ Moved(t) /\ task[t].pc # "queue" /\ waiting' = waiting /\ active' = active
    BY <1>5, Refusals
  <2> QED
    BY <2>1, OutOfQueue
<1>6. ASSUME NEW t \in Task, BodyRead(t) PROVE WalkInv'
  BY <1>6, BodyIsRead, OutOfQueue DEF BodyRead
<1>7. ASSUME NEW t \in Task, BodyChainPasses(t) PROVE WalkInv'
  BY <1>7, BodyPassed, OutOfQueue DEF BodyChainPasses
<1>8. ASSUME NEW t \in Task, UpstreamAnswers(t) PROVE WalkInv'
  BY <1>8, UpstreamAnswered, OutOfQueue DEF UpstreamAnswers
<1>9. ASSUME NEW t \in Task, ResponseChainPasses(t) PROVE WalkInv'
  BY <1>9, ResponsePassed, OutOfQueue DEF ResponseChainPasses
<1>10. ASSUME NEW t \in Task, Sent(t) PROVE WalkInv'
  BY <1>10, SentMoved, OutOfQueue DEF Sent
<1>11. ASSUME NEW t \in Task, Calling(t) PROVE WalkInv'
  <2>1. waiting' = waiting /\ active' = active
    BY <1>11, CallMoves
  <2>2. CASE task' = task
    BY <2>1, <2>2 DEF WalkInv, Queue, Tabular
  <2>3. CASE Moved(t) /\ task'[t].pc = task[t].pc
    <3>1. \A u \in Task : task'[u].pc = task[u].pc /\ Walked(task'[u])
      BY <2>3 DEF Moved, WalkInv
    <3>2. Queue'
      <4>1. \A i \in 1..Len(waiting) : waiting[i] \in Task
        BY DEF WalkInv, Queue
      <4> QED
        BY <2>1, <3>1, <4>1 DEF WalkInv, Queue
    <3> QED
      BY <2>1, <2>3, <3>1, <3>2 DEF Moved, WalkInv
  <2> QED
    BY <1>11, <2>2, <2>3, CallMoves
<1>12. ASSUME NEW t \in Task, RequestChainPasses(t) PROVE WalkInv'
  BY <1>12, RequestPassed
<1>13. ASSUME NEW t \in Task, AcquireBuffer(t) PROVE WalkInv'
  BY <1>13, BufferAcquired
<1>14. ASSUME NEW t \in Task, Disconnect(t) PROVE WalkInv'
  BY <1>14, Disconnected
<1> QED
  BY <1>1, <1>2, <1>3, <1>4, <1>5, <1>6, <1>7, <1>8, <1>9, <1>10, <1>11, <1>12, <1>13, <1>14
  DEF Next, Calling

LEMMA Whole ==
  ASSUME NEW g \in Generation, NEW s, FromStart(s, Chain[g], Len(Chain[g]))
  PROVE  s = Chain[g]
<1>1. Chain[g] \in Seq(Filter) /\ s \in Seq(Filter) /\ Len(s) = Len(Chain[g])
      /\ \A i \in 1..Len(Chain[g]) : s[i] = Chain[g][i]
  BY ChainFacts DEF FromStart
<1> QED
  BY <1>1

\* A request goes upstream only when every filter of the chain it was matched
\* under let it pass, in order, and its buffered body too, for every chain, every
\* interleaving of requests and every reload (chain.rs dispatch_request,
\* dispatch_request_body).
THEOREM ForwardedWasPassed == Spec => []ForwardOnlyIfPassed
<1>1. WalkInv => ForwardOnlyIfPassed
  <2> SUFFICES ASSUME WalkInv, NEW t \in Task, task[t].pc = "upstream"
               PROVE  LET c        == Chain[task[t].gen]
                          buffered == /\ ~Inbound[task[t].kind].bodyless
                                      /\ \E i \in DOMAIN c : c[i] \in ReadsBody
                          rewrote  == Modifiers(t, "body")
                      IN  /\ Hooked(t, "request") = c
                          /\ Hooked(t, "body") = IF buffered THEN c ELSE <<>>
                          /\ task[t].body = IF rewrote = <<>> THEN NONE ELSE rewrote[Len(rewrote)]
    BY DEF ForwardOnlyIfPassed
  <2>1. PICK r : r = task[t] /\ Walked(r)
    BY DEF WalkInv
  <2>2. r.pc = "upstream" /\ ~r.gone /\ r.gen \in Generation
    BY <2>1 DEF Walked, HookPhase, UnderWay
  <2>3. /\ FromStart(r.trail["request"], Chain[r.gen], Len(Chain[r.gen])) /\ LastRewrite(r)
        /\ Buffered(r) => FromStart(r.trail["body"], Chain[r.gen], Len(Chain[r.gen]))
        /\ ~Buffered(r) => r.trail["body"] = <<>>
    BY <2>1, <2>2 DEF Walked, Progress
  <2>4. r.trail["request"] = Chain[r.gen]
    BY <2>2, <2>3, Whole
  <2>5. r.trail["body"] = IF Buffered(r) THEN Chain[r.gen] ELSE <<>>
    BY <2>2, <2>3, Whole
  <2> QED
    BY <2>1, <2>3, <2>4, <2>5 DEF Hooked, Modifiers, Buffered, LastRewrite
<1> QED
  BY WalkInit, WalkNext, <1>1, PTL DEF Spec

\* The upstream's body reaches the client only through every filter the request
\* passed, in reverse (chain.rs dispatch_response, proxy.rs's end).
THEOREM ResponsesMirror == Spec => []ResponseMirrors
<1>1. WalkInv => ResponseMirrors
  <2> SUFFICES ASSUME WalkInv, NEW t \in Task, task[t].pc = "answered", task[t].answer.streamed
               PROVE  Hooked(t, "response") = Reverse(Hooked(t, "request"))
    BY DEF ResponseMirrors
  <2>1. PICK r : r = task[t] /\ Walked(r)
    BY DEF WalkInv
  <2>2. ~r.gone
    BY <2>1 DEF Walked, HookPhase
  <2>3. /\ r.gen \in Generation
        /\ FromStart(r.trail["request"], Chain[r.gen], Len(Chain[r.gen]))
        /\ FromEnd(r.trail["response"], Chain[r.gen], Len(Chain[r.gen]))
    BY <2>1, <2>2 DEF Walked, Progress
  <2>4. r.trail["request"] = Chain[r.gen]
    BY <2>3, Whole
  <2>5. PICK c, s : c = Chain[r.gen] /\ s = r.trail["response"]
    OBVIOUS
  <2>6. /\ c \in Seq(Filter) /\ s \in Seq(Filter) /\ Len(s) = Len(c) /\ Len(c) \in Nat
        /\ \A i \in 1..Len(c) : s[i] = c[Len(c) + 1 - i]
    BY <2>3, <2>5, ChainFacts DEF FromEnd
  <2>7. s = Reverse(c)
    <3>1. \A i \in 1..Len(c) : Len(c) + 1 - i = (Len(c) - i) + 1
      BY <2>6
    <3>2. Reverse(c) = [i \in 1..Len(c) |-> c[(Len(c) - i) + 1]]
      BY DEF Reverse
    <3> QED
      BY <2>6, <3>1, <3>2
  <2> QED
    BY <2>1, <2>4, <2>5, <2>7 DEF Hooked
<1> QED
  BY WalkInit, WalkNext, <1>1, PTL DEF Spec

----------------------------------------------------------------------------
(* Outbound calls.                                                         *)

CallShape(c) == c = [pc |-> c.pc, gen |-> c.gen, filter |-> c.filter, by |-> c.by,
                     target |-> c.target, addrs |-> c.addrs]

\* What a call has been checked for when it has come as far as c.
Vetted(c) ==
  /\ CallShape(c) /\ c.pc \in {"none", "resolving", "dialling", "sending", "reading"}
  /\ c.pc # "none" => c.filter \in DOMAIN Policy /\ c.gen \in Generation
  /\ c.pc \in {"resolving", "dialling"} =>
       c.target \in Target_ /\ HasAuthority(c.target) /\ allows(Policy[c.filter], c.target)
  /\ c.pc = "dialling" => /\ c.addrs \in Seq(Addresses) /\ c.addrs # <<>>
                          /\ all_addresses_allowed(c.addrs, Policy[c.filter])

\* The calls that hold a permit of filter f, as loaded by generation g.
Callers(g, f) == {t \in Task : CallHeld(call[t]) /\ call[t].gen = g /\ call[t].filter = f}

\* No permit of an outbound semaphore is lost or given twice: the free ones and
\* the calls that hold one are max_concurrent, whichever way calls end.
PermitsExact ==
  \A g \in Generation, f \in DOMAIN Policy :
    /\ permits[g][f] \in Nat
    /\ permits[g][f] + Cardinality(Callers(g, f)) = Policy[f].max_concurrent

Permits == permits \in [Generation -> [DOMAIN Policy -> Nat]]

CallInv == Tabular(call) /\ (\A t \in Task : Vetted(call[t])) /\ Permits /\ PermitsExact

\* The call of t becomes c, and what that does to the permits.
CallMoved(t, c) ==
  /\ call' = [call EXCEPT ![t] = c] /\ Vetted(c)
  /\ \/ /\ CallHeld(c) <=> CallHeld(call[t])
        /\ c.gen = call[t].gen /\ c.filter = call[t].filter
        /\ permits' = permits
     \/ ~CallHeld(c) /\ ReleasePermit(call[t])
     \/ /\ ~CallHeld(call[t]) /\ CallHeld(c) /\ permits[c.gen][c.filter] > 0
        /\ permits' = [permits EXCEPT ![c.gen][c.filter] = @ - 1]

LEMMA CallersFinite ==
  \A g, f : IsFiniteSet(Callers(g, f)) /\ Cardinality(Callers(g, f)) \in Nat
<1> SUFFICES ASSUME NEW g, NEW f
             PROVE  IsFiniteSet(Callers(g, f)) /\ Cardinality(Callers(g, f)) \in Nat
  OBVIOUS
<1>1. IsFiniteSet(Task) /\ Callers(g, f) \subseteq Task
  BY ChainAssumption DEF ChainAssumption, Callers
<1> QED
  BY <1>1, FS_Subset, FS_CardinalityType

LEMMA CallMovedKeeps ==
  ASSUME CallInv, NEW t \in Task, NEW c, CallMoved(t, c)
  PROVE  CallInv'
<1>1. Tabular(call)' /\ call'[t] = c /\ \A u \in Task : u # t => call'[u] = call[u]
  BY DEF CallMoved, CallInv, Tabular
<1>2. \A u \in Task : Vetted(call'[u])
  BY <1>1 DEF CallInv, CallMoved
<1>3. PICK o : o = call[t] /\ Vetted(o)
  BY DEF CallInv
<1>4. /\ CallHeld(o) => o.gen \in Generation /\ o.filter \in DOMAIN Policy
      /\ CallHeld(c) => c.gen \in Generation /\ c.filter \in DOMAIN Policy
  BY <1>3 DEF Vetted, CallHeld, CallMoved
<1>5. ASSUME NEW g \in Generation, NEW f \in DOMAIN Policy
      PROVE  /\ CallHeld(c) /\ c.gen = g /\ c.filter = f => Callers(g, f)' = Callers(g, f) \cup {t}
             /\ ~(CallHeld(c) /\ c.gen = g /\ c.filter = f) => Callers(g, f)' = Callers(g, f) \ {t}
             /\ t \in Callers(g, f) <=> CallHeld(o) /\ o.gen = g /\ o.filter = f
  BY <1>1, <1>3 DEF Callers
<1>6. /\ permits \in [Generation -> [DOMAIN Policy -> Nat]]
      /\ \A g \in Generation, f \in DOMAIN Policy :
           permits[g][f] + Cardinality(Callers(g, f)) = Policy[f].max_concurrent
  BY DEF CallInv, Permits, PermitsExact
<1>7. ASSUME NEW g \in Generation, NEW f \in DOMAIN Policy,
             t \in Callers(g, f), Callers(g, f)' = Callers(g, f) \ {t}
      PROVE  Cardinality(Callers(g, f))' = Cardinality(Callers(g, f)) - 1
  BY <1>7, CallersFinite, FS_RemoveElement
<1>8. ASSUME NEW g \in Generation, NEW f \in DOMAIN Policy,
             t \notin Callers(g, f), Callers(g, f)' = Callers(g, f) \cup {t}
      PROVE  Cardinality(Callers(g, f))' = Cardinality(Callers(g, f)) + 1
  BY <1>8, CallersFinite, FS_AddElement
<1>9. CASE /\ CallHeld(c) <=> CallHeld(o)
           /\ c.gen = o.gen /\ c.filter = o.filter /\ permits' = permits
  <2>1. ASSUME NEW g \in Generation, NEW f \in DOMAIN Policy
        PROVE  Callers(g, f)' = Callers(g, f)
    <3>1. CASE CallHeld(c) /\ c.gen = g /\ c.filter = f
      <4>1. t \in Callers(g, f) /\ Callers(g, f)' = Callers(g, f) \cup {t}
        BY <1>5, <1>9, <3>1
      <4> QED
        BY <4>1
    <3>2. CASE ~(CallHeld(c) /\ c.gen = g /\ c.filter = f)
      <4>1. t \notin Callers(g, f) /\ Callers(g, f)' = Callers(g, f) \ {t}
        BY <1>5, <1>9, <3>2
      <4> QED
        BY <4>1
    <3> QED
      BY <3>1, <3>2
  <2> QED
    BY <1>1, <1>2, <1>6, <1>9, <2>1 DEF CallInv, Permits, PermitsExact
<1>10. CASE ~CallHeld(c) /\ CallHeld(o) /\ permits' = [permits EXCEPT ![o.gen][o.filter] = @ + 1]
  <2>1. /\ permits' \in [Generation -> [DOMAIN Policy -> Nat]]
        /\ permits'[o.gen][o.filter] = permits[o.gen][o.filter] + 1
        /\ \A g \in Generation, f \in DOMAIN Policy :
             g # o.gen \/ f # o.filter => permits'[g][f] = permits[g][f]
    BY <1>4, <1>6, <1>10
  <2>2. ASSUME NEW g \in Generation, NEW f \in DOMAIN Policy
        PROVE  permits'[g][f] + Cardinality(Callers(g, f))' = Policy[f].max_concurrent
    <3>1. CASE g = o.gen /\ f = o.filter
      <4>1. Cardinality(Callers(g, f))' = Cardinality(Callers(g, f)) - 1
        BY <1>5, <1>7, <1>10, <3>1
      <4>2. permits'[g][f] = permits[g][f] + 1 /\ permits[g][f] \in Nat
        BY <1>6, <2>1, <3>1
      <4> QED
        BY <1>6, <4>1, <4>2, CallersFinite
    <3>2. CASE g # o.gen \/ f # o.filter
      <4>1. Callers(g, f)' = Callers(g, f)
        BY <1>5, <1>10, <3>2
      <4> QED
        BY <1>6, <2>1, <3>2, <4>1
    <3> QED
      BY <3>1, <3>2
  <2> QED
    BY <1>1, <1>2, <2>1, <2>2 DEF CallInv, Permits, PermitsExact
<1>11. CASE /\ ~CallHeld(o) /\ CallHeld(c) /\ permits[c.gen][c.filter] > 0
            /\ permits' = [permits EXCEPT ![c.gen][c.filter] = @ - 1]
  <2>1. /\ permits' \in [Generation -> [DOMAIN Policy -> Nat]]
        /\ permits'[c.gen][c.filter] = permits[c.gen][c.filter] - 1
        /\ \A g \in Generation, f \in DOMAIN Policy :
             g # c.gen \/ f # c.filter => permits'[g][f] = permits[g][f]
    <3>1. permits[c.gen][c.filter] \in Nat /\ permits[c.gen][c.filter] - 1 \in Nat
      BY <1>4, <1>6, <1>11
    <3> QED
      BY <1>4, <1>6, <1>11, <3>1
  <2>2. ASSUME NEW g \in Generation, NEW f \in DOMAIN Policy
        PROVE  permits'[g][f] + Cardinality(Callers(g, f))' = Policy[f].max_concurrent
    <3>1. CASE g = c.gen /\ f = c.filter
      <4>1. Cardinality(Callers(g, f))' = Cardinality(Callers(g, f)) + 1
        BY <1>5, <1>8, <1>11, <3>1
      <4>2. permits'[g][f] = permits[g][f] - 1 /\ permits[g][f] \in Nat
        BY <1>6, <2>1, <3>1
      <4> QED
        BY <1>6, <4>1, <4>2, CallersFinite
    <3>2. CASE g # c.gen \/ f # c.filter
      <4>1. t \notin Callers(g, f) /\ Callers(g, f)' = Callers(g, f) \ {t}
        BY <1>5, <1>11, <3>2
      <4>2. Callers(g, f)' = Callers(g, f)
        BY <4>1
      <4> QED
        BY <1>6, <2>1, <3>2, <4>2
    <3> QED
      BY <3>1, <3>2
  <2> QED
    BY <1>1, <1>2, <2>1, <2>2 DEF CallInv, Permits, PermitsExact
<1>12. CASE ~CallHeld(c) /\ ~CallHeld(o) /\ permits' = permits
  <2>1. \A g \in Generation, f \in DOMAIN Policy : Callers(g, f)' = Callers(g, f)
    BY <1>5, <1>12
  <2> QED
    BY <1>1, <1>2, <1>6, <1>12, <2>1 DEF CallInv, Permits, PermitsExact
<1> QED
  BY <1>3, <1>9, <1>10, <1>11, <1>12 DEF CallMoved, ReleasePermit

LEMMA NoCallVetted == Vetted(NoCall) /\ ~CallHeld(NoCall)
<1>1. CallShape(NoCall) /\ NoCall.pc = "none"
  BY DEF NoCall, CallShape
<1> QED
  BY <1>1 DEF Vetted, CallHeld

LEMMA CallInit == Init => CallInv
<1> SUFFICES ASSUME Init PROVE CallInv
  OBVIOUS
<1>1. Tabular(call) /\ \A t \in Task : call[t] = NoCall
  BY DEF Init, Tabular
<1>2. \A t \in Task : Vetted(call[t])
  BY <1>1, NoCallVetted
<1>3. \A g \in Generation, f \in DOMAIN Policy :
        permits[g][f] = Policy[f].max_concurrent /\ permits[g][f] \in Nat
  BY ChainAssumption DEF ChainAssumption, Init, FreshPermits
<1>4. Permits
  <2>1. permits = [g \in Generation |-> [f \in DOMAIN Policy |-> Policy[f].max_concurrent]]
    BY DEF Init, FreshPermits
  <2>2. \A f \in DOMAIN Policy : Policy[f].max_concurrent \in Nat
    BY ChainAssumption DEF ChainAssumption
  <2> QED
    BY <2>1, <2>2 DEF Permits
<1>5. ASSUME NEW g \in Generation, NEW f \in DOMAIN Policy
      PROVE  Cardinality(Callers(g, f)) = 0
  <2>1. Callers(g, f) = {}
    BY <1>1, NoCallVetted DEF Callers
  <2> QED
    BY <2>1, FS_EmptySet
<1>6. PermitsExact
  BY <1>3, <1>5 DEF PermitsExact
<1> QED
  BY <1>1, <1>2, <1>4, <1>6 DEF CallInv

\* A call that ends gives its permit back, if it still had one.
LEMMA CallDropped ==
  ASSUME CallInv, NEW t \in Task, call' = [call EXCEPT ![t] = NoCall], ReleasePermit(call[t])
  PROVE  CallInv'
<1>1. CallMoved(t, NoCall)
  BY NoCallVetted DEF CallMoved
<1> QED
  BY <1>1, CallMovedKeeps

\* The call goes on, its permit with it.
LEMMA CallAdvances ==
  ASSUME CallInv, NEW t \in Task, NEW c, call' = [call EXCEPT ![t] = c], Vetted(c),
         CallHeld(c) <=> CallHeld(call[t]), c.gen = call[t].gen, c.filter = call[t].filter,
         permits' = permits
  PROVE  CallInv'
<1>1. CallMoved(t, c)
  BY DEF CallMoved
<1> QED
  BY <1>1, CallMovedKeeps

LEMMA CallKept ==
  ASSUME CallInv, call' = call, permits' = permits
  PROVE  CallInv'
BY DEF CallInv, Tabular, Permits, PermitsExact, Callers

LEMMA HookReturnsCall ==
  ASSUME CallInv, NEW t \in Task, NEW discarded, HookReturns(t, discarded)
  PROVE  CallInv'
<1>1. CASE call' = [call EXCEPT ![t] = NoCall] /\ ReleasePermit(call[t])
  BY <1>1, CallDropped
<1>2. CASE call' = [call EXCEPT ![t].by = <<>>] /\ UNCHANGED permits
  <2>1. PICK o : o = call[t] /\ Vetted(o)
    BY DEF CallInv
  <2>2. PICK c : c = [o EXCEPT !.by = <<>>]
    OBVIOUS
  <2>3. /\ CallShape(c) /\ c.pc = o.pc /\ c.gen = o.gen /\ c.filter = o.filter
        /\ c.target = o.target /\ c.addrs = o.addrs
    BY <2>1, <2>2 DEF CallShape, Vetted
  <2>4. Vetted(c)
    BY <2>1, <2>3 DEF Vetted
  <2>5. call' = [call EXCEPT ![t] = c]
    BY <1>2, <2>1, <2>2
  <2> QED
    BY <1>2, <2>1, <2>3, <2>4, <2>5, CallAdvances DEF CallHeld
<1> QED
  BY <1>1, <1>2 DEF HookReturns

LEMMA CallBegins ==
  ASSUME WalkInv, CallInv, NEW t \in Task, NEW target \in Target_, NEW await,
         CallStarts(t, target, await)
  PROVE  CallInv'
<1>1. PICK f : f = FilterAt(t)
  OBVIOUS
<1>2. PICK g : g = task[t].gen
  OBVIOUS
<1>3. /\ f \in DOMAIN Policy /\ call[t].pc = "none" /\ HasAuthority(target)
      /\ allows(Policy[f], target) /\ permits[g][f] > 0
      /\ permits' = [permits EXCEPT ![g][f] = @ - 1]
  BY <1>1, <1>2 DEF CallStarts, MayCall, Admissible
<1>4. g \in Generation
  BY <1>2, AtFilter DEF CallStarts, MayCall
<1>5. PICK h : h = ThisHook(t)
  OBVIOUS
<1>6. PICK c : c = [NoCall EXCEPT !.pc = "resolving", !.gen = g, !.filter = f, !.by = h,
                                  !.target = target]
  OBVIOUS
<1>7. call' = [call EXCEPT ![t] = c]
  BY <1>1, <1>2, <1>5, <1>6 DEF CallStarts
<1>8. CallShape(c) /\ c.pc = "resolving" /\ c.gen = g /\ c.filter = f /\ c.target = target
  BY <1>6 DEF NoCall, CallShape
<1>9. Vetted(c)
  BY <1>3, <1>4, <1>8 DEF Vetted
<1>10. CallMoved(t, c)
  BY <1>3, <1>7, <1>8, <1>9 DEF CallMoved, CallHeld
<1> QED
  BY <1>10, CallMovedKeeps

LEMMA AddressesVetted ==
  ASSUME CallInv, NEW t \in Task, call[t].pc = "resolving",
         NEW addrs \in Lookup(call[t].target.host), Resolved(t, addrs)
  PROVE  CallInv'
<1>1. PICK o : o = call[t] /\ Vetted(o)
  BY DEF CallInv
<1>2. CASE CallEnds(t)
  BY <1>2, CallDropped DEF CallEnds
<1>3. CASE /\ addrs # <<>> /\ all_addresses_allowed(addrs, Policy[call[t].filter])
           /\ call' = [call EXCEPT ![t] = [@ EXCEPT !.pc = "dialling", !.addrs = addrs]]
           /\ permits' = permits
  <2>1. PICK c : c = [o EXCEPT !.pc = "dialling", !.addrs = addrs]
    OBVIOUS
  <2>2. call' = [call EXCEPT ![t] = c]
    BY <1>1, <1>3, <2>1
  <2>3. /\ CallShape(c) /\ c.pc = "dialling" /\ c.gen = o.gen /\ c.filter = o.filter
        /\ c.target = o.target /\ c.addrs = addrs
    BY <1>1, <2>1 DEF CallShape, Vetted
  <2>4. addrs \in Seq(Addresses)
    <3>1. o.target \in Target_ /\ HasAuthority(o.target)
      BY <1>1 DEF Vetted
    <3> QED
      BY <1>1, <3>1, ChainAssumption DEF ChainAssumption, Lookup
  <2>5. Vetted(c)
    BY <1>1, <1>3, <2>3, <2>4 DEF Vetted
  <2> QED
    BY <1>1, <1>3, <2>2, <2>3, <2>5, CallAdvances DEF CallHeld
<1> QED
  BY <1>2, <1>3 DEF Resolved

LEMMA CallConnects ==
  ASSUME CallInv, NEW t \in Task, Connects(t)
  PROVE  CallInv'
<1>1. PICK o : o = call[t] /\ Vetted(o) /\ o.pc = "dialling"
  BY DEF CallInv, Connects
<1>2. PICK c : c = [o EXCEPT !.pc = "sending", !.addrs = <<>>]
  OBVIOUS
<1>3. call' = [call EXCEPT ![t] = c] /\ permits' = permits
  BY <1>1, <1>2 DEF Connects
<1>4. CallShape(c) /\ c.pc = "sending" /\ c.gen = o.gen /\ c.filter = o.filter
  BY <1>1, <1>2 DEF CallShape, Vetted
<1>5. Vetted(c)
  BY <1>1, <1>4 DEF Vetted
<1> QED
  BY <1>1, <1>3, <1>4, <1>5, CallAdvances DEF CallHeld

LEMMA CallAnswered ==
  ASSUME CallInv, NEW t \in Task, HeadArrives(t)
  PROVE  CallInv'
<1>1. PICK o : o = call[t] /\ Vetted(o) /\ o.pc = "sending" /\ ReleasePermit(o)
  BY DEF CallInv, HeadArrives
<1>2. CASE ~task[t].await
  BY <1>2, CallDropped DEF HeadArrives
<1>3. CASE task[t].await
  <2>1. PICK c : c = [o EXCEPT !.pc = "reading"]
    OBVIOUS
  <2>2. call' = [call EXCEPT ![t] = c]
    BY <1>1, <1>3, <2>1 DEF HeadArrives
  <2>3. CallShape(c) /\ c.pc = "reading" /\ c.gen = o.gen /\ c.filter = o.filter
    BY <1>1, <2>1 DEF CallShape, Vetted
  <2>4. Vetted(c) /\ ~CallHeld(c)
    BY <1>1, <2>3 DEF Vetted, CallHeld
  <2>5. CallMoved(t, c)
    BY <1>1, <2>2, <2>4 DEF CallMoved
  <2> QED
    BY <2>5, CallMovedKeeps
<1> QED
  BY <1>2, <1>3

LEMMA CallNext == WalkInv /\ CallInv /\ [Next]_vars => CallInv'
<1> SUFFICES ASSUME WalkInv, CallInv, [Next]_vars PROVE CallInv'
  OBVIOUS
<1>1. CASE UNCHANGED <<call, permits>>
  BY <1>1, CallKept
<1>2. ASSUME NEW t \in Task, HookEnds(t), ~UNCHANGED <<call, permits>> PROVE CallInv'
  <2>1. \E discarded : HookReturns(t, discarded)
    BY <1>2 DEF HookEnds, HookContinues, HookModifies, HookShortCircuits, HookFails
  <2> QED
    BY <2>1, HookReturnsCall
<1>3. ASSUME NEW t \in Task, CallEnds(t) PROVE CallInv'
  BY <1>3, CallDropped DEF CallEnds
<1>4. ASSUME NEW t \in Task, Calling(t), ~UNCHANGED <<call, permits>> PROVE CallInv'
  <2>1. CASE \E target \in Target_ : CallDenied(t, target)
    BY <1>4, <2>1 DEF CallDenied
  <2>2. CASE \E target \in Target_, await \in BOOLEAN : CallStarts(t, target, await)
    BY <2>2, CallBegins
  <2>3. CASE /\ call[t].pc = "resolving"
             /\ \E addrs \in Lookup(call[t].target.host) : Resolved(t, addrs)
    BY <2>3, AddressesVetted
  <2>4. CASE Connects(t)
    BY <2>4, CallConnects
  <2>5. CASE HeadArrives(t)
    BY <2>5, CallAnswered
  <2>6. CASE CallFails(t) \/ TotalTimeout(t) \/ BodyEnds(t)
    BY <1>3, <2>6 DEF CallFails, TotalTimeout, BodyEnds
  <2> QED
    BY <1>4, <2>1, <2>2, <2>3, <2>4, <2>5, <2>6 DEF Calling, Outgoing
<1>5. CASE Reload
  BY <1>1, <1>5 DEF Reload
<1>6. ASSUME NEW t \in Task,
             \/ \E kind \in DOMAIN Inbound : Arrive(t, kind)
             \/ RequestChainPasses(t) \/ Refused(t) \/ AcquireBuffer(t)
             \/ BodyRead(t) \/ BodyRefused(t) \/ BodyChainPasses(t)
             \/ UpstreamFails(t) \/ UpstreamAnswers(t)
             \/ ResponseChainPasses(t) \/ Sent(t) \/ Disconnect(t)
      PROVE  CallInv'
  <2>1. UNCHANGED <<call, permits>>
    BY <1>6 DEF Arrive, RequestChainPasses, Refused, AcquireBuffer, BodyRead, BodyRefused,
                BodyChainPasses, UpstreamFails, UpstreamAnswers, ResponseChainPasses, Sent,
                Disconnect
  <2> QED
    BY <1>1, <2>1
<1>7. CASE UNCHANGED vars
  BY <1>1, <1>7 DEF vars
<1> QED
  BY <1>1, <1>2, <1>4, <1>5, <1>6, <1>7 DEF Next, Calling

\* What the policy lets through is what the operator opened.
LEMMA AllowedAddress ==
  ASSUME NEW ip \in Addresses, NEW nets, classify(ip, nets) = "allowed"
  PROVE  ip.range = "global" \/ (ip.range = "private" /\ ip.net \in nets)
<1>1. PICK c : c = canonicalize(ip)
  OBVIOUS
<1>2. c.family \in {"v4", "v6"} /\ c.range = ip.range /\ c.net = ip.net
      /\ c.range \in {"global", "private", "reserved"}
  BY <1>1 DEF canonicalize, Addresses
<1>3. ~is_always_blocked(c) /\ ~(is_private(c) /\ c.net \notin nets)
  BY <1>1 DEF classify, Verdict
<1> QED
  BY <1>2, <1>3 DEF is_always_blocked, v4_always_blocked, v6_always_blocked, is_private

LEMMA AllowedTarget ==
  ASSUME NEW target \in Targets, NEW p, allows(p, target)
  PROVE  \E e \in p.allow : e.host = target.host /\ e.tls = target.tls
<1>1. PICK e : e = authority_of(target)
  OBVIOUS
<1>2. e \in p.allow /\ e.host = target.host /\ e.tls = target.tls
  BY <1>1 DEF allows, authority_of, Targets
<1> QED
  BY <1>2

\* No address is dialled for a filter that the operator did not open to it,
\* whatever the resolver answered and however calls, time-outs, aborted hooks and
\* reloads interleave (outbound_http.rs resolve_and_connect, outbound.rs classify).
THEOREM DialledWasVetted == Spec => []OnlyVettedDialled
<1>1. CallInv => OnlyVettedDialled
  <2> SUFFICES ASSUME CallInv, NEW t \in Task, call[t].pc = "dialling"
               PROVE  LET p == Policy[call[t].filter]
                      IN  /\ \E e \in p.allow : e.host = call[t].target.host
                                                /\ e.tls = call[t].target.tls
                          /\ call[t].addrs # <<>>
                          /\ \A i \in DOMAIN call[t].addrs :
                               LET ip == call[t].addrs[i]
                               IN  ip.range = "global"
                                   \/ (ip.range = "private" /\ ip.net \in p.allow_private)
    BY DEF OnlyVettedDialled
  <2>1. PICK c : c = call[t] /\ Vetted(c) /\ c.pc = "dialling"
    BY DEF CallInv
  <2>2. PICK p : p = Policy[c.filter]
    OBVIOUS
  <2>3. c.target \in Targets /\ allows(p, c.target)
    BY <2>1, <2>2, ChainAssumption DEF Vetted, ChainAssumption
  <2>4. \E e \in p.allow : e.host = c.target.host /\ e.tls = c.target.tls
    BY <2>3, AllowedTarget
  <2>5. c.addrs \in Seq(Addresses) /\ c.addrs # <<>> /\ all_addresses_allowed(c.addrs, p)
    BY <2>1, <2>2 DEF Vetted
  <2>6. ASSUME NEW i \in DOMAIN c.addrs
        PROVE  c.addrs[i].range = "global"
               \/ (c.addrs[i].range = "private" /\ c.addrs[i].net \in p.allow_private)
    <3>1. c.addrs[i] \in Addresses /\ classify(c.addrs[i], p.allow_private) = "allowed"
      BY <2>5 DEF all_addresses_allowed
    <3> QED
      BY <3>1, AllowedAddress
  <2> QED
    BY <2>1, <2>2, <2>4, <2>5, <2>6
<1>2. Init => CallInv
  BY CallInit
<1>3. WalkInv /\ CallInv /\ [Next]_vars => CallInv'
  BY CallNext
<1> QED
  BY WalkInit, WalkNext, <1>1, <1>2, <1>3, PTL DEF Spec

\* No permit of a filter's outbound semaphore leaks or is given twice, whether a
\* call completes, fails, times out or is aborted with the hook that made it
\* (outbound_http.rs dispatch, the OwnedSemaphorePermit of the spawned call).
THEOREM PermitsAreExact == Spec => []PermitsExact
<1>1. CallInv => PermitsExact
  BY DEF CallInv
<1> QED
  BY WalkInit, WalkNext, CallInit, CallNext, <1>1, PTL DEF Spec

----------------------------------------------------------------------------
(* Body buffers.                                                           *)

Holders == {t \in Task : HoldsBuffer(t)}

\* No permit of the body-buffer semaphore is lost or given twice: the free ones
\* and the requests that hold one are MAX_INFLIGHT_BODY_BUFFERS.
BuffersExact == buffers \in Nat /\ buffers + Cardinality(Holders) = Buffers

\* What a step of t does to the buffers.
BufferMoved(t) ==
  \/ buffers' = buffers /\ (HoldsBuffer(t)' <=> HoldsBuffer(t))
  \/ ReleaseBuffer(t) /\ ~HoldsBuffer(t)'
  \/ buffers > 0 /\ buffers' = buffers - 1 /\ ~HoldsBuffer(t) /\ HoldsBuffer(t)'

LEMMA HoldersFinite == IsFiniteSet(Holders) /\ Cardinality(Holders) \in Nat
<1>1. IsFiniteSet(Task) /\ Holders \subseteq Task
  BY ChainAssumption DEF ChainAssumption, Holders
<1> QED
  BY <1>1, FS_Subset, FS_CardinalityType

LEMMA BufferMovedKeeps ==
  ASSUME BuffersExact, NEW t \in Task, Moved(t), BufferMoved(t)
  PROVE  BuffersExact'
<1>1. \A u \in Task : u # t => (HoldsBuffer(u)' <=> HoldsBuffer(u))
  BY DEF Moved, HoldsBuffer
<1>2. /\ HoldsBuffer(t)' => Holders' = Holders \cup {t}
      /\ ~HoldsBuffer(t)' => Holders' = Holders \ {t}
      /\ t \in Holders <=> HoldsBuffer(t)
  BY <1>1 DEF Holders
<1>3. buffers \in Nat /\ buffers + Cardinality(Holders) = Buffers /\ Cardinality(Holders) \in Nat
  BY HoldersFinite DEF BuffersExact
<1>4. CASE buffers' = buffers /\ (HoldsBuffer(t)' <=> HoldsBuffer(t))
  <2>1. Holders' = Holders
    <3>1. CASE HoldsBuffer(t)
      <4>1. t \in Holders /\ Holders' = Holders \cup {t}
        BY <1>2, <1>4, <3>1
      <4> QED
        BY <4>1
    <3>2. CASE ~HoldsBuffer(t)
      <4>1. t \notin Holders /\ Holders' = Holders \ {t}
        BY <1>2, <1>4, <3>2
      <4> QED
        BY <4>1
    <3> QED
      BY <3>1, <3>2
  <2> QED
    BY <1>3, <1>4, <2>1 DEF BuffersExact
<1>5. CASE ReleaseBuffer(t) /\ ~HoldsBuffer(t)' /\ HoldsBuffer(t)
  <2>1. buffers' = buffers + 1
    BY <1>5 DEF ReleaseBuffer
  <2>2. t \in Holders /\ Holders' = Holders \ {t}
    BY <1>2, <1>5
  <2>3. Cardinality(Holders') = Cardinality(Holders) - 1
    BY <2>2, HoldersFinite, FS_RemoveElement
  <2> QED
    BY <1>3, <2>1, <2>3 DEF BuffersExact
<1>6. CASE ReleaseBuffer(t) /\ ~HoldsBuffer(t)' /\ ~HoldsBuffer(t)
  <2>1. buffers' = buffers + 0
    BY <1>6 DEF ReleaseBuffer
  <2>2. t \notin Holders /\ Holders' = Holders \ {t}
    BY <1>2, <1>6
  <2>3. Holders' = Holders
    BY <2>2
  <2> QED
    BY <1>3, <2>1, <2>3 DEF BuffersExact
<1>7. CASE buffers > 0 /\ buffers' = buffers - 1 /\ ~HoldsBuffer(t) /\ HoldsBuffer(t)'
  <2>1. t \notin Holders /\ Holders' = Holders \cup {t}
    BY <1>2, <1>7
  <2>2. Cardinality(Holders') = Cardinality(Holders) + 1
    BY <2>1, HoldersFinite, FS_AddElement
  <2> QED
    BY <1>3, <1>7, <2>2 DEF BuffersExact
<1> QED
  BY <1>4, <1>5, <1>6, <1>7 DEF BufferMoved

\* An answered request holds no buffer.
LEMMA RespondReleases ==
  ASSUME WalkInv, NEW t \in Task, NEW answer, Respond(t, answer)
  PROVE  BufferMoved(t)
<1>1. PICK r : r = task[t] /\ Shape(r)
  BY DEF WalkInv, Walked
<1>0. PICK a : a = Framed(t, answer)
  OBVIOUS
<1>2. PICK q : q = IF r.gone THEN [Blank EXCEPT !.pc = "sent"]
                  ELSE [(IF answer.streamed THEN r ELSE Blank) EXCEPT !.pc = "answered",
                                                                     !.answer = a]
  OBVIOUS
<1>3. task' = [task EXCEPT ![t] = q]
  BY <1>0, <1>1, <1>2, RespondTo
<1>4. q.pc \in {"answered", "sent"}
  BY <1>1, <1>2 DEF Shape, Blank
<1>5. task'[t] = q
  BY <1>3 DEF WalkInv, Tabular
<1> QED
  BY <1>4, <1>5 DEF BufferMoved, HoldsBuffer, Respond

LEMMA HookBuffer ==
  ASSUME WalkInv, NEW t \in Task, HookEnds(t)
  PROVE  BufferMoved(t)
<1>1. CASE HookContinues(t)
  <2>1. task'[t] = Passed(t) /\ buffers' = buffers
    BY <1>1 DEF HookContinues, WalkInv, Tabular
  <2>2. Passed(t).pc = task[t].pc /\ Passed(t).gone = task[t].gone
    BY <1>1, PassedWalked DEF HookContinues
  <2> QED
    BY <2>1, <2>2 DEF BufferMoved, HoldsBuffer
<1>2. CASE HookModifies(t)
  <2>1. task'[t].pc = task[t].pc /\ task'[t].gone = task[t].gone /\ buffers' = buffers
    BY <1>2, EditedWalked DEF HookModifies
  <2> QED
    BY <2>1 DEF BufferMoved, HoldsBuffer
<1>3. CASE HookShortCircuits(t)
  BY <1>3, RespondReleases DEF HookShortCircuits
<1>4. CASE \E err \in RunErrors : HookFails(t, err)
  BY <1>4, RespondReleases DEF HookFails
<1> QED
  BY <1>1, <1>2, <1>3, <1>4 DEF HookEnds

LEMMA RequestPassedBuffer ==
  ASSUME WalkInv, NEW t \in Task, RequestChainPasses(t)
  PROVE  Moved(t) /\ BufferMoved(t)
<1>1. PICK r : r = task[t] /\ Shape(r)
  BY DEF WalkInv, Walked
<1>2. r.pc = "request" /\ buffers' = buffers
  BY <1>1 DEF RequestChainPasses
<1>3. PICK x \in {"queue", "upstream"} : GoTo(t, x)
  BY DEF RequestChainPasses
<1>4. PICK q : q = IF r.gone THEN [Blank EXCEPT !.pc = "sent"] ELSE [r EXCEPT !.pc = x, !.k = 1]
  OBVIOUS
<1>5. task' = [task EXCEPT ![t] = q] /\ q.pc \in {"queue", "upstream", "sent"}
  BY <1>1, <1>3, <1>4 DEF GoTo, Shape, Blank
<1>6. Tabular(task)' /\ task'[t] = q /\ \A u \in Task : u # t => task'[u] = task[u]
  BY <1>5 DEF WalkInv, Tabular
<1>7. Walked(task'[t])
  BY RequestPassed DEF WalkInv
<1> QED
  BY <1>1, <1>2, <1>5, <1>6, <1>7 DEF Moved, BufferMoved, HoldsBuffer

LEMMA BufferNext == WalkInv /\ BuffersExact /\ [Next]_vars => BuffersExact'
<1> SUFFICES ASSUME WalkInv, BuffersExact, [Next]_vars PROVE BuffersExact'
  OBVIOUS
<1>1. CASE task' = task /\ buffers' = buffers
  BY <1>1 DEF BuffersExact, Holders, HoldsBuffer
<1>2. ASSUME NEW t \in Task, Moved(t), BufferMoved(t) PROVE BuffersExact'
  BY <1>2, BufferMovedKeeps
<1>3. ASSUME NEW t \in Task, NEW kind, Arrive(t, kind) PROVE Moved(t) /\ BufferMoved(t)
  BY <1>3, ArriveMoved DEF Arrive, BufferMoved, HoldsBuffer
<1>4. ASSUME NEW t \in Task, HookEnds(t) PROVE Moved(t) /\ BufferMoved(t)
  BY <1>4, HookMoves, HookBuffer
<1>5. ASSUME NEW t \in Task, Refused(t) \/ BodyRefused(t) \/ UpstreamFails(t)
      PROVE  Moved(t) /\ BufferMoved(t)
  <2>1. BufferMoved(t)
    BY <1>5, RespondReleases DEF Refused, BodyRefused, UpstreamFails
  <2> QED
    BY <1>5, <2>1, Refusals
<1>6. ASSUME NEW t \in Task, BodyRead(t) PROVE Moved(t) /\ BufferMoved(t)
  BY <1>6, BodyIsRead DEF BodyRead, BufferMoved, HoldsBuffer
<1>7. ASSUME NEW t \in Task, BodyChainPasses(t) PROVE Moved(t) /\ BufferMoved(t)
  BY <1>7, BodyPassed DEF BodyChainPasses, BufferMoved, HoldsBuffer
<1>8. ASSUME NEW t \in Task, UpstreamAnswers(t) PROVE Moved(t) /\ BufferMoved(t)
  BY <1>8, UpstreamAnswered DEF UpstreamAnswers, BufferMoved, HoldsBuffer
<1>9. ASSUME NEW t \in Task, ResponseChainPasses(t) PROVE Moved(t) /\ BufferMoved(t)
  BY <1>9, ResponsePassed, RespondReleases DEF ResponseChainPasses
<1>10. ASSUME NEW t \in Task, Sent(t) PROVE Moved(t) /\ BufferMoved(t)
  BY <1>10, SentMoved DEF Sent, BufferMoved, HoldsBuffer
<1>11. ASSUME NEW t \in Task, Calling(t) PROVE BuffersExact'
  <2>1. CASE task' = task
    BY <1>1, <1>11, <2>1, CallMoves
  <2>2. CASE Moved(t) /\ task'[t].pc = task[t].pc /\ task'[t].gone = task[t].gone
    <3>1. BufferMoved(t)
      BY <1>11, <2>2, CallMoves DEF BufferMoved, HoldsBuffer
    <3> QED
      BY <1>2, <2>2, <3>1
  <2> QED
    BY <1>11, <2>1, <2>2, CallMoves
<1>12. ASSUME NEW t \in Task, RequestChainPasses(t) PROVE Moved(t) /\ BufferMoved(t)
  BY <1>12, RequestPassedBuffer
<1>13. ASSUME NEW t \in Task, AcquireBuffer(t) PROVE Moved(t) /\ BufferMoved(t)
  BY <1>13, BufferAcquired DEF AcquireBuffer, BufferMoved, HoldsBuffer
<1>14. ASSUME NEW t \in Task, Disconnect(t) PROVE Moved(t) /\ BufferMoved(t)
  BY <1>14, Disconnected DEF Disconnect, BufferMoved, HoldsBuffer
<1>15. CASE Reload
  BY <1>1, <1>15 DEF Reload
<1>16. CASE UNCHANGED vars
  BY <1>1, <1>16 DEF vars
<1>17. ASSUME NEW t \in Task,
              \/ \E kind \in DOMAIN Inbound : Arrive(t, kind)
              \/ HookEnds(t)
              \/ RequestChainPasses(t) \/ Refused(t) \/ AcquireBuffer(t)
              \/ BodyRead(t) \/ BodyRefused(t) \/ BodyChainPasses(t)
              \/ UpstreamFails(t) \/ UpstreamAnswers(t)
              \/ ResponseChainPasses(t) \/ Sent(t) \/ Disconnect(t)
       PROVE  BuffersExact'
  <2>1. Moved(t) /\ BufferMoved(t)
    BY <1>3, <1>4, <1>5, <1>6, <1>7, <1>8, <1>9, <1>10, <1>12, <1>13, <1>14, <1>17
  <2> QED
    BY <1>2, <2>1
<1> QED
  BY <1>11, <1>15, <1>16, <1>17 DEF Next, Calling

\* The body buffers neither leak nor multiply, whether the request they are held
\* for is answered, refused, timed out or given up by its client (body.rs
\* MAX_INFLIGHT_BODY_BUFFERS, proxy.rs buffer_request_body).
THEOREM BuffersAreExact == Spec => []BuffersExact
<1>1. Init => BuffersExact
  <2> SUFFICES ASSUME Init PROVE BuffersExact
    OBVIOUS
  <2>1. \A t \in Task : task[t] = Blank
    BY DEF Init
  <2>2. Blank.pc = "new"
    BY DEF Blank
  <2>3. Holders = {}
    BY <2>1, <2>2 DEF Holders, HoldsBuffer
  <2>4. Cardinality(Holders) = 0
    BY <2>3, FS_EmptySet
  <2>5. buffers = Buffers /\ Buffers \in Nat
    BY ChainAssumption DEF Init, ChainAssumption
  <2> QED
    BY <2>4, <2>5 DEF BuffersExact
<1> QED
  BY WalkInit, WalkNext, BufferNext, <1>1, PTL DEF Spec

----------------------------------------------------------------------------
(* The headers of a name, and what each operation makes of them.           *)

NameStep(name, kept, h) == IF h.name = name THEN Append(kept, h) ELSE kept
Naming == INSTANCE Folding WITH Op <- NameStep

DropStep(names, kept, h) == IF h.name \notin names THEN Append(kept, h) ELSE kept
Dropping == INSTANCE Folding WITH Op <- DropStep

PassStep(original, kept, h) ==
  IF ~is_hop_by_hop(h.name) /\ (SentAs(h, original) # {} \/ ValidValue(h.value))
  THEN Append(kept, h) ELSE kept
Passing == INSTANCE Folding WITH Op <- PassStep

CopyStep(any, kept, h) ==
  IF ~is_hop_by_hop(h.name) /\ ValidValue(h.value) THEN Append(kept, h) ELSE kept
Copying == INSTANCE Folding WITH Op <- CopyStep

FitStep(sent, kept, h) == IF h.value \in sent \/ ValidValue(h.value) THEN Append(kept, h) ELSE kept
Fitting == INSTANCE Folding WITH Op <- FitStep

Named(U, name)      == {h \in U : h.name = name}
NotNamed(U, names)  == {h \in U : h.name \notin names}
Passable(U, original) ==
  {h \in U : ~is_hop_by_hop(h.name) /\ (SentAs(h, original) # {} \/ ValidValue(h.value))}
Fit(U, sent) == {h \in U : h.value \in sent \/ ValidValue(h.value)}

\* A list is a sequence over something,
LEMMA ListIsSeq ==
  ASSUME NEW s, IsList(s)
  PROVE  \E U : s \in Seq(U)
<1>1. PICK n : n = Len(s) /\ n \in Nat /\ s = [i \in 1..n |-> s[i]]
  BY DEF IsList
<1>2. PICK U : U = {s[i] : i \in 1..n}
  OBVIOUS
<1>3. s \in [1..n -> U]
  BY <1>1, <1>2
<1>4. s \in Seq(U)
  BY <1>1, <1>3
<1> QED
  BY <1>4

\* and a sequence is a list.
LEMMA SeqIsList ==
  ASSUME NEW U, NEW s \in Seq(U)
  PROVE  IsList(s)
BY DEF IsList

\* The headers of a name are those kept of that name; and so on.
LEMMA OnlyKept ==
  ASSUME NEW U, NEW s \in Seq(U), NEW name
  PROVE  Naming!Kept(Only(s, name), s, Len(s), Named(U, name))
<1>1. Only(s, name) = Naming!Walk(name, <<>>, s)
  BY DEF Only, Keep, NameStep, Naming!Walk
<1>2. PICK n : n = Len(s) /\ n \in Nat /\ DOMAIN s = 1..n /\ \A i \in 1..n : s[i] \in U
  OBVIOUS
<1>3. \A i \in 1..n : \A kept : NameStep(name, kept, s[i]) =
        IF s[i] \in Named(U, name) THEN Append(kept, s[i]) ELSE kept
  BY <1>2 DEF NameStep, Named
<1>4. Naming!Kept(Naming!Walk(name, <<>>, s), s, n, Named(U, name))
  BY <1>2, <1>3, Naming!WalkKeeps
<1> QED
  BY <1>1, <1>2, <1>4

\* Those left when some names are dropped.
LEMMA DropKept ==
  ASSUME NEW U, NEW s \in Seq(U), NEW names
  PROVE  Naming!Kept(Drop(s, names), s, Len(s), NotNamed(U, names))
<1>1. Drop(s, names) = Dropping!Walk(names, <<>>, s)
  BY DEF Drop, Keep, DropStep, Dropping!Walk
<1>2. PICK n : n = Len(s) /\ n \in Nat /\ DOMAIN s = 1..n /\ \A i \in 1..n : s[i] \in U
  OBVIOUS
<1>3. \A i \in 1..n : \A kept : DropStep(names, kept, s[i]) =
        IF s[i] \in NotNamed(U, names) THEN Append(kept, s[i]) ELSE kept
  BY <1>2 DEF DropStep, NotNamed
<1>4. Dropping!Kept(Dropping!Walk(names, <<>>, s), s, n, NotNamed(U, names))
  BY <1>2, <1>3, Dropping!WalkKeeps
<1> QED
  BY <1>1, <1>2, <1>4 DEF Naming!Kept, Dropping!Kept

\* Those copy_headers_preserving passes on.
LEMMA PassKept ==
  ASSUME NEW U, NEW s \in Seq(U), NEW original
  PROVE  Naming!Kept(PassedOn(s, original), s, Len(s), Passable(U, original))
<1>1. PassedOn(s, original) = Passing!Walk(original, <<>>, s)
  BY DEF PassedOn, Keep, PassStep, Passing!Walk
<1>2. PICK n : n = Len(s) /\ n \in Nat /\ DOMAIN s = 1..n /\ \A i \in 1..n : s[i] \in U
  OBVIOUS
<1>3. \A i \in 1..n : \A kept : PassStep(original, kept, s[i]) =
        IF s[i] \in Passable(U, original) THEN Append(kept, s[i]) ELSE kept
  BY <1>2 DEF PassStep, Passable
<1>4. Passing!Kept(Passing!Walk(original, <<>>, s), s, n, Passable(U, original))
  BY <1>2, <1>3, Passing!WalkKeeps
<1> QED
  BY <1>1, <1>2, <1>4 DEF Naming!Kept, Passing!Kept

\* Those that can be sent.
LEMMA FitKept ==
  ASSUME NEW U, NEW s \in Seq(U), NEW sent
  PROVE  Naming!Kept(Sendable(s, sent), s, Len(s), Fit(U, sent))
<1>1. Sendable(s, sent) = Fitting!Walk(sent, <<>>, s)
  BY DEF Sendable, Keep, FitStep, Fitting!Walk
<1>2. PICK n : n = Len(s) /\ n \in Nat /\ DOMAIN s = 1..n /\ \A i \in 1..n : s[i] \in U
  OBVIOUS
<1>3. \A i \in 1..n : \A kept : FitStep(sent, kept, s[i]) =
        IF s[i] \in Fit(U, sent) THEN Append(kept, s[i]) ELSE kept
  BY <1>2 DEF FitStep, Fit
<1>4. Fitting!Kept(Fitting!Walk(sent, <<>>, s), s, n, Fit(U, sent))
  BY <1>2, <1>3, Fitting!WalkKeeps
<1> QED
  BY <1>1, <1>2, <1>4 DEF Naming!Kept, Fitting!Kept

\* What is kept of a sequence is one.
LEMMA KeptIsSeq ==
  ASSUME NEW U, NEW s \in Seq(U), NEW T, NEW r, Naming!Kept(r, s, Len(s), T)
  PROVE  r \in Seq(U \cap T) /\ r \in Seq(U)
<1>1. PICK n : n = Len(s) /\ n \in Nat /\ \A i \in 1..n : s[i] \in U
  OBVIOUS
<1>2. r \in Seq(U \cap T)
  BY <1>1, Naming!KeptThose
<1> QED
  BY <1>2

\* And so is what copy_headers copies.
LEMMA CopyIsList ==
  ASSUME NEW hs, IsList(hs)
  PROVE  IsList(copy_headers(hs))
<1>1. PICK U : hs \in Seq(U)
  BY ListIsSeq
<1>0. PICK T : T = {h \in U : ~is_hop_by_hop(h.name) /\ ValidValue(h.value)}
  OBVIOUS
<1>2. PICK n : n = Len(hs) /\ n \in Nat /\ DOMAIN hs = 1..n /\ \A i \in 1..n : hs[i] \in U
  BY <1>1
<1>3. copy_headers(hs) = Copying!Walk(0, <<>>, hs)
  BY DEF copy_headers, Keep, CopyStep, Copying!Walk
<1>4. \A i \in 1..n : \A kept : CopyStep(0, kept, hs[i]) =
        IF hs[i] \in T THEN Append(kept, hs[i]) ELSE kept
  BY <1>0, <1>2 DEF CopyStep
<1>5. Copying!Kept(Copying!Walk(0, <<>>, hs), hs, n, T)
  BY <1>2, <1>4, Copying!WalkKeeps
<1>6. Naming!Kept(copy_headers(hs), hs, Len(hs), T)
  BY <1>2, <1>3, <1>5 DEF Naming!Kept, Copying!Kept
<1> QED
  BY <1>1, <1>6, KeptIsSeq, SeqIsList

\* The headers of a name are headers of that name, and all of them.
LEMMA OnlyIs ==
  ASSUME NEW U, NEW s \in Seq(U), NEW name
  PROVE  /\ Only(s, name) \in Seq(U) /\ Only(s, name) \in Seq(Named(U, name))
         /\ \A r : Naming!Kept(r, s, Len(s), Named(U, name)) => r = Only(s, name)
         /\ \A i \in 1..Len(s) : s[i].name = name => \E j \in 1..Len(Only(s, name)) : Only(s, name)[j] = s[i]
<1>1. PICK n, o, N : n = Len(s) /\ n \in Nat /\ o = Only(s, name) /\ N = Named(U, name)
  OBVIOUS
<1>2. Naming!Kept(o, s, n, N)
  BY <1>1, OnlyKept
<1>3. o \in Seq(U \cap N) /\ o \in Seq(U)
  BY <1>1, <1>2, KeptIsSeq
<1>4. U \cap N = N
  BY <1>1 DEF Named
<1>5. \A r : Naming!Kept(r, s, n, N) => r = o
  BY <1>1, <1>2, Naming!KeptUnique
<1>6. ASSUME NEW i \in 1..n, s[i].name = name PROVE \E j \in 1..Len(o) : o[j] = s[i]
  <2>1. s[i] \in N
    BY <1>1, <1>6 DEF Named
  <2> QED
    BY <1>1, <1>2, <2>1, Naming!KeptEach
<1> QED
  BY <1>1, <1>3, <1>4, <1>5, <1>6

\* One header more.
LEMMA OnlyAppend ==
  ASSUME NEW U, NEW s \in Seq(U), NEW x \in U, NEW name
  PROVE  Only(Append(s, x), name) =
           IF x.name = name THEN Append(Only(s, name), x) ELSE Only(s, name)
<1>0. Len(s) \in Nat
  OBVIOUS
<1>1. PICK n, o, N, t : n = Len(s) /\ n \in Nat /\ o = Only(s, name) /\ N = Named(U, name)
                        /\ t = Append(s, x)
  BY <1>0
<1>2. Naming!Kept(o, s, n, N)
  BY <1>1, OnlyKept
<1>3. t \in Seq(U) /\ Len(t) = n + 1 /\ t[n + 1] = x /\ \A i \in 1..n : t[i] = s[i]
  BY <1>1
<1>4. Naming!Kept(IF x \in N THEN Append(o, x) ELSE o, t, n + 1, N)
  BY <1>1, <1>2, <1>3, Naming!KeptMore
<1>5. Only(t, name) = IF x \in N THEN Append(o, x) ELSE o
  BY <1>1, <1>3, <1>4, OnlyIs
<1>6. x \in N <=> x.name = name
  BY <1>1 DEF Named
<1> QED
  BY <1>1, <1>5, <1>6

\* Of what a test T leaves, the headers of a name are those of the name that pass it.
LEMMA OnlyOfKept ==
  ASSUME NEW U, NEW s \in Seq(U), NEW T, NEW r, Naming!Kept(r, s, Len(s), T), NEW name
  PROVE  Naming!Kept(Only(r, name), Only(s, name), Len(Only(s, name)), T)
<1>1. PICK n, o, N : n = Len(s) /\ n \in Nat /\ o = Only(s, name) /\ N = Named(U, name)
  OBVIOUS
<1>2. PICK p : Naming!Kept(p, s, n, T \cap N)
  BY <1>1, Naming!KeptExists
<1>3. Naming!Kept(p, r, Len(r), N)
  BY <1>1, <1>2, Naming!KeptTwice
<1>4. r \in Seq(U)
  BY KeptIsSeq
<1>5. p = Only(r, name)
  BY <1>1, <1>3, <1>4, OnlyIs
<1>6. Naming!Kept(o, s, n, N)
  BY <1>1, OnlyKept
<1>7. T \cap N = N \cap T
  OBVIOUS
<1>8. Naming!Kept(p, s, n, N \cap T)
  BY <1>2, <1>7
<1>9. Naming!Kept(p, o, Len(o), T)
  BY <1>1, <1>6, <1>8, Naming!KeptTwice
<1> QED
  BY <1>1, <1>5, <1>9

\* Dropping names leaves the other names alone.
LEMMA OnlyDrop ==
  ASSUME NEW U, NEW s \in Seq(U), NEW names, NEW name
  PROVE  /\ Drop(s, names) \in Seq(U)
         /\ Only(Drop(s, names), name) = IF name \in names THEN <<>> ELSE Only(s, name)
         /\ \A i \in 1..Len(Drop(s, names)) : Drop(s, names)[i].name \notin names
<1>1. PICK d, o, T : d = Drop(s, names) /\ o = Only(s, name) /\ T = NotNamed(U, names)
  OBVIOUS
<1>2. Naming!Kept(d, s, Len(s), T)
  BY <1>1, DropKept
<1>3. d \in Seq(U) /\ d \in Seq(U \cap T)
  BY <1>2, KeptIsSeq
<1>4. \A i \in 1..Len(d) : d[i].name \notin names
  BY <1>1, <1>3 DEF NotNamed
<1>5. PICK q : q = Only(d, name)
  OBVIOUS
<1>6. Naming!Kept(q, o, Len(o), T)
  BY <1>1, <1>2, <1>5, OnlyOfKept
<1>7. o \in Seq(Named(U, name))
  BY <1>1, OnlyIs
<1>8. PICK n : n = Len(o) /\ n \in Nat /\ DOMAIN o = 1..n /\ \A i \in 1..n : o[i] \in Named(U, name)
  BY <1>7
<1>9. CASE name \in names
  <2>1. \A i \in 1..n : o[i] \notin T
    BY <1>1, <1>8, <1>9 DEF Named, NotNamed
  <2>2. q = <<>>
    BY <1>6, <1>8, <2>1, Naming!KeptNone
  <2> QED
    BY <1>1, <1>3, <1>4, <1>5, <1>9, <2>2
<1>10. CASE name \notin names
  <2>1. \A i \in 1..n : o[i] \in T
    BY <1>1, <1>8, <1>10 DEF Named, NotNamed
  <2>2. q = o
    BY <1>6, <1>7, <1>8, <2>1, Naming!KeptWhole
  <2> QED
    BY <1>1, <1>3, <1>4, <1>5, <1>10, <2>2
<1> QED
  BY <1>9, <1>10

\* t is s with every header replaced by one of the same name.
Image(t, s, U, G) == t = [i \in DOMAIN s |-> G[s[i]]] /\ \A h \in U : G[h].name = h.name

\* What is done header by header, without renaming, is done to each name.
LEMMA OnlyMapped ==
  ASSUME NEW U, NEW s \in Seq(U), NEW G, NEW t, Image(t, s, U, G), NEW name
  PROVE  t \in Seq({G[h] : h \in U}) /\ Naming!Follows(Only(t, name), Only(s, name), G)
<1>1. PICK n, V, a, b : /\ n = Len(s) /\ V = {G[h] : h \in U}
                        /\ a = Only(s, name) /\ b = Only(t, name)
  OBVIOUS
<1>2. n \in Nat /\ DOMAIN s = 1..n /\ \A i \in 1..n : s[i] \in U
  BY <1>1
<1>3. t = [i \in 1..n |-> G[s[i]]]
  BY <1>2 DEF Image
<1>4. t \in Seq(V) /\ Len(t) = n
  <2>1. t \in [1..n -> V]
    BY <1>1, <1>2, <1>3
  <2> QED
    BY <1>2, <2>1
<1>5. \A i \in 1..n : t[i] = G[s[i]] /\ (s[i] \in Named(U, name) <=> t[i] \in Named(V, name))
  BY <1>1, <1>2, <1>3 DEF Image, Named
<1>6. Naming!Kept(a, s, n, Named(U, name)) /\ Naming!Kept(b, t, n, Named(V, name))
  BY <1>1, <1>4, OnlyKept
<1>7. Naming!Follows(b, a, G)
  BY <1>2, <1>5, <1>6, Naming!KeptMapped
<1> QED
  BY <1>1, <1>4, <1>7

\* The contract's view of a name: its lines, decoded, unless Connection lists it.
LEMMA ViewOnly ==
  ASSUME NEW U, NEW map \in Seq(U), NEW name
  PROVE  /\ IsList(headers_to_vec(map))
         /\ Only(headers_to_vec(map), name) = IF name \in HOP_BY_HOP THEN <<>> ELSE Decoded(map, name)
<1>1. PICK names, d, t, o, q : /\ names = HOP_BY_HOP \cup connection_named(map)
                               /\ d = Drop(map, names) /\ t = headers_to_vec(map)
                               /\ o = Only(d, name) /\ q = Only(t, name)
  OBVIOUS
<1>2. /\ d \in Seq(U)
      /\ o = IF name \in names THEN <<>> ELSE Only(map, name)
  <2>1. Drop(map, names) \in Seq(U)
    BY OnlyDrop
  <2>2. Only(Drop(map, names), name) = IF name \in names THEN <<>> ELSE Only(map, name)
    BY OnlyDrop
  <2> QED
    BY <1>1, <2>1, <2>2
<1>3. PICK G : G = [h \in U |-> Hdr(h.name, lossy(h.value))]
  OBVIOUS
<1>4. Image(t, d, U, G)
  <2>1. t = [i \in DOMAIN d |-> Hdr(d[i].name, lossy(d[i].value))]
    BY <1>1 DEF headers_to_vec
  <2>2. \A i \in DOMAIN d : d[i] \in U
    BY <1>2
  <2>3. \A h \in U : G[h].name = h.name
    BY <1>3 DEF Hdr
  <2>4. t = [i \in DOMAIN d |-> G[d[i]]]
    BY <1>3, <2>1, <2>2
  <2> QED
    BY <2>3, <2>4 DEF Image
<1>5. t \in Seq({G[h] : h \in U}) /\ Naming!Follows(q, o, G)
  BY <1>1, <1>2, <1>4, OnlyMapped
<1>a. Len(q) = Len(o) /\ \A j \in 1..Len(o) : q[j] = G[o[j]]
  BY <1>5 DEF Naming!Follows
<1>6. IsList(t)
  BY <1>5, SeqIsList
<1>7. PICK V : q \in Seq(V)
  BY <1>1, <1>5, OnlyIs
<1>8. CASE name \in names
  <2>1. q = <<>>
    BY <1>2, <1>a, <1>7, <1>8
  <2>2. name \notin HOP_BY_HOP => Decoded(map, name) = <<>>
    BY <1>1, <1>8 DEF Decoded
  <2> QED
    BY <1>1, <1>6, <2>1, <2>2
<1>9. CASE name \notin names
  <2>1. o = Only(map, name) /\ name \notin HOP_BY_HOP /\ name \notin connection_named(map)
    BY <1>1, <1>2, <1>9
  <2>2. o \in Seq(Named(U, name))
    BY <2>1, OnlyIs
  <2>3. Decoded(map, name) = [i \in DOMAIN Lines(map, name) |-> Hdr(name, lossy(Lines(map, name)[i]))]
    BY <2>1 DEF Decoded
  <2>4. PICK n : n = Len(o) /\ n \in Nat /\ DOMAIN o = 1..n /\ \A i \in 1..n : o[i] \in Named(U, name)
    BY <2>2
  <2>5. Lines(map, name) = [i \in 1..n |-> o[i].value]
    BY <2>1, <2>4 DEF Lines
  <2>6. Decoded(map, name) = [i \in 1..n |-> Hdr(name, lossy(o[i].value))]
    BY <2>3, <2>4, <2>5
  <2>7. \A i \in 1..n : q[i] = Hdr(name, lossy(o[i].value))
    BY <1>3, <1>a, <2>4 DEF Named
  <2>8. q = [i \in 1..n |-> Hdr(name, lossy(o[i].value))]
    BY <1>a, <1>7, <2>4, <2>7
  <2> QED
    BY <1>1, <1>6, <2>1, <2>6, <2>8
<1> QED
  BY <1>8, <1>9

\* What the proxy says of the client, as headers.
OwnHeaders(name) == CASE name \in {"x-forwarded-for", "x-real-ip"} -> <<Hdr(name, Peer)>>
                      [] name = "x-forwarded-proto"               -> <<Hdr(name, Scheme)>>
                      [] OTHER                                    -> <<>>

\* The proxy speaks for the forwarding headers, and for no other.
LEMMA ForwardedOnly ==
  ASSUME NEW U, NEW hs \in Seq(U), NEW name
  PROVE  /\ IsList(set_forwarded(hs, Peer, Scheme))
         /\ Only(set_forwarded(hs, Peer, Scheme), name) =
              IF name \in FORWARDED_HEADERS THEN OwnHeaders(name) ELSE Only(hs, name)
<1>1. PICK x, y, z : /\ x = Hdr("x-forwarded-for", Peer) /\ y = Hdr("x-real-ip", Peer)
                     /\ z = Hdr("x-forwarded-proto", Scheme)
  OBVIOUS
<1>2. PICK V : V = U \cup {x, y, z}
  OBVIOUS
<1>3. PICK d, o : d = Drop(hs, FORWARDED_HEADERS) /\ o = Only(d, name)
  OBVIOUS
<1>4. hs \in Seq(V)
  BY <1>2
<1>5. d \in Seq(V)
  BY <1>3, <1>4, OnlyDrop
<1>6. o = IF name \in FORWARDED_HEADERS THEN <<>> ELSE Only(hs, name)
  BY <1>3, OnlyDrop
<1>7. PICK d1, d2, d3 : d1 = Append(d, x) /\ d2 = Append(d1, y) /\ d3 = Append(d2, z)
  OBVIOUS
<1>8. x \in V /\ y \in V /\ z \in V
  BY <1>2
<1>9. d1 \in Seq(V) /\ d2 \in Seq(V) /\ d3 \in Seq(V)
  BY <1>5, <1>7, <1>8
<1>10. d3 = set_forwarded(hs, Peer, Scheme)
  <2>1. set_forwarded(hs, Peer, Scheme) = d \o <<x, y, z>>
    BY <1>1, <1>3 DEF set_forwarded
  <2>2. d \o <<x, y, z>> = d3
    BY <1>5, <1>7, <1>8, <1>9
  <2> QED
    BY <2>1, <2>2
<1>11. x.name = "x-forwarded-for" /\ y.name = "x-real-ip" /\ z.name = "x-forwarded-proto"
  BY <1>1 DEF Hdr
<1>12. /\ Only(d1, name) = IF name = "x-forwarded-for" THEN Append(o, x) ELSE o
       /\ Only(d2, name) = IF name = "x-real-ip" THEN Append(Only(d1, name), y) ELSE Only(d1, name)
       /\ Only(d3, name) = IF name = "x-forwarded-proto" THEN Append(Only(d2, name), z) ELSE Only(d2, name)
  <2>1. Only(d1, name) = IF x.name = name THEN Append(Only(d, name), x) ELSE Only(d, name)
    BY <1>5, <1>7, <1>8, OnlyAppend
  <2>2. Only(Append(d1, y), name) = IF y.name = name THEN Append(Only(d1, name), y) ELSE Only(d1, name)
    <3> HIDE <1>7
    <3> QED
      BY <1>8, <1>9, OnlyAppend
  <2>3. Only(Append(d2, z), name) = IF z.name = name THEN Append(Only(d2, name), z) ELSE Only(d2, name)
    <3> HIDE <1>7
    <3> QED
      BY <1>8, <1>9, OnlyAppend
  <2> QED
    BY <1>3, <1>7, <1>11, <2>1, <2>2, <2>3
<1>13. Append(<<>>, x) = <<x>> /\ Append(<<>>, y) = <<y>> /\ Append(<<>>, z) = <<z>>
  OBVIOUS
<1>14. {"x-forwarded-for", "x-real-ip", "x-forwarded-proto"} \subseteq FORWARDED_HEADERS
  BY DEF FORWARDED_HEADERS
<1>15. Only(d3, name) = IF name \in FORWARDED_HEADERS THEN OwnHeaders(name) ELSE Only(hs, name)
  <2>1. CASE name = "x-forwarded-for"
    BY <1>1, <1>6, <1>12, <1>13, <1>14, <2>1 DEF OwnHeaders
  <2>2. CASE name = "x-real-ip"
    BY <1>1, <1>6, <1>12, <1>13, <1>14, <2>2 DEF OwnHeaders
  <2>3. CASE name = "x-forwarded-proto"
    BY <1>1, <1>6, <1>12, <1>13, <1>14, <2>3 DEF OwnHeaders
  <2>4. CASE name \notin {"x-forwarded-for", "x-real-ip", "x-forwarded-proto"}
    <3>1. Only(d3, name) = o
      BY <1>12, <2>4
    <3>2. OwnHeaders(name) = <<>>
      BY <2>4 DEF OwnHeaders
    <3> QED
      BY <1>6, <3>1, <3>2
  <2> QED
    BY <2>1, <2>2, <2>3, <2>4
<1>16. IsList(d3)
  BY <1>9, SeqIsList
<1> QED
  BY <1>10, <1>15, <1>16

----------------------------------------------------------------------------
(* Edits.                                                                  *)

SetStep(par, hs, new) ==
  Append(IF is_repeatable(new.name) THEN hs ELSE remove_headers(hs, {new.name}), new)
Setting == INSTANCE Folding WITH Op <- SetStep

\* What the lines an edit sets make of those that are left.
Replaced(left, set, name) ==
  IF set = <<>> THEN left
  ELSE IF is_repeatable(name) THEN left \o set
  ELSE <<set[Len(set)]>>

\* One header set is a step of Replaced.
LEMMA SetStepOnly ==
  ASSUME NEW V, NEW hs \in Seq(V), NEW x \in V, NEW name, NEW left \in Seq(V), NEW b \in Seq(V),
         Only(hs, name) = Replaced(left, b, name)
  PROVE  /\ SetStep(0, hs, x) \in Seq(V)
         /\ Only(SetStep(0, hs, x), name) =
              Replaced(left, IF x.name = name THEN Append(b, x) ELSE b, name)
<1>1. PICK d, g : /\ d = (IF is_repeatable(x.name) THEN hs ELSE remove_headers(hs, {x.name}))
                  /\ g = SetStep(0, hs, x)
  OBVIOUS
<1>2. d \in Seq(V)
  BY <1>1, OnlyDrop DEF remove_headers
<1>3. g = Append(d, x) /\ g \in Seq(V)
  BY <1>1, <1>2 DEF SetStep
<1>4. Only(g, name) = IF x.name = name THEN Append(Only(d, name), x) ELSE Only(d, name)
  BY <1>2, <1>3, OnlyAppend
<1>5. Only(d, name) = IF ~is_repeatable(x.name) /\ name = x.name THEN <<>> ELSE Only(hs, name)
  <2>1. CASE is_repeatable(x.name)
    BY <1>1, <2>1
  <2>2. CASE ~is_repeatable(x.name)
    <3>1. d = Drop(hs, {x.name})
      BY <1>1, <2>2 DEF remove_headers
    <3>2. PICK names : names = {x.name}
      OBVIOUS
    <3>3. Only(Drop(hs, names), name) = IF name \in names THEN <<>> ELSE Only(hs, name)
      BY OnlyDrop
    <3> QED
      BY <2>2, <3>1, <3>2, <3>3
  <2> QED
    BY <2>1, <2>2
<1>6. CASE x.name # name
  BY <1>1, <1>3, <1>4, <1>5, <1>6
<1>7. CASE x.name = name
  <2>1. PICK c : c = Append(b, x)
    OBVIOUS
  <2>2. c \in Seq(V) /\ c # <<>> /\ c[Len(c)] = x
    BY <2>1
  <2>3. CASE is_repeatable(name)
    <3>1. Only(g, name) = Append(Only(hs, name), x)
      BY <1>4, <1>5, <1>7, <2>3
    <3>2. Only(hs, name) = left \o b
      <4>1. b = <<>> => left \o b = left
        OBVIOUS
      <4> QED
        BY <2>3, <4>1 DEF Replaced
    <3>3. Append(left \o b, x) = left \o c
      <4>1. <<x>> \in Seq(V) /\ left \o b \in Seq(V)
        OBVIOUS
      <4>2. c = b \o <<x>> /\ Append(left \o b, x) = (left \o b) \o <<x>>
        BY <2>1, <4>1, AppendIsConcat
      <4> QED
        BY <4>1, <4>2, ConcatAssociative
    <3>4. Replaced(left, c, name) = left \o c
      BY <2>2, <2>3 DEF Replaced
    <3> QED
      BY <1>1, <1>3, <1>7, <2>1, <3>1, <3>2, <3>3, <3>4
  <2>4. CASE ~is_repeatable(name)
    <3>1. Only(g, name) = <<x>>
      BY <1>4, <1>5, <1>7, <2>4
    <3>2. Replaced(left, c, name) = <<x>>
      BY <2>2, <2>4 DEF Replaced
    <3> QED
      BY <1>1, <1>3, <1>7, <2>1, <3>1, <3>2
  <2> QED
    BY <2>3, <2>4
<1> QED
  BY <1>6, <1>7

\* What a list of headers set makes of a name.
LEMMA SetOnly ==
  ASSUME NEW U, NEW hs \in Seq(U), NEW set, IsList(set), NEW name
  PROVE  /\ IsList(set_headers(hs, set))
         /\ Only(set_headers(hs, set), name) = Replaced(Only(hs, name), Only(set, name), name)
<1>1. PICK W : set \in Seq(W)
  BY ListIsSeq
<1>2. PICK V, n, left, o : V = U \cup W /\ n = Len(set) /\ left = Only(hs, name) /\ o = Only(set, name)
  OBVIOUS
<1>3. hs \in Seq(V) /\ set \in Seq(V) /\ n \in Nat /\ DOMAIN set = 1..n
  BY <1>1, <1>2
<1>4. set_headers(hs, set) = Setting!Fold(0, hs, set)
  BY DEF set_headers, FoldLeft, MapThenFoldSet, Max, SetStep, Setting!Fold, Setting!FoldLeft,
         Setting!MapThenFoldSet, Setting!Max
<1>5. Setting!Ran(Setting!Fold(0, hs, set), 0, hs, set, n)
  BY <1>3, Setting!FoldRan
<1>6. PICK run : /\ run[0] = hs
                 /\ \A i \in 1..n : run[i] = SetStep(0, run[i - 1], set[i])
                 /\ Setting!Fold(0, hs, set) = run[n]
  BY <1>5 DEF Setting!Ran
<1>7. Naming!Kept(o, set, n, Named(V, name))
  BY <1>2, <1>3, OnlyKept
<1>8. PICK b : Naming!KeptRun(b, set, n, Named(V, name)) /\ o = b[n]
  BY <1>3, <1>7, Naming!KeptRunOf
<1>9. left \in Seq(V)
  BY <1>2, <1>3, OnlyIs
<1> DEFINE Good(m) == /\ run[m] \in Seq(V) /\ b[m] \in Seq(V)
                      /\ Only(run[m], name) = Replaced(left, b[m], name)
           S == {m \in Nat : m <= n => Good(m)}
<1>10. 0 \in S
  <2>1. run[0] = hs /\ b[0] = <<>> /\ <<>> \in Seq(V)
    BY <1>6, <1>8 DEF Naming!KeptRun
  <2>2. Replaced(left, <<>>, name) = left
    BY DEF Replaced
  <2> QED
    BY <1>2, <1>3, <2>1, <2>2
<1>11. ASSUME NEW m \in Nat, m \in S PROVE m + 1 \in S
  <2>1. SUFFICES ASSUME m + 1 <= n PROVE Good(m + 1)
    OBVIOUS
  <2>2. m + 1 \in 1..n /\ m <= n /\ (m + 1) - 1 = m
    BY <1>3, <2>1
  <2>3. PICK x, h0, h1, b0, b1 : /\ x = set[m + 1] /\ h0 = run[m] /\ h1 = run[m + 1]
                                 /\ b0 = b[m] /\ b1 = b[m + 1]
    OBVIOUS
  <2>4. x \in V /\ h1 = SetStep(0, h0, x)
    BY <1>3, <1>6, <2>2, <2>3
  <2>5. b1 = IF x \in Named(V, name) THEN Append(b0, x) ELSE b0
    BY <1>8, <2>2, <2>3 DEF Naming!KeptRun
  <2>6. b1 = IF x.name = name THEN Append(b0, x) ELSE b0
    BY <2>4, <2>5 DEF Named
  <2>7. h0 \in Seq(V) /\ b0 \in Seq(V) /\ Only(h0, name) = Replaced(left, b0, name)
    BY <1>11, <2>2, <2>3
  <2>8. /\ SetStep(0, h0, x) \in Seq(V)
        /\ Only(SetStep(0, h0, x), name) =
             Replaced(left, IF x.name = name THEN Append(b0, x) ELSE b0, name)
    BY <1>9, <2>4, <2>7, SetStepOnly
  <2>9. b1 \in Seq(V)
    BY <2>4, <2>6, <2>7
  <2>10. h1 \in Seq(V) /\ Only(h1, name) = Replaced(left, b1, name)
    BY <2>4, <2>6, <2>8
  <2> QED
    BY <2>3, <2>9, <2>10
<1>12. n \in S
  <2> HIDE DEF S
  <2> QED
    BY <1>3, <1>10, <1>11, Naming!Induct
<1>13. run[n] \in Seq(V) /\ Only(run[n], name) = Replaced(left, o, name)
  BY <1>3, <1>8, <1>12
<1>14. IsList(run[n])
  BY <1>13, SeqIsList
<1> QED
  BY <1>2, <1>4, <1>6, <1>13, <1>14

\* What an edit makes of the headers, name by name.
LEMMA EditSaid ==
  ASSUME NEW hs, IsList(hs), NEW edit, IsList(edit.set), NEW name
  PROVE  /\ IsList(apply_request_edit(hs, edit))
         /\ Only(apply_request_edit(hs, edit), name) = Said(Only(hs, name), edit, name)
<1>1. PICK U : hs \in Seq(U)
  BY ListIsSeq
<1>2. PICK d, names : d = Drop(hs, names) /\ names = edit.remove
  OBVIOUS
<1>3. d \in Seq(U)
  BY <1>1, <1>2, OnlyDrop
<1>4. Only(Drop(hs, names), name) = IF name \in names THEN <<>> ELSE Only(hs, name)
  BY <1>1, OnlyDrop
<1>5. PICK g, set : g = set_headers(d, set) /\ set = edit.set
  OBVIOUS
<1>6. IsList(g) /\ Only(g, name) = Replaced(Only(d, name), Only(set, name), name)
  BY <1>3, <1>5, SetOnly
<1>7. g = apply_request_edit(hs, edit)
  BY <1>2, <1>5 DEF apply_request_edit, remove_headers
<1>8. Said(Only(hs, name), edit, name) =
        Replaced(IF name \in names THEN <<>> ELSE Only(hs, name), Only(set, name), name)
  BY <1>2, <1>5 DEF Said, Replaced
<1> QED
  BY <1>2, <1>4, <1>6, <1>7, <1>8

\* An edit that does not touch a name leaves it.
LEMMA SaidUntouched ==
  ASSUME NEW edit, IsList(edit.set), NEW name, name \notin edit.remove \cup SetBy(edit), NEW only
  PROVE  Said(only, edit, name) = only
<1>1. PICK W, set : set = edit.set /\ set \in Seq(W)
  BY ListIsSeq
<1>2. PICK n, o : n = Len(set) /\ n \in Nat /\ DOMAIN set = 1..n /\ o = Only(set, name)
  BY <1>1
<1>3. Naming!Kept(o, set, n, Named(W, name))
  BY <1>1, <1>2, OnlyKept
<1>4. \A i \in 1..n : set[i].name # name
  BY <1>1, <1>2 DEF SetBy
<1>5. \A i \in 1..n : set[i] \notin Named(W, name)
  BY <1>4 DEF Named
<1>6. o = <<>>
  BY <1>2, <1>3, <1>5, Naming!KeptNone
<1> QED
  BY <1>1, <1>2, <1>6 DEF Said

\* One that does leaves nothing of what was there, cookies aside.
LEMMA SaidTouched ==
  ASSUME NEW edit, IsList(edit.set), NEW name, name \in edit.remove \cup SetBy(edit),
         ~is_repeatable(name), NEW a, NEW b
  PROVE  Said(a, edit, name) = Said(b, edit, name)
<1>1. PICK W, set : set = edit.set /\ set \in Seq(W)
  BY ListIsSeq
<1>2. PICK o : o = Only(set, name)
  OBVIOUS
<1>3. CASE name \in SetBy(edit)
  <2>1. PICK i \in DOMAIN set : set[i].name = name
    BY <1>1, <1>3 DEF SetBy
  <2>2. i \in 1..Len(set)
    BY <1>1
  <2>3. \E j \in 1..Len(o) : o[j] = set[i]
    BY <1>1, <1>2, <2>1, <2>2, OnlyIs
  <2>4. o # <<>>
    BY <2>3
  <2> QED
    BY <1>1, <1>2, <2>4 DEF Said
<1>4. CASE name \in edit.remove
  BY <1>4 DEF Said
<1> QED
  BY <1>3, <1>4

----------------------------------------------------------------------------
(* The word of several edits.                                              *)

WordStep(name, only, e) == Said(only, e, name)
Wording == INSTANCE Folding WITH Op <- WordStep

\* A list of edits.
Edits(edits) == IsList(edits) /\ \A i \in 1..Len(edits) : IsList(edits[i].set)

\* The last word is the end of a run over the edits.
LEMMA WordRuns ==
  ASSUME NEW first, NEW edits, IsList(edits), NEW name
  PROVE  Wording!Ran(Word(first, edits, name), name, first, edits, Len(edits))
<1>1. Word(first, edits, name) = Wording!Fold(name, first, edits)
  BY DEF Word, FoldLeft, MapThenFoldSet, Max, WordStep, Wording!Fold, Wording!FoldLeft,
         Wording!MapThenFoldSet, Wording!Max
<1>2. PICK n : n = Len(edits) /\ n \in Nat /\ DOMAIN edits = 1..n
  BY DEF IsList
<1>3. Wording!Ran(Wording!Fold(name, first, edits), name, first, edits, n)
  BY <1>2, Wording!FoldRan
<1> QED
  BY <1>1, <1>2, <1>3

\* Without edits it is the first.
LEMMA WordNone ==
  ASSUME NEW first, NEW name
  PROVE  Word(first, <<>>, name) = first
<1>1. IsList(<<>>) /\ Len(<<>>) = 0
  BY DEF IsList
<1>2. PICK w : w = Word(first, <<>>, name)
  OBVIOUS
<1>3. Wording!Ran(w, name, first, <<>>, 0)
  BY <1>1, <1>2, WordRuns
<1>4. w = first
  BY <1>3 DEF Wording!Ran
<1> QED
  BY <1>2, <1>4

\* One more edit is one more step.
LEMMA WordMore ==
  ASSUME NEW E, NEW edits \in Seq(E), NEW e \in E, NEW first, NEW name
  PROVE  Word(first, Append(edits, e), name) = Said(Word(first, edits, name), e, name)
<1>0. Len(edits) \in Nat /\ DOMAIN edits = 1..Len(edits)
  OBVIOUS
<1>1. PICK n, t : n = Len(edits) /\ n \in Nat /\ DOMAIN edits = 1..n /\ t = Append(edits, e)
  BY <1>0
<1>2. DOMAIN t = 1..(n + 1) /\ t[n + 1] = e /\ \A i \in 1..n : t[i] = edits[i]
  BY <1>1
<1>3. \A s : Word(first, s, name) = Wording!Fold(name, first, s)
  BY DEF Word, FoldLeft, MapThenFoldSet, Max, WordStep, Wording!Fold, Wording!FoldLeft,
         Wording!MapThenFoldSet, Wording!Max
<1>4. Wording!Fold(name, first, t) = Said(Wording!Fold(name, first, edits), t[n + 1], name)
  <2>1. n \in Nat /\ DOMAIN edits = 1..n
    BY <1>1
  <2> QED
    BY <1>2, <2>1, Wording!FoldLast DEF WordStep
<1> QED
  BY <1>1, <1>2, <1>3, <1>4

\* Two walks along the same edits stay apart only while none touches the name,
\* and while none does, nothing changes.
LEMMA WordWalk ==
  ASSUME NEW edits, Edits(edits), NEW name, NEW f1, NEW f2
  PROVE  /\ name \notin Touched(edits) => Word(f1, edits, name) = f1
         /\ name \in Touched(edits) /\ ~is_repeatable(name) =>
              Word(f1, edits, name) = Word(f2, edits, name)
<1>1. PICK n : n = Len(edits) /\ n \in Nat /\ DOMAIN edits = 1..n
  BY DEF Edits, IsList
<1>2. PICK w1, w2 : w1 = Word(f1, edits, name) /\ w2 = Word(f2, edits, name)
  OBVIOUS
<1>3. Wording!Ran(w1, name, f1, edits, n) /\ Wording!Ran(w2, name, f2, edits, n)
  BY <1>1, <1>2, WordRuns DEF Edits
<1>4. PICK a : /\ a[0] = f1
               /\ \A i \in 1..n : a[i] = WordStep(name, a[i - 1], edits[i])
               /\ w1 = a[n]
  BY <1>3 DEF Wording!Ran
<1>5. PICK b : /\ b[0] = f2
               /\ \A i \in 1..n : b[i] = WordStep(name, b[i - 1], edits[i])
               /\ w2 = b[n]
  BY <1>3 DEF Wording!Ran
<1> DEFINE Touches(i) == name \in edits[i].remove \cup SetBy(edits[i])
           Good(m) == /\ (\A i \in 1..m : ~Touches(i)) => a[m] = f1
                      /\ ~is_repeatable(name) /\ (\E i \in 1..m : Touches(i)) => a[m] = b[m]
           S == {m \in Nat : m <= n => Good(m)}
<1>6. 0 \in S
  BY <1>4
<1>7. ASSUME NEW m \in Nat, m \in S PROVE m + 1 \in S
  <2>1. SUFFICES ASSUME m + 1 <= n PROVE Good(m + 1)
    OBVIOUS
  <2>2. m + 1 \in 1..n /\ m <= n /\ (m + 1) - 1 = m
    BY <1>1, <2>1
  <2>3. PICK e, a0, a1, b0, b1 : /\ e = edits[m + 1] /\ a0 = a[m] /\ a1 = a[m + 1]
                                 /\ b0 = b[m] /\ b1 = b[m + 1]
    OBVIOUS
  <2>4. a1 = Said(a0, e, name) /\ b1 = Said(b0, e, name) /\ IsList(e.set)
    BY <1>1, <1>4, <1>5, <2>2, <2>3 DEF WordStep, Edits
  <2>5. Good(m)
    BY <1>7, <2>2
  <2>6. \A i \in 1..(m + 1) : i \in 1..m \/ i = m + 1
    OBVIOUS
  <2>7. \A i \in 1..m : i \in 1..(m + 1)
    OBVIOUS
  <2>8. CASE Touches(m + 1)
    <3>1. ~is_repeatable(name) => a1 = b1
      BY <2>3, <2>4, <2>8, SaidTouched
    <3>2. m + 1 \in 1..(m + 1)
      OBVIOUS
    <3> QED
      BY <2>3, <2>8, <3>1, <3>2
  <2>9. CASE ~Touches(m + 1)
    <3>1. a1 = a0 /\ b1 = b0
      BY <2>3, <2>4, <2>9, SaidUntouched
    <3>2. (\A i \in 1..(m + 1) : ~Touches(i)) => a0 = f1
      <4> HIDE DEF Touches
      <4> QED
        BY <2>3, <2>5, <2>7
    <3>3. ~is_repeatable(name) /\ (\E i \in 1..(m + 1) : Touches(i)) => a0 = b0
      <4> HIDE DEF Touches
      <4> QED
        BY <2>3, <2>5, <2>6, <2>9
    <3> HIDE DEF Touches
    <3> QED
      BY <2>3, <3>1, <3>2, <3>3
  <2> QED
    BY <2>8, <2>9
<1>8. n \in S
  <2> HIDE DEF S
  <2> QED
    BY <1>1, <1>6, <1>7, Naming!Induct
<1>9. name \in Touched(edits) <=> \E i \in 1..n : Touches(i)
  BY <1>1 DEF Touched
<1>10. Good(n)
  BY <1>1, <1>8
<1> HIDE DEF Touches
<1> QED
  BY <1>2, <1>4, <1>5, <1>9, <1>10

----------------------------------------------------------------------------
(* What goes out.                                                          *)

\* How the lines of a name read.
Reads(map, name) == {lossy(Lines(map, name)[i]) : i \in DOMAIN Lines(map, name)}

\* The values of a name.
LEMMA LinesIs ==
  ASSUME NEW U, NEW s \in Seq(U), NEW name
  PROVE  /\ DOMAIN Lines(s, name) = 1..Len(Only(s, name))
         /\ Len(Only(s, name)) \in Nat
         /\ Len(Lines(s, name)) = Len(Only(s, name))
         /\ \A i \in 1..Len(Only(s, name)) : Lines(s, name)[i] = Only(s, name)[i].value
<1>1. PICK o : o = Only(s, name)
  OBVIOUS
<1>2. o \in Seq(U)
  BY <1>1, OnlyIs
<1>3. Lines(s, name) = [i \in DOMAIN o |-> o[i].value]
  BY <1>1 DEF Lines
<1>4. DOMAIN o = 1..Len(o) /\ Len(o) \in Nat
  BY <1>2
<1>5. DOMAIN Lines(s, name) = 1..Len(o)
  BY <1>3, <1>4
<1>6. Len(Lines(s, name)) = Len(o)
  BY <1>4, <1>5
<1> QED
  BY <1>1, <1>3, <1>4, <1>5, <1>6

\* The lines of a name are the values of the headers of it.
LEMMA LinesOf ==
  ASSUME NEW U, NEW map \in Seq(U), NEW name
  PROVE  /\ \A i \in 1..Len(map) : map[i].name = name =>
              \E j \in DOMAIN Lines(map, name) : Lines(map, name)[j] = map[i].value
         /\ \A j \in DOMAIN Lines(map, name) :
              \E i \in 1..Len(map) : map[i].name = name /\ map[i].value = Lines(map, name)[j]
<1>1. PICK o, L : o = Only(map, name) /\ L = Lines(map, name)
  OBVIOUS
<1>2. DOMAIN L = 1..Len(o) /\ \A i \in 1..Len(o) : L[i] = o[i].value
  BY <1>1, LinesIs
<1>3. ASSUME NEW i \in 1..Len(map), map[i].name = name
      PROVE  \E j \in DOMAIN L : L[j] = map[i].value
  <2>1. \E j \in 1..Len(o) : o[j] = map[i]
    BY <1>1, <1>3, OnlyIs
  <2> QED
    BY <1>2, <2>1
<1>4. PICK V : V = {map[i] : i \in 1..Len(map)}
  OBVIOUS
<1>5. map \in Seq(V)
  BY <1>4
<1>6. o \in Seq(Named(V, name))
  BY <1>1, <1>5, OnlyIs
<1>7. ASSUME NEW j \in DOMAIN L
      PROVE  \E i \in 1..Len(map) : map[i].name = name /\ map[i].value = L[j]
  <2>1. j \in 1..Len(o) /\ L[j] = o[j].value
    BY <1>2
  <2>2. o[j] \in V /\ o[j].name = name
    BY <1>6, <2>1 DEF Named
  <2>3. PICK i \in 1..Len(map) : map[i] = o[j]
    BY <1>4, <2>2
  <2> QED
    BY <2>1, <2>2, <2>3
<1> QED
  BY <1>1, <1>3, <1>7

\* A header goes out in the bytes of a line that reads like it, if there is one.
LEMMA EncodedAs ==
  ASSUME NEW U, NEW map \in Seq(U), NEW h
  PROVE  /\ SentAs(h, map) # {} <=> h.value \in Reads(map, h.name)
         /\ h.value \in Reads(map, h.name) =>
              /\ Encoded(h, map) \in Range(Lines(map, h.name))
              /\ lossy(Encoded(h, map)) = h.value
         /\ h.value \notin Reads(map, h.name) => Encoded(h, map) = h.value
<1>1. PICK name, L, sent, n : /\ name = h.name /\ L = Lines(map, name) /\ sent = SentAs(h, map)
                              /\ n = Len(map)
  OBVIOUS
<1>2. n \in Nat /\ DOMAIN map = 1..n
  BY <1>1
<1>3. sent = {i \in 1..n : map[i].name = name /\ lossy(map[i].value) = h.value}
  BY <1>1, <1>2 DEF SentAs
<1>4. \A i \in 1..n : map[i].name = name => \E j \in DOMAIN L : L[j] = map[i].value
  BY <1>1, LinesOf
<1>5. \A j \in DOMAIN L : \E i \in 1..n : map[i].name = name /\ map[i].value = L[j]
  BY <1>1, LinesOf
<1>6. h.value \in Reads(map, name) <=> \E j \in DOMAIN L : lossy(L[j]) = h.value
  BY <1>1 DEF Reads
<1>7. sent # {} <=> h.value \in Reads(map, name)
  BY <1>3, <1>4, <1>5, <1>6
<1>8. ASSUME sent # {}
      PROVE  Encoded(h, map) \in Range(L) /\ lossy(Encoded(h, map)) = h.value
  <2>1. sent \in SUBSET Nat
    BY <1>2, <1>3
  <2>2. \E x \in sent : \A y \in sent : x <= y
    BY <1>8, <2>1, Naming!LeastOf
  <2>3. PICK i : i = CHOOSE x \in sent : \A y \in sent : x <= y
    OBVIOUS
  <2>4. i \in sent
    BY <2>2, <2>3
  <2>5. Encoded(h, map) = map[i].value
    BY <1>1, <1>8, <2>3 DEF Encoded
  <2>6. i \in 1..n /\ map[i].name = name /\ lossy(map[i].value) = h.value
    BY <1>3, <2>4
  <2>7. map[i].value \in Range(L)
    BY <1>4, <2>6 DEF Range
  <2> QED
    BY <2>5, <2>6, <2>7
<1>9. sent = {} => Encoded(h, map) = h.value
  BY <1>1 DEF Encoded
<1> QED
  BY <1>1, <1>7, <1>8, <1>9

\* What copy_headers_preserving makes of one header.
EncodedHdr(U, map) == [h \in U |-> Hdr(h.name, Encoded(h, map))]

\* What copy_headers_preserving makes of a name.
LEMMA CopyOnly ==
  ASSUME NEW U, NEW hs \in Seq(U), NEW W, NEW map \in Seq(W), NEW name
  PROVE  /\ IsList(copy_headers_preserving(hs, map))
         /\ \A i \in DOMAIN copy_headers_preserving(hs, map) :
              copy_headers_preserving(hs, map)[i].name \notin HOP_BY_HOP
         /\ name \notin HOP_BY_HOP =>
              Naming!Follows(Only(copy_headers_preserving(hs, map), name),
                             Sendable(Only(hs, name), Reads(map, name)), EncodedHdr(U, map))
<1>1. PICK p, out, G, o, T : /\ p = PassedOn(hs, map) /\ out = copy_headers_preserving(hs, map)
                             /\ G = EncodedHdr(U, map) /\ o = Only(hs, name) /\ T = Passable(U, map)
  OBVIOUS
<1>2. Naming!Kept(p, hs, Len(hs), T)
  BY <1>1, PassKept
<1>3. p \in Seq(U \cap T) /\ p \in Seq(U)
  BY <1>2, KeptIsSeq
<1>4. Image(out, p, U, G)
  <2>1. out = [i \in DOMAIN p |-> Hdr(p[i].name, Encoded(p[i], map))]
    BY <1>1 DEF copy_headers_preserving
  <2>2. \A i \in DOMAIN p : p[i] \in U
    BY <1>3
  <2>3. \A h \in U : G[h].name = h.name
    BY <1>1 DEF Hdr, EncodedHdr
  <2>4. out = [i \in DOMAIN p |-> G[p[i]]]
    BY <1>1, <2>1, <2>2 DEF EncodedHdr
  <2> QED
    BY <2>3, <2>4 DEF Image
<1>5. out \in Seq({G[h] : h \in U}) /\ Naming!Follows(Only(out, name), Only(p, name), G)
  BY <1>3, <1>4, OnlyMapped
<1>6. IsList(out)
  BY <1>5, SeqIsList
<1>7. ASSUME NEW i \in DOMAIN out PROVE out[i].name \notin HOP_BY_HOP
  <2>1. i \in DOMAIN p /\ out[i] = G[p[i]]
    BY <1>4 DEF Image
  <2>2. p[i] \in U /\ p[i] \in T
    BY <1>3, <2>1
  <2>3. out[i].name = p[i].name
    BY <1>4, <2>1, <2>2 DEF Image
  <2> QED
    BY <1>1, <2>2, <2>3 DEF Passable, is_hop_by_hop
<1>8. ASSUME name \notin HOP_BY_HOP
      PROVE  Only(p, name) = Sendable(o, Reads(map, name))
  <2>1. PICK F, q : F = Fit(U, Reads(map, name)) /\ q = Only(p, name)
    OBVIOUS
  <2>2. Naming!Kept(q, o, Len(o), T)
    BY <1>1, <1>2, <2>1, OnlyOfKept
  <2>3. o \in Seq(U) /\ o \in Seq(Named(U, name))
    BY <1>1, OnlyIs
  <2>4. PICK n : n = Len(o) /\ n \in Nat /\ \A i \in 1..n : o[i] \in Named(U, name)
    BY <2>3
  <2>5. ASSUME NEW i \in 1..n PROVE o[i] \in T <=> o[i] \in F
    <3>1. PICK h : h = o[i] /\ h \in U /\ h.name = name
      BY <2>4 DEF Named
    <3>2. SentAs(h, map) # {} <=> h.value \in Reads(map, name)
      BY <3>1, EncodedAs
    <3> QED
      BY <1>1, <1>8, <2>1, <3>1, <3>2 DEF Passable, Fit, is_hop_by_hop
  <2>6. Naming!Kept(q, o, n, F)
    BY <2>2, <2>4, <2>5, Naming!KeptSame
  <2>7. PICK f : f = Sendable(o, Reads(map, name))
    OBVIOUS
  <2>8. Naming!Kept(f, o, n, F)
    BY <2>1, <2>3, <2>4, <2>7, FitKept
  <2>9. q = f
    BY <2>4, <2>6, <2>8, Naming!KeptUnique
  <2> QED
    BY <2>1, <2>7, <2>9
<1> QED
  BY <1>1, <1>5, <1>6, <1>7, <1>8

\* The lines of a name that go out, one by one.
LEMMA CopyLines ==
  ASSUME NEW U, NEW hs \in Seq(U), NEW W, NEW map \in Seq(W), NEW name, name \notin HOP_BY_HOP,
         NEW V, NEW out \in Seq(V), Only(out, name) = Only(copy_headers_preserving(hs, map), name),
         NEW fit, fit = Sendable(Only(hs, name), Reads(map, name))
  PROVE  /\ fit \in Seq(U) /\ DOMAIN Lines(out, name) = 1..Len(fit) /\ Len(Lines(out, name)) = Len(fit)
         /\ \A i \in 1..Len(fit) : /\ fit[i] \in U /\ fit[i].name = name
                                   /\ Lines(out, name)[i] = Encoded(fit[i], map)
<1>1. PICK o, q, G, n : o = Only(hs, name) /\ q = Only(out, name) /\ G = EncodedHdr(U, map) /\ n = Len(fit)
  OBVIOUS
<1>2. Naming!Follows(q, fit, G)
  BY <1>1, CopyOnly
<1>3. o \in Seq(U) /\ o \in Seq(Named(U, name))
  BY <1>1, OnlyIs
<1>4. Naming!Kept(fit, o, Len(o), Fit(U, Reads(map, name)))
  BY <1>1, <1>3, FitKept
<1>5. fit \in Seq(U) /\ fit \in Seq(Named(U, name))
  <2>1. fit \in Seq(U)
    BY <1>3, <1>4, KeptIsSeq
  <2>2. fit \in Seq(Named(U, name))
    BY <1>3, <1>4, KeptIsSeq
  <2> QED
    BY <2>1, <2>2
<1>6. n \in Nat /\ \A i \in 1..n : fit[i] \in U /\ fit[i].name = name
  BY <1>1, <1>5 DEF Named
<1>7. Len(q) = n /\ \A i \in 1..n : q[i] = G[fit[i]]
  BY <1>1, <1>2 DEF Naming!Follows
<1>8. \A i \in 1..n : q[i].value = Encoded(fit[i], map)
  BY <1>1, <1>6, <1>7 DEF EncodedHdr, Hdr
<1>9. DOMAIN Lines(out, name) = 1..n /\ Len(Lines(out, name)) = n
  BY <1>1, <1>7, LinesIs
<1>10. \A i \in 1..n : Lines(out, name)[i] = q[i].value
  BY <1>1, <1>7, LinesIs
<1> QED
  BY <1>1, <1>5, <1>6, <1>8, <1>9, <1>10

\* It says what the headers of the name say.
LEMMA CopySays ==
  ASSUME NEW U, NEW hs \in Seq(U), NEW W, NEW map \in Seq(W), NEW name, name \notin HOP_BY_HOP,
         NEW V, NEW out \in Seq(V), Only(out, name) = Only(copy_headers_preserving(hs, map), name)
  PROVE  Says(out, map, name, Only(hs, name))
<1>1. PICK sent, fit, L : /\ sent = Reads(map, name) /\ fit = Sendable(Only(hs, name), sent)
                          /\ L = Lines(out, name)
  OBVIOUS
<1>2. fit \in Seq(U) /\ Len(L) = Len(fit)
  BY <1>1, CopyLines
<1>3. DOMAIN fit = 1..Len(fit)
  BY <1>2
<1>4. ASSUME NEW i \in 1..Len(fit)
      PROVE  IF fit[i].value \in sent
             THEN L[i] \in Range(Lines(map, name)) /\ lossy(L[i]) = fit[i].value
             ELSE L[i] = fit[i].value
  <2>1. PICK h : h = fit[i]
    OBVIOUS
  <2>2. h.name = name /\ L[i] = Encoded(h, map)
    BY <1>1, <2>1, CopyLines
  <2>3. /\ h.value \in Reads(map, h.name) =>
             /\ Encoded(h, map) \in Range(Lines(map, h.name))
             /\ lossy(Encoded(h, map)) = h.value
        /\ h.value \notin Reads(map, h.name) => Encoded(h, map) = h.value
    BY EncodedAs
  <2> QED
    BY <1>1, <2>1, <2>2, <2>3
<1> QED
  BY <1>1, <1>2, <1>3, <1>4 DEF Says, Reads

\* Nothing comes of nothing, nor of a hop-by-hop name.
LEMMA CopyNothing ==
  ASSUME NEW U, NEW hs \in Seq(U), NEW W, NEW map \in Seq(W), NEW name,
         NEW V, NEW out \in Seq(V),
         \/ name \in HOP_BY_HOP /\ \A i \in 1..Len(out) : out[i].name \notin HOP_BY_HOP
         \/ /\ Only(hs, name) = <<>> /\ name \notin HOP_BY_HOP
            /\ Only(out, name) = Only(copy_headers_preserving(hs, map), name)
  PROVE  Lines(out, name) = <<>>
<1>0. SUFFICES Len(Only(out, name)) = 0
  <2>1. DOMAIN Lines(out, name) = 1..Len(Only(out, name))
    BY LinesIs
  <2>2. Lines(out, name) = [i \in DOMAIN Only(out, name) |-> Only(out, name)[i].value]
    BY DEF Lines
  <2>3. Only(out, name) \in Seq(V)
    BY OnlyIs
  <2>4. Len(Only(out, name)) = 0 => Only(out, name) = <<>>
    BY <2>3
  <2>5. [i \in DOMAIN <<>> |-> <<>>[i].value] = <<>>
    OBVIOUS
  <2> QED
    BY <2>2, <2>4, <2>5
<1>1. CASE name \in HOP_BY_HOP /\ \A i \in 1..Len(out) : out[i].name \notin HOP_BY_HOP
  <2>1. PICK n, q : n = Len(out) /\ n \in Nat /\ q = Only(out, name)
    OBVIOUS
  <2>2. Naming!Kept(q, out, n, Named(V, name))
    BY <2>1, OnlyKept
  <2>3. \A i \in 1..n : out[i] \notin Named(V, name)
    BY <1>1, <2>1 DEF Named
  <2>4. q = <<>>
    BY <2>1, <2>2, <2>3, Naming!KeptNone
  <2> QED
    BY <2>1, <2>4
<1>2. CASE /\ Only(hs, name) = <<>> /\ name \notin HOP_BY_HOP
           /\ Only(out, name) = Only(copy_headers_preserving(hs, map), name)
  <2>1. PICK fit : fit = Sendable(<<>>, Reads(map, name))
    OBVIOUS
  <2>2. Len(Lines(out, name)) = Len(fit)
    BY <1>2, <2>1, CopyLines
  <2>3. <<>> \in Seq({}) /\ Len(<<>>) = 0
    OBVIOUS
  <2>4. Naming!Kept(fit, <<>>, 0, Fit({}, Reads(map, name)))
    BY <2>1, <2>3, FitKept
  <2>5. fit \in Seq({})
    BY <2>3, <2>4, KeptIsSeq
  <2>6. Len(fit) = 0
    BY <2>5
  <2> QED
    BY <2>2, <2>6, LinesIs
<1> QED
  BY <1>1, <1>2

\* A header that can be told from any other goes out as it is.
LEMMA CopyOne ==
  ASSUME NEW U, NEW hs \in Seq(U), NEW W, NEW map \in Seq(W), NEW name, name \notin HOP_BY_HOP,
         NEW V, NEW out \in Seq(V), Only(out, name) = Only(copy_headers_preserving(hs, map), name),
         NEW v, v # Replacement, ValidValue(v), Only(hs, name) = <<Hdr(name, v)>>
  PROVE  Lines(out, name) = <<v>>
<1>1. PICK h, sent, fit, L : /\ h = Hdr(name, v) /\ sent = Reads(map, name) /\ fit = Sendable(<<h>>, sent)
                             /\ L = Lines(out, name)
  OBVIOUS
<1>2. h.name = name /\ h.value = v
  BY <1>1 DEF Hdr
<1>3. <<h>> \in Seq({h}) /\ Len(<<h>>) = 1 /\ \A i \in 1..1 : <<h>>[i] = h
  OBVIOUS
<1>4. Naming!Kept(fit, <<h>>, Len(<<h>>), Fit({h}, sent))
  BY <1>1, <1>3, FitKept
<1>5. h \in Fit({h}, sent)
  BY <1>2 DEF Fit
<1>6. fit = <<h>>
  BY <1>3, <1>4, <1>5, Naming!KeptWhole
<1>7. Len(L) = Len(fit) /\ DOMAIN L = 1..Len(fit) /\ L[1] = Encoded(fit[1], map)
  <2>1. fit = Sendable(Only(hs, name), Reads(map, name))
    BY <1>1
  <2>2. /\ DOMAIN Lines(out, name) = 1..Len(fit) /\ Len(Lines(out, name)) = Len(fit)
        /\ \A i \in 1..Len(fit) : Lines(out, name)[i] = Encoded(fit[i], map)
    BY <2>1, CopyLines
  <2>3. 1 \in 1..Len(fit)
    BY <1>3, <1>6
  <2> QED
    BY <1>1, <2>2, <2>3
<1>8. L[1] = Encoded(h, map) /\ DOMAIN L = 1..1
  BY <1>3, <1>6, <1>7
<1>9. Encoded(h, map) = v
  <2>1. /\ h.value \in Reads(map, h.name) =>
             lossy(Encoded(h, map)) = h.value
        /\ h.value \notin Reads(map, h.name) => Encoded(h, map) = h.value
    BY EncodedAs
  <2>2. lossy(Encoded(h, map)) = v => Encoded(h, map) = v
    BY DEF lossy
  <2> QED
    BY <1>2, <2>1, <2>2
<1>10. L = [i \in 1..1 |-> L[i]]
  <2>1. L = [i \in DOMAIN Only(out, name) |-> Only(out, name)[i].value]
    BY <1>1 DEF Lines
  <2> QED
    BY <1>8, <2>1
<1> QED
  BY <1>1, <1>8, <1>9, <1>10

\* Where the headers of a name are as they came in, what goes out is what came in.
LEMMA CopyCarries ==
  ASSUME NEW U, NEW hs \in Seq(U), NEW W, NEW map \in Seq(W), NEW name, name \notin HOP_BY_HOP,
         NEW V, NEW out \in Seq(V), Only(out, name) = Only(copy_headers_preserving(hs, map), name),
         name \notin connection_named(map), Only(hs, name) = Decoded(map, name)
  PROVE  IF Ambiguous(Lines(map, name)) THEN Len(Lines(out, name)) = Len(Lines(map, name))
                                        ELSE Lines(out, name) = Lines(map, name)
<1>1. PICK o, sent, fit, L, M : /\ o = Only(hs, name) /\ sent = Reads(map, name)
                                /\ fit = Sendable(o, sent) /\ L = Lines(out, name) /\ M = Lines(map, name)
  OBVIOUS
<1>2. PICK n : n = Len(Only(map, name)) /\ n \in Nat /\ DOMAIN M = 1..n /\ Len(M) = n
  BY <1>1, LinesIs
<1>3. o = [i \in 1..n |-> Hdr(name, lossy(M[i]))]
  <2>1. DOMAIN Only(map, name) = DOMAIN M
    BY <1>1 DEF Lines
  <2> QED
    BY <1>1, <1>2, <2>1 DEF Decoded
<1>4. o \in Seq(U) /\ Len(o) = n
  BY <1>1, <1>2, <1>3, OnlyIs
<1>5. Naming!Kept(fit, o, Len(o), Fit(U, sent))
  BY <1>1, <1>4, FitKept
<1>6. \A i \in 1..Len(o) : o[i] \in Fit(U, sent)
  <2> SUFFICES ASSUME NEW i \in 1..Len(o) PROVE o[i] \in Fit(U, sent)
    OBVIOUS
  <2>1. o[i] \in U
    BY <1>4
  <2>2. i \in 1..n /\ o[i].value = lossy(M[i])
    BY <1>3, <1>4 DEF Hdr
  <2>3. o[i].value \in sent
    BY <1>1, <1>2, <2>2 DEF Reads
  <2> QED
    BY <2>1, <2>3 DEF Fit
<1>7. fit = o
  BY <1>4, <1>5, <1>6, Naming!KeptWhole
<1>8. Len(L) = n /\ DOMAIN L = 1..n /\ \A i \in 1..n : L[i] = Encoded(o[i], map)
  <2>1. Len(L) = Len(fit) /\ DOMAIN L = 1..Len(fit)
    BY <1>1, CopyLines
  <2>2. \A i \in 1..Len(fit) : L[i] = Encoded(fit[i], map)
    BY <1>1, CopyLines
  <2> QED
    BY <1>4, <1>7, <2>1, <2>2
<1>9. CASE Ambiguous(M)
  BY <1>1, <1>2, <1>8, <1>9
<1>10. CASE ~Ambiguous(M)
  <2>1. ASSUME NEW i \in 1..n PROVE L[i] = M[i]
    <3>1. PICK h : h = o[i]
      OBVIOUS
    <3>2. h.name = name /\ h.value = lossy(M[i])
      BY <1>3, <3>1 DEF Hdr
    <3>3. h.value \in Reads(map, h.name)
      BY <1>1, <1>2, <3>2 DEF Reads
    <3>4. Encoded(h, map) \in Range(Lines(map, h.name)) /\ lossy(Encoded(h, map)) = h.value
      BY <3>3, EncodedAs
    <3>5. PICK j \in 1..n : Encoded(h, map) = M[j]
      BY <1>1, <1>2, <3>2, <3>4 DEF Range
    <3>6. M[j] = M[i]
      BY <1>2, <1>10, <3>2, <3>4, <3>5 DEF Ambiguous
    <3> QED
      BY <1>8, <3>1, <3>5, <3>6
  <2>2. L = [i \in 1..n |-> L[i]] /\ M = [i \in 1..n |-> M[i]]
    <3>1. L = [i \in DOMAIN Only(out, name) |-> Only(out, name)[i].value]
      BY <1>1 DEF Lines
    <3>2. M = [i \in DOMAIN Only(map, name) |-> Only(map, name)[i].value]
      BY <1>1 DEF Lines
    <3> QED
      BY <1>2, <1>8, <3>1, <3>2
  <2>3. L = M
    BY <2>1, <2>2
  <2> QED
    BY <1>1, <1>10, <2>3
<1> QED
  BY <1>9, <1>10

----------------------------------------------------------------------------
(* What a request's headers say, all along the chain.                      *)

\* Name by name, the headers are what the edits have made of the view.
Told(headers, view, edits) ==
  IsList(headers) /\ \A name : Only(headers, name) = Word(Only(view, name), edits, name)

RequestPlaces == {"request", "queue", "read", "body", "upstream"}

RequestTold(r) ==
  r.kind \in DOMAIN Inbound /\ Told(r.headers, RequestView[r.kind], EditsBy(RequestEdit, r.edits["request"]))

ResponseTold(r) ==
  /\ r.edits["response"] \in Seq(Filter)
  /\ Told(r.headers, ResponseView, EditsBy(ResponseEdit, r.edits["response"]))

Streamed(r) == r.pc = "answered" /\ r.answer.streamed

\* What was sent is a list of headers with the proxy's own put in.
Sending(t, r) ==
  \E hs : /\ IsList(hs) /\ r.answer.headers = attach_alt_svc(t, hs)
          /\ r.answer.streamed => hs = copy_headers_preserving(r.headers, UpstreamMap)

Worded(t, r) ==
  /\ r.pc \in RequestPlaces /\ ~r.gone => RequestTold(r)
  /\ (r.pc = "response" /\ ~r.gone) \/ Streamed(r) => ResponseTold(r)
  /\ r.pc = "answered" => Sending(t, r)

WordInv == \A t \in Task : Worded(t, task[t])

\* A step of one request concerns that one.
LEMMA WordMoved ==
  ASSUME WordInv, NEW t \in Task, Moved(t), Worded(t, task'[t])
  PROVE  WordInv'
BY DEF WordInv, Moved

\* Where nothing is said of the headers.
LEMMA Unsaid ==
  /\ \A t, r : r.pc \in {"new", "sent"} => Worded(t, r)
  /\ \A t, r : r.gone /\ r.pc \in HookPhase => Worded(t, r)
  /\ \A t, r : r.pc = "answered" /\ r.answer.streamed = FALSE /\ Sending(t, r) => Worded(t, r)
BY DEF Worded, Streamed, RequestPlaces, HookPhase

\* A request that goes on with its headers.
LEMMA StillTold ==
  ASSUME NEW t, NEW r, Worded(t, r), r.pc \in RequestPlaces, ~r.gone, NEW q, q.pc \in RequestPlaces,
         q.kind = r.kind, q.headers = r.headers, q.edits = r.edits
  PROVE  Worded(t, q)
BY DEF Worded, RequestPlaces, RequestTold, Streamed

\* A request that stays where it is.
LEMMA SameTold ==
  ASSUME NEW t, NEW r, Worded(t, r), NEW q, q.pc = r.pc, q.gone = r.gone, q.kind = r.kind,
         q.headers = r.headers, q.edits = r.edits, q.answer = r.answer
  PROVE  Worded(t, q)
BY DEF Worded, RequestTold, ResponseTold, Streamed, Sending

\* The views.
LEMMA Views ==
  /\ \A kind \in DOMAIN Inbound : IsList(RequestView[kind])
  /\ IsList(ResponseView)
  /\ \A kind \in DOMAIN Inbound : \A name :
       Only(RequestView[kind], name) =
         IF name \in FORWARDED_HEADERS THEN OwnHeaders(name)
         ELSE IF name \in HOP_BY_HOP THEN <<>> ELSE Decoded(Inbound[kind].map, name)
  /\ \A name : Only(ResponseView, name) =
       IF name \in HOP_BY_HOP THEN <<>> ELSE Decoded(UpstreamMap, name)
<1>1. ASSUME NEW kind \in DOMAIN Inbound, NEW name
      PROVE  /\ IsList(RequestView[kind])
             /\ Only(RequestView[kind], name) =
                  IF name \in FORWARDED_HEADERS THEN OwnHeaders(name)
                  ELSE IF name \in HOP_BY_HOP THEN <<>> ELSE Decoded(Inbound[kind].map, name)
  <2>1. PICK map : map = Inbound[kind].map /\ IsList(map)
    BY ChainAssumption DEF ChainAssumption
  <2>2. PICK U : map \in Seq(U)
    BY <2>1, ListIsSeq
  <2>3. PICK v : v = headers_to_vec(map)
    OBVIOUS
  <2>4. /\ IsList(v)
        /\ Only(v, name) = IF name \in HOP_BY_HOP THEN <<>> ELSE Decoded(map, name)
    BY <2>2, <2>3, ViewOnly
  <2>5. PICK V : v \in Seq(V)
    BY <2>4, ListIsSeq
  <2>6. /\ IsList(set_forwarded(v, Peer, Scheme))
        /\ Only(set_forwarded(v, Peer, Scheme), name) =
             IF name \in FORWARDED_HEADERS THEN OwnHeaders(name) ELSE Only(v, name)
    BY <2>5, ForwardedOnly
  <2>7. RequestView[kind] = set_forwarded(v, Peer, Scheme)
    BY <2>1, <2>3 DEF RequestView
  <2> QED
    BY <2>1, <2>4, <2>6, <2>7
<1>2. ASSUME NEW name
      PROVE  /\ IsList(ResponseView)
             /\ Only(ResponseView, name) = IF name \in HOP_BY_HOP THEN <<>> ELSE Decoded(UpstreamMap, name)
  <2>1. IsList(UpstreamMap)
    BY ChainAssumption DEF ChainAssumption
  <2>2. PICK U : UpstreamMap \in Seq(U)
    BY <2>1, ListIsSeq
  <2> QED
    BY <2>2, ViewOnly DEF ResponseView
<1> QED
  BY <1>1, <1>2

\* Before the first edit the headers are the view.
LEMMA ToldAtFirst ==
  ASSUME NEW view, IsList(view), NEW edit
  PROVE  Told(view, view, EditsBy(edit, <<>>))
<1>1. EditsBy(edit, <<>>) = <<>>
  BY DEF EditsBy
<1> QED
  BY <1>1, WordNone DEF Told

\* One more edit.
LEMMA ToldMore ==
  ASSUME NEW edit, \A f \in Filter : IsList(edit[f].set), NEW fs \in Seq(Filter), NEW f \in Filter,
         NEW headers, NEW view, Told(headers, view, EditsBy(edit, fs))
  PROVE  Told(apply_request_edit(headers, edit[f]), view, EditsBy(edit, Append(fs, f)))
<1>1. PICK E, es, e : E = {edit[g] : g \in Filter} /\ es = EditsBy(edit, fs) /\ e = edit[f]
  OBVIOUS
<1>2. es \in Seq(E) /\ e \in E
  <2>1. DOMAIN fs = 1..Len(fs) /\ Len(fs) \in Nat /\ \A i \in 1..Len(fs) : fs[i] \in Filter
    OBVIOUS
  <2>2. es = [i \in 1..Len(fs) |-> edit[fs[i]]]
    BY <1>1, <2>1 DEF EditsBy
  <2>3. \A i \in 1..Len(fs) : edit[fs[i]] \in E
    BY <1>1, <2>1
  <2>4. es \in [1..Len(fs) -> E]
    BY <2>2, <2>3
  <2> QED
    BY <1>1, <2>1, <2>4
<1>3. EditsBy(edit, Append(fs, f)) = Append(es, e)
  <2>1. PICK n, t : n = Len(fs) /\ t = Append(fs, f)
    OBVIOUS
  <2>2. /\ n \in Nat /\ DOMAIN fs = 1..n /\ DOMAIN t = 1..(n + 1) /\ t[n + 1] = f
        /\ \A i \in 1..n : t[i] = fs[i]
    BY <2>1
  <2>3. es = [i \in 1..n |-> edit[fs[i]]] /\ EditsBy(edit, t) = [i \in 1..(n + 1) |-> edit[t[i]]]
    BY <1>1, <2>2 DEF EditsBy
  <2>4. Len(es) = n
    BY <1>2, <2>2, <2>3
  <2>5. PICK u : u = Append(es, e)
    OBVIOUS
  <2>6. u \in Seq(E) /\ Len(u) = n + 1 /\ u[n + 1] = e /\ \A i \in 1..n : u[i] = es[i]
    BY <1>2, <2>4, <2>5
  <2>7. \A i \in 1..(n + 1) : u[i] = edit[t[i]]
    <3> SUFFICES ASSUME NEW i \in 1..(n + 1) PROVE u[i] = edit[t[i]]
      OBVIOUS
    <3>1. CASE i = n + 1
      BY <1>1, <2>2, <2>6, <3>1
    <3>2. CASE i \in 1..n
      BY <2>2, <2>3, <2>6, <3>2
    <3> QED
      BY <2>2, <3>1, <3>2
  <2>8. u = [i \in 1..(n + 1) |-> edit[t[i]]]
    BY <2>2, <2>6, <2>7
  <2> QED
    BY <2>1, <2>3, <2>5, <2>8
<1>4. IsList(headers) /\ \A name : Only(headers, name) = Word(Only(view, name), es, name)
  BY <1>1 DEF Told
<1>5. IsList(e.set)
  BY <1>1
<1>6. PICK hs : hs = apply_request_edit(headers, e)
  OBVIOUS
<1>7. ASSUME NEW name
      PROVE  IsList(hs) /\ Only(hs, name) = Word(Only(view, name), Append(es, e), name)
  <2>1. IsList(hs) /\ Only(hs, name) = Said(Only(headers, name), e, name)
    BY <1>4, <1>5, <1>6, EditSaid
  <2>2. Word(Only(view, name), Append(es, e), name) = Said(Word(Only(view, name), es, name), e, name)
    BY <1>2, WordMore
  <2>3. Only(headers, name) = Word(Only(view, name), es, name)
    BY <1>4
  <2> QED
    BY <2>1, <2>2, <2>3
<1> QED
  BY <1>1, <1>3, <1>6, <1>7 DEF Told

----------------------------------------------------------------------------
(* The steps.                                                              *)

\* What the edits set are lists.
LEMMA EditLists ==
  (\A f \in Filter : IsList(RequestEdit[f].set)) /\ (\A f \in Filter : IsList(ResponseEdit[f].set))
BY ChainAssumption DEF ChainAssumption

\* A request arrives with its view.
LEMMA ArriveTold ==
  ASSUME WalkInv, NEW t \in Task, NEW kind \in DOMAIN Inbound, Arrive(t, kind)
  PROVE  Worded(t, task'[t])
<1>1. task[t] = Blank
  BY DEF WalkInv, Walked, Arrive
<1>2. PICK q, hs : /\ hs = RequestView[kind]
                   /\ q = [Blank EXCEPT !.pc = "request", !.gen = active, !.kind = kind, !.k = 1,
                                        !.headers = hs]
  OBVIOUS
<1>3. task'[t] = q
  BY <1>1, <1>2 DEF Arrive, WalkInv, Tabular
<1>4. q.pc = "request" /\ q.kind = kind /\ q.headers = hs /\ q.edits = NoHooks
  BY <1>2 DEF Blank
<1>5. q.edits["request"] = <<>>
  BY <1>4 DEF NoHooks, HookPhase
<1>6. Told(hs, RequestView[kind], EditsBy(RequestEdit, <<>>))
  BY <1>2, Views, ToldAtFirst
<1> QED
  BY <1>3, <1>4, <1>5, <1>6 DEF Worded, RequestTold, RequestPlaces, Streamed

\* A hook that passes leaves the headers.
LEMMA PassedTold ==
  ASSUME WalkInv, NEW t \in Task, InHook(t)
  PROVE  LET p == Passed(t) r == task[t]
         IN  p.kind = r.kind /\ p.headers = r.headers /\ p.answer = r.answer
<1>1. PICK r : r = task[t] /\ Shape(r)
  BY DEF WalkInv, Walked
<1>2. PICK n, tr : Passed(t) = [r EXCEPT !.k = n, !.trail = tr]
  <2>1. PICK n, tr : n = r.k + 1 /\ tr = IF r.gone THEN r.trail ELSE Noted(t, r.trail)
    OBVIOUS
  <2>2. Passed(t) = [r EXCEPT !.k = n, !.trail = tr]
    BY <1>1, <2>1 DEF Passed
  <2> QED
    BY <2>2
<1>3. PICK p : p = Passed(t)
  OBVIOUS
<1>4. p.kind = r.kind /\ p.headers = r.headers /\ p.answer = r.answer
  BY <1>1, <1>2, <1>3 DEF Shape
<1> QED
  BY <1>1, <1>3, <1>4

\* A hook that edits adds its word.
LEMMA ModifiedTold ==
  ASSUME WalkInv, WordInv, NEW t \in Task, HookModifies(t)
  PROVE  Worded(t, task'[t])
<1>1. InHook(t) /\ Entered(t) /\ ~task[t].gone
  BY DEF HookModifies
<1>2. PICK r, p, f : r = task[t] /\ p = Passed(t) /\ f = FilterAt(t)
  OBVIOUS
<1>3. /\ Walked(p) /\ p.pc = r.pc /\ p.edits = r.edits /\ p.gone = r.gone
      /\ p.kind = r.kind /\ p.headers = r.headers /\ p.answer = r.answer
  BY <1>1, <1>2, PassedWalked, PassedTold
<1>4. /\ p.pc \in HookPhase /\ f \in Filter /\ p.edits \in [HookPhase -> Seq(Filter)]
      /\ p.edits[p.pc] \in Seq(Filter)
  BY <1>1, <1>2, <1>3, AtFilter DEF Walked, UnderWay, HookPhase
<1>5. PICK n : n = [p.edits EXCEPT ![p.pc] = Append(@, f)]
  OBVIOUS
<1>6. /\ n[p.pc] = Append(p.edits[p.pc], f)
      /\ \A x \in HookPhase : x # p.pc => n[x] = p.edits[x]
  BY <1>4, <1>5
<1>7. PICK e : e = [p EXCEPT !.edits = n]
  OBVIOUS
<1>8. e = Edited(t)
  BY <1>2, <1>3, <1>5, <1>7 DEF Edited, Noted
<1>9. /\ Shape(e) /\ e.pc = p.pc /\ e.gone = p.gone /\ e.kind = p.kind
      /\ e.headers = p.headers /\ e.edits = n /\ e.answer = p.answer
  BY <1>3, <1>7 DEF Shape, Walked
<1>10. PICK q : q = CASE e.pc = "request"  -> [e EXCEPT !.headers = apply_request_edit(@, RequestEdit[f])]
                      [] e.pc = "body"     -> [e EXCEPT !.body = f]
                      [] e.pc = "response" -> apply_response_edit(e, ResponseEdit[f])
  OBVIOUS
<1>11. task'[t] = q
  BY <1>2, <1>8, <1>10 DEF HookModifies, WalkInv, Tabular
<1>12. Worded(t, r) /\ ~r.gone
  BY <1>1, <1>2 DEF WordInv
<1>13. CASE p.pc = "request"
  <2>1. PICK hs : hs = apply_request_edit(r.headers, RequestEdit[f])
    OBVIOUS
  <2>2. q = [e EXCEPT !.headers = hs]
    BY <1>3, <1>9, <1>10, <1>13, <2>1
  <2>3. q.pc = "request" /\ q.gone = r.gone /\ q.kind = r.kind /\ q.headers = hs /\ q.edits = n
    BY <1>3, <1>9, <1>13, <2>2 DEF Shape
  <2>4. r.kind \in DOMAIN Inbound /\ Told(r.headers, RequestView[r.kind], EditsBy(RequestEdit, r.edits["request"]))
    BY <1>3, <1>12, <1>13 DEF Worded, RequestTold, RequestPlaces
  <2>5. r.edits["request"] \in Seq(Filter) /\ n["request"] = Append(r.edits["request"], f)
    BY <1>3, <1>4, <1>6, <1>13
  <2>6. Told(hs, RequestView[r.kind], EditsBy(RequestEdit, n["request"]))
    BY <1>4, <2>1, <2>4, <2>5, EditLists, ToldMore
  <2> QED
    BY <1>11, <2>3, <2>4, <2>6 DEF Worded, RequestTold, Streamed
<1>14. CASE p.pc = "body"
  <2>1. q = [e EXCEPT !.body = f]
    BY <1>9, <1>10, <1>14
  <2>2. q.pc = "body" /\ q.gone = r.gone /\ q.kind = r.kind /\ q.headers = r.headers /\ q.edits = n
    BY <1>3, <1>9, <1>14, <2>1 DEF Shape
  <2>3. n["request"] = r.edits["request"]
    BY <1>3, <1>6, <1>14 DEF HookPhase
  <2>4. RequestTold(r)
    BY <1>3, <1>12, <1>14 DEF Worded, RequestPlaces
  <2> QED
    BY <1>11, <2>2, <2>3, <2>4 DEF Worded, RequestTold, Streamed
<1>15. CASE p.pc = "response"
  <2>1. PICK hs, edit : hs = apply_request_edit(r.headers, edit) /\ edit = ResponseEdit[f]
    OBVIOUS
  <2>2. PICK st : q = [e EXCEPT !.status = st, !.headers = hs]
    <3>1. q = apply_response_edit(e, edit)
      BY <1>9, <1>10, <1>15, <2>1
    <3>2. e.headers = r.headers
      BY <1>3, <1>9
    <3>3. q = [e EXCEPT !.status  = IF edit.set_status = 0 THEN @ ELSE edit.set_status,
                        !.headers = apply_request_edit(@, edit)]
      BY <3>1 DEF apply_response_edit
    <3>4. q = [e EXCEPT !.status  = IF edit.set_status = 0 THEN e.status ELSE edit.set_status,
                        !.headers = hs]
      BY <1>9, <2>1, <3>2, <3>3 DEF Shape
    <3> QED
      BY <3>4
  <2>3. q.pc = "response" /\ q.gone = r.gone /\ q.headers = hs /\ q.edits = n
    BY <1>3, <1>9, <1>15, <2>2 DEF Shape
  <2>4. Told(r.headers, ResponseView, EditsBy(ResponseEdit, r.edits["response"]))
    BY <1>3, <1>12, <1>15 DEF Worded, ResponseTold
  <2>5. r.edits["response"] \in Seq(Filter) /\ n["response"] = Append(r.edits["response"], f)
    BY <1>3, <1>4, <1>6, <1>15
  <2>6. Told(hs, ResponseView, EditsBy(ResponseEdit, n["response"]))
    BY <1>4, <2>1, <2>4, <2>5, EditLists, ToldMore
  <2>7. n["response"] \in Seq(Filter)
    BY <1>4, <2>5
  <2> QED
    BY <1>11, <2>3, <2>6, <2>7 DEF Worded, ResponseTold, RequestPlaces, Streamed
<1> QED
  BY <1>4, <1>13, <1>14, <1>15 DEF HookPhase

\* An answer that is not streamed says nothing of the upstream's headers.
Made(answer) == Unstreamed(answer) /\ IsList(answer.headers)

LEMMA SyntheticTold ==
  ASSUME WalkInv, NEW t \in Task, NEW answer, Respond(t, answer), Made(answer)
  PROVE  Worded(t, task'[t])
<1>1. PICK r, a : r = task[t] /\ a = Framed(t, answer)
  OBVIOUS
<1>2. PICK q : q = IF r.gone THEN [Blank EXCEPT !.pc = "sent"]
                  ELSE [Blank EXCEPT !.pc = "answered", !.answer = a]
  OBVIOUS
<1>3. task'[t] = q
  <2>1. answer.streamed = FALSE
    BY DEF Made, Unstreamed
  <2>2. task' = [task EXCEPT ![t] = q]
    BY <1>1, <1>2, <2>1, RespondTo
  <2> QED
    BY <2>2 DEF WalkInv, Tabular
<1>4. a.streamed = FALSE /\ a.headers = attach_alt_svc(t, answer.headers) /\ IsList(answer.headers)
  BY <1>1, FramedAnswer DEF Made, Unstreamed
<1>5. q.pc = "sent" \/ (q.pc = "answered" /\ q.answer = a)
  BY <1>2 DEF Blank
<1>6. q.answer = a => Sending(t, q)
  BY <1>4 DEF Sending
<1> QED
  BY <1>3, <1>4, <1>5, <1>6, Unsaid

\* The answers the proxy makes itself.
LEMMA AllMade ==
  /\ Made(http_response([status |-> 403, headers |-> <<>>, body |-> ""]))
  /\ \A status, fault : Made(synth(status, fault))
  /\ \A err : Made(http_response(fail_closed_response(err)))
  /\ \A err, original : Made(Delivered(fail_closed_response(err), original))
<1>1. ASSUME NEW resp, IsList(resp.headers) PROVE Made(http_response(resp))
  <2>1. http_response(resp).headers = copy_headers(resp.headers)
    BY DEF http_response
  <2> QED
    BY <1>1, <2>1, CopyIsList, Synthetic DEF Made
<1>2. IsList(<<>>) /\ \A x : IsList(<<x>>)
  BY DEF IsList
<1>3. \A status, fault : Made(synth(status, fault))
  <2>1. \A status, fault : synth(status, fault).headers = <<Hdr("x-plecto-fault", fault)>>
    BY DEF synth
  <2> QED
    BY <1>2, <2>1, Synthetic DEF Made
<1>4. \A err : /\ fail_closed_response(err).headers = <<Hdr("x-plecto-fault", err)>>
               /\ fail_closed_response(err).body # ""
  BY DEF fail_closed_response, FaultResponse
<1>5. \A err : Made(http_response(fail_closed_response(err)))
  BY <1>1, <1>2, <1>4
<1>6. \A err, original : Made(Delivered(fail_closed_response(err), original))
  BY <1>4, <1>5 DEF Delivered
<1>7. Made(http_response([status |-> 403, headers |-> <<>>, body |-> ""]))
  <2>1. PICK resp : resp = [status |-> 403, headers |-> <<>>, body |-> ""]
    OBVIOUS
  <2> QED
    BY <1>1, <1>2, <2>1
<1> QED
  BY <1>3, <1>5, <1>6, <1>7

\* However a hook ends.
LEMMA HookTold ==
  ASSUME WalkInv, WordInv, NEW t \in Task, HookEnds(t)
  PROVE  Worded(t, task'[t])
<1>1. CASE HookContinues(t)
  <2>1. task'[t] = Passed(t) /\ InHook(t) /\ Worded(t, task[t])
    BY <1>1 DEF HookContinues, WalkInv, Tabular, WordInv
  <2>2. PICK p, r : p = Passed(t) /\ r = task[t]
    OBVIOUS
  <2>3. /\ p.pc = r.pc /\ p.edits = r.edits /\ p.gone = r.gone
        /\ p.kind = r.kind /\ p.headers = r.headers /\ p.answer = r.answer
    BY <2>1, <2>2, PassedWalked, PassedTold
  <2> QED
    BY <2>1, <2>2, <2>3, SameTold
<1>2. CASE HookModifies(t)
  BY <1>2, ModifiedTold
<1>3. CASE HookShortCircuits(t)
  <2>1. PICK answer : Respond(t, answer) /\ Made(answer)
    BY <1>3, AllMade DEF HookShortCircuits
  <2> QED
    BY <2>1, SyntheticTold
<1>4. CASE \E err \in RunErrors : HookFails(t, err)
  <2>1. PICK answer : Respond(t, answer) /\ Made(answer)
    BY <1>4, AllMade DEF HookFails
  <2> QED
    BY <2>1, SyntheticTold
<1> QED
  BY <1>1, <1>2, <1>3, <1>4 DEF HookEnds

\* Between the hooks nothing is edited.
LEMMA GoToTold ==
  ASSUME WalkInv, WordInv, NEW t \in Task, task[t].pc \in RequestPlaces, NEW x \in RequestPlaces, GoTo(t, x)
  PROVE  Worded(t, task'[t])
<1>1. PICK r : r = task[t] /\ Shape(r) /\ Worded(t, r) /\ r.gone \in BOOLEAN
  BY DEF WalkInv, Walked, WordInv
<1>2. PICK q : q = IF r.gone THEN [Blank EXCEPT !.pc = "sent"] ELSE [r EXCEPT !.pc = x, !.k = 1]
  OBVIOUS
<1>3. task'[t] = q
  BY <1>1, <1>2 DEF GoTo, WalkInv, Tabular
<1>4. CASE r.gone
  <2>1. q.pc = "sent"
    BY <1>2, <1>4 DEF Blank
  <2> QED
    BY <1>3, <2>1, Unsaid
<1>5. CASE ~r.gone
  <2>1. q.pc = x /\ q.kind = r.kind /\ q.headers = r.headers /\ q.edits = r.edits
    BY <1>1, <1>2, <1>5 DEF Shape
  <2> QED
    BY <1>1, <1>3, <1>5, <2>1, StillTold
<1> QED
  BY <1>4, <1>5

\* The response begins with its own view.
LEMMA AnsweredTold ==
  ASSUME WalkInv, NEW t \in Task, UpstreamAnswers(t)
  PROVE  Worded(t, task'[t])
<1>1. PICK r, h : r = task[t] /\ h = [NoHooks EXCEPT !["request"] = r.trail["request"]]
  OBVIOUS
<1>2. PICK q : q = [Blank EXCEPT !.pc = "response", !.gen = r.gen, !.k = 1,
                      !.calls = r.calls, !.trail = h, !.status = 200, !.headers = ResponseView]
  OBVIOUS
<1>3. task'[t] = q
  BY <1>1, <1>2 DEF UpstreamAnswers, WalkInv, Tabular
<1>4. q.pc = "response" /\ q.headers = ResponseView /\ q.edits = NoHooks
  BY <1>2 DEF Blank
<1>5. q.edits["response"] = <<>>
  BY <1>4 DEF NoHooks, HookPhase
<1>6. Told(ResponseView, ResponseView, EditsBy(ResponseEdit, <<>>))
  BY Views, ToldAtFirst
<1>7. <<>> \in Seq(Filter)
  OBVIOUS
<1> QED
  BY <1>3, <1>4, <1>5, <1>6, <1>7 DEF Worded, ResponseTold, RequestPlaces, Streamed

\* The response that is sent is made of the headers as they are.
LEMMA DeliveredTold ==
  ASSUME WalkInv, WordInv, NEW t \in Task, ResponseChainPasses(t)
  PROVE  Worded(t, task'[t])
<1>1. PICK r : r = task[t] /\ Shape(r) /\ Worded(t, r) /\ r.gone \in BOOLEAN /\ r.pc = "response"
  BY DEF WalkInv, Walked, WordInv, ResponseChainPasses
<1>2. PICK resp : resp = [status |-> r.status, headers |-> r.headers, body |-> ""]
  OBVIOUS
<1>3. PICK answer, a : answer = stream_response(resp, UpstreamMap) /\ a = Framed(t, answer)
  OBVIOUS
<1>4. /\ resp.headers = r.headers /\ resp.body = "" /\ Answer(answer)
      /\ answer.streamed = TRUE /\ answer.headers = copy_headers_preserving(r.headers, UpstreamMap)
  BY <1>2, <1>3 DEF stream_response, Answer
<1>5. Respond(t, answer)
  BY <1>1, <1>2, <1>3, <1>4 DEF ResponseChainPasses, Delivered
<1>6. PICK q : q = IF r.gone THEN [Blank EXCEPT !.pc = "sent"]
                  ELSE [r EXCEPT !.pc = "answered", !.answer = a]
  OBVIOUS
<1>7. task'[t] = q
  <2>1. task' = [task EXCEPT ![t] = q]
    BY <1>1, <1>3, <1>4, <1>5, <1>6, RespondTo
  <2> QED
    BY <2>1 DEF WalkInv, Tabular
<1>8. CASE r.gone
  <2>1. q.pc = "sent"
    BY <1>6, <1>8 DEF Blank
  <2> QED
    BY <1>7, <2>1, Unsaid
<1>9. CASE ~r.gone
  <2>1. q.pc = "answered" /\ q.headers = r.headers /\ q.edits = r.edits /\ q.answer = a
    BY <1>1, <1>6, <1>9 DEF Shape
  <2>2. ResponseTold(r)
    BY <1>1, <1>9 DEF Worded
  <2>3. IsList(answer.headers)
    <3>1. IsList(r.headers) /\ IsList(UpstreamMap)
      BY <2>2, ChainAssumption DEF ResponseTold, Told, ChainAssumption
    <3>2. PICK U, W : r.headers \in Seq(U) /\ UpstreamMap \in Seq(W)
      BY <3>1, ListIsSeq
    <3> QED
      BY <1>4, <3>2, CopyOnly
  <2>4. Sending(t, q)
    <3>0. Framed(t, answer).headers = attach_alt_svc(t, answer.headers)
      BY <1>4, FramedAnswer
    <3>1. a.headers = attach_alt_svc(t, answer.headers)
      BY <1>3, <3>0
    <3> QED
      BY <1>4, <2>1, <2>3, <3>1 DEF Sending
  <2>5. ResponseTold(q)
    BY <2>1, <2>2 DEF ResponseTold
  <2> QED
    BY <1>7, <2>1, <2>4, <2>5 DEF Worded, RequestPlaces
<1> QED
  BY <1>8, <1>9

\* Outbound calls leave them alone.
LEMMA CallTold ==
  ASSUME WalkInv, WordInv, NEW t \in Task, Calling(t)
  PROVE  Worded(t, task'[t])
<1>1. PICK r : r = task[t] /\ Shape(r) /\ Worded(t, r)
  BY DEF WalkInv, Walked, WordInv
<1>2. ASSUME NEW q, NEW n, NEW w, q = [r EXCEPT !.calls = n, !.await = w] PROVE Worded(t, q)
  <2>1. /\ q.pc = r.pc /\ q.gone = r.gone /\ q.kind = r.kind /\ q.headers = r.headers
        /\ q.edits = r.edits /\ q.answer = r.answer
    BY <1>1, <1>2 DEF Shape
  <2> QED
    BY <1>1, <2>1, SameTold
<1>3. ASSUME CallEnds(t) PROVE Worded(t, task'[t])
  <2>1. PICK q : q = [r EXCEPT !.await = FALSE]
    OBVIOUS
  <2>2. task'[t] = q
    BY <1>1, <1>3, <2>1 DEF CallEnds, WalkInv, Tabular
  <2>3. q = [r EXCEPT !.calls = r.calls, !.await = FALSE]
    BY <1>1, <2>1 DEF Shape
  <2> QED
    BY <1>2, <2>2, <2>3
<1>4. ASSUME NEW target, CallDenied(t, target) PROVE Worded(t, task'[t])
  <2>1. PICK q : q = [r EXCEPT !.calls = r.calls - 1]
    OBVIOUS
  <2>2. task'[t] = q
    BY <1>1, <1>4, <2>1 DEF CallDenied, WalkInv, Tabular
  <2>3. q = [r EXCEPT !.calls = r.calls - 1, !.await = r.await]
    BY <1>1, <2>1 DEF Shape
  <2> QED
    BY <1>2, <2>2, <2>3
<1>5. ASSUME NEW target, NEW await, CallStarts(t, target, await) PROVE Worded(t, task'[t])
  <2>1. PICK q : q = [r EXCEPT !.calls = r.calls - 1, !.await = await]
    OBVIOUS
  <2>2. task'[t] = q
    <3>1. task' = [task EXCEPT ![t].calls = @ - 1, ![t].await = await]
      BY <1>5 DEF CallStarts
    <3> QED
      BY <1>1, <2>1, <3>1 DEF WalkInv, Tabular, Shape
  <2> QED
    BY <1>2, <2>1, <2>2
<1>6. ASSUME NEW addrs, Resolved(t, addrs) PROVE CallEnds(t) \/ task' = task
  BY <1>6 DEF Resolved
<1> QED
  BY <1>1, <1>3, <1>4, <1>5, <1>6
  DEF Calling, Outgoing, TotalTimeout, BodyEnds, Connects, HeadArrives, CallFails

\* WordInv is inductive, given WalkInv.
LEMMA WordInit == Init => WordInv
<1> SUFFICES ASSUME Init PROVE WordInv
  OBVIOUS
<1>1. Blank.pc = "new"
  BY DEF Blank
<1> QED
  BY <1>1, Unsaid DEF Init, WordInv

\* (The step.)
LEMMA WordNext == WalkInv /\ WordInv /\ [Next]_vars => WordInv'
<1> SUFFICES ASSUME WalkInv, WordInv, [Next]_vars PROVE WordInv'
  OBVIOUS
<1>1. CASE task' = task
  BY <1>1 DEF WordInv
<1>2. ASSUME NEW t \in Task, Moved(t), Worded(t, task'[t]) PROVE WordInv'
  BY <1>2, WordMoved
<1>3. ASSUME NEW t \in Task, NEW kind \in DOMAIN Inbound, Arrive(t, kind) PROVE WordInv'
  BY <1>2, <1>3, ArriveMoved, ArriveTold
<1>4. ASSUME NEW t \in Task, HookEnds(t) PROVE WordInv'
  BY <1>2, <1>4, HookMoves, HookTold
<1>5. ASSUME NEW t \in Task, Refused(t) \/ BodyRefused(t) \/ UpstreamFails(t) PROVE WordInv'
  <2>1. PICK answer : Respond(t, answer) /\ Made(answer)
    <3>1. \/ Respond(t, synth(503, "no-healthy-upstream")) \/ Respond(t, synth(503, "circuit-open"))
          \/ Respond(t, synth(413, "body-too-large")) \/ Respond(t, synth(408, "body-timeout"))
          \/ Respond(t, synth(504, "upstream-timeout")) \/ Respond(t, synth(502, "upstream"))
      BY <1>5 DEF Refused, BodyRefused, UpstreamFails
    <3>2. \A status, fault : Respond(t, synth(status, fault)) =>
            \E answer : Respond(t, answer) /\ Made(answer)
      BY AllMade
    <3> QED
      BY <3>1, <3>2
  <2>2. Moved(t)
    BY <1>5, Refusals
  <2> QED
    BY <1>2, <2>1, <2>2, SyntheticTold
<1>6. ASSUME NEW t \in Task, BodyRead(t) PROVE WordInv'
  <2>1. task[t].pc \in RequestPlaces /\ "body" \in RequestPlaces /\ GoTo(t, "body")
    BY <1>6 DEF BodyRead, RequestPlaces
  <2> QED
    BY <1>2, <1>6, <2>1, BodyIsRead, GoToTold
<1>7. ASSUME NEW t \in Task, BodyChainPasses(t) PROVE WordInv'
  <2>1. task[t].pc \in RequestPlaces /\ "upstream" \in RequestPlaces /\ GoTo(t, "upstream")
    BY <1>7 DEF BodyChainPasses, RequestPlaces
  <2> QED
    BY <1>2, <1>7, <2>1, BodyPassed, GoToTold
<1>8. ASSUME NEW t \in Task, UpstreamAnswers(t) PROVE WordInv'
  BY <1>2, <1>8, UpstreamAnswered, AnsweredTold
<1>9. ASSUME NEW t \in Task, ResponseChainPasses(t) PROVE WordInv'
  BY <1>2, <1>9, ResponsePassed, DeliveredTold
<1>10. ASSUME NEW t \in Task, Sent(t) PROVE WordInv'
  BY <1>2, <1>10, SentMoved, Unsaid
<1>11. ASSUME NEW t \in Task, Calling(t) PROVE WordInv'
  BY <1>1, <1>2, <1>11, CallMoves, CallTold
<1>12. ASSUME NEW t \in Task, RequestChainPasses(t) PROVE WordInv'
  <2>1. task[t].pc \in RequestPlaces
    BY <1>12 DEF RequestChainPasses, RequestPlaces
  <2>2. PICK x \in RequestPlaces : GoTo(t, x)
    BY <1>12 DEF RequestChainPasses, RequestPlaces
  <2> QED
    BY <1>2, <1>12, <2>1, <2>2, RequestPassedBuffer, GoToTold
<1>13. ASSUME NEW t \in Task, AcquireBuffer(t) PROVE WordInv'
  <2>1. Moved(t) /\ task[t].pc = "queue"
    BY <1>13, BufferAcquired
  <2>2. PICK r : r = task[t] /\ Walked(r) /\ Worded(t, r)
    BY DEF WalkInv, WordInv
  <2>3. PICK q : q = [r EXCEPT !.pc = "read"]
    OBVIOUS
  <2>4. task'[t] = q
    BY <1>13, <2>2, <2>3 DEF AcquireBuffer, WalkInv, Tabular
  <2>5. r.pc = "queue" /\ ~r.gone
    BY <2>1, <2>2 DEF Walked, HookPhase
  <2>6. q.pc = "read" /\ q.kind = r.kind /\ q.headers = r.headers /\ q.edits = r.edits
    BY <2>2, <2>3 DEF Walked, Shape
  <2>7. Worded(t, q)
    BY <2>2, <2>5, <2>6, StillTold DEF RequestPlaces
  <2> QED
    BY <1>2, <2>1, <2>4, <2>7
<1>14. ASSUME NEW t \in Task, Disconnect(t) PROVE WordInv'
  <2>1. Moved(t) /\ (task'[t].gone \/ task'[t].pc = "sent")
    BY <1>14, Disconnected
  <2>2. task'[t].gone => task'[t].pc \in HookPhase
    BY <2>1 DEF Moved, Walked
  <2> QED
    BY <1>2, <2>1, <2>2, Unsaid
<1>15. CASE Reload
  BY <1>1, <1>15 DEF Reload
<1>16. CASE UNCHANGED vars
  BY <1>1, <1>16 DEF vars
<1> QED
  BY <1>3, <1>4, <1>5, <1>6, <1>7, <1>8, <1>9, <1>10, <1>11, <1>12, <1>13, <1>14, <1>15, <1>16
  DEF Next, Calling

----------------------------------------------------------------------------
(* What leaves the proxy.                                                  *)

\* out is what is sent of the headers hs of a map, with at most the trace added.
Out(out, hs, map, added) ==
  /\ IsList(hs) /\ IsList(map) /\ IsList(out)
  /\ \A i \in 1..Len(out) : out[i].name \notin HOP_BY_HOP
  /\ \A name : name \notin added => Only(out, name) = Only(copy_headers_preserving(hs, map), name)

\* What leaves the proxy, of what the headers say.
LEMMA CopyOut ==
  ASSUME NEW hs, IsList(hs), NEW map, IsList(map)
  PROVE  Out(copy_headers_preserving(hs, map), hs, map, {})
<1>1. PICK U, W : hs \in Seq(U) /\ map \in Seq(W)
  BY ListIsSeq
<1>2. PICK out : out = copy_headers_preserving(hs, map)
  OBVIOUS
<1>3. IsList(out) /\ \A i \in DOMAIN out : out[i].name \notin HOP_BY_HOP
  BY <1>1, <1>2, CopyOnly
<1>4. DOMAIN out = 1..Len(out)
  BY <1>3 DEF IsList
<1> QED
  BY <1>2, <1>3, <1>4 DEF Out

\* A header the proxy puts in, in place of all there are of its name.
Put(c, n, v) == Drop(c, {n}) \o <<Hdr(n, v)>>

LEMMA PutIn ==
  ASSUME NEW c, IsList(c), NEW n, NEW v
  PROVE  /\ IsList(Put(c, n, v)) /\ Lines(Put(c, n, v), n) = <<v>>
         /\ \A name : name # n => Only(Put(c, n, v), name) = Only(c, name)
         /\ n \notin HOP_BY_HOP /\ (\A i \in 1..Len(c) : c[i].name \notin HOP_BY_HOP)
              => \A i \in 1..Len(Put(c, n, v)) : Put(c, n, v)[i].name \notin HOP_BY_HOP
<1>1. PICK added, d, x, out :
        added = {n} /\ d = Drop(c, added) /\ x = Hdr(n, v) /\ out = Append(d, x)
  OBVIOUS
<1>2. PICK U : c \in Seq(U)
  BY ListIsSeq
<1>3. PICK V : V = U \cup {x}
  OBVIOUS
<1>4. c \in Seq(V) /\ x \in V /\ x.name = n /\ x.value = v
  BY <1>1, <1>2, <1>3 DEF Hdr
<1>5. d \in Seq(V)
  BY <1>1, <1>4, OnlyDrop
<1>6. out = Put(c, n, v)
  <2>1. Put(c, n, v) = d \o <<x>>
    BY <1>1 DEF Put
  <2> QED
    BY <1>1, <1>4, <1>5, <2>1, AppendIsConcat
<1>7. out \in Seq(V) /\ Len(out) = Len(d) + 1 /\ out[Len(d) + 1] = x
      /\ \A i \in 1..Len(d) : out[i] = d[i]
  BY <1>1, <1>4, <1>5
<1>8. ASSUME NEW name
      PROVE  Only(out, name) = IF name = n THEN <<x>> ELSE Only(c, name)
  <2>0. Only(Drop(c, added), name) = IF name \in added THEN <<>> ELSE Only(c, name)
    BY <1>4, OnlyDrop
  <2>1. Only(d, name) = IF name \in added THEN <<>> ELSE Only(c, name)
    BY <1>1, <2>0
  <2>2. Only(Append(d, x), name) = IF x.name = name THEN Append(Only(d, name), x) ELSE Only(d, name)
    BY <1>4, <1>5, OnlyAppend
  <2>3. Append(<<>>, x) = <<x>>
    OBVIOUS
  <2> QED
    BY <1>1, <1>4, <2>1, <2>2, <2>3
<1>9. ASSUME n \notin HOP_BY_HOP, \A i \in 1..Len(c) : c[i].name \notin HOP_BY_HOP,
             NEW i \in 1..Len(out)
      PROVE  out[i].name \notin HOP_BY_HOP
  <2>1. CASE i = Len(d) + 1
    BY <1>4, <1>7, <1>9, <2>1
  <2>2. CASE i \in 1..Len(d)
    <3>1. Naming!Kept(d, c, Len(c), NotNamed(V, added))
      BY <1>1, <1>4, DropKept
    <3>2. PICK C : C = {c[j] : j \in 1..Len(c)}
      OBVIOUS
    <3>3. c \in Seq(C)
      BY <1>2, <3>2
    <3>4. d \in Seq(C)
      BY <3>1, <3>3, KeptIsSeq
    <3>5. d[i] \in C
      BY <2>2, <3>4
    <3>6. PICK j \in 1..Len(c) : d[i] = c[j]
      BY <3>2, <3>5
    <3> QED
      BY <1>7, <1>9, <2>2, <3>6
  <2>3. i = Len(d) + 1 \/ i \in 1..Len(d)
    BY <1>5, <1>7
  <2> QED
    BY <2>1, <2>2, <2>3
<1>10. Lines(out, n) = <<v>>
  <2>1. Only(out, n) = <<x>>
    BY <1>8
  <2>2. [i \in DOMAIN <<x>> |-> <<x>>[i].value] = <<v>>
    BY <1>4
  <2> QED
    BY <2>1, <2>2 DEF Lines
<1> QED
  BY <1>6, <1>7, <1>8, <1>9, <1>10, SeqIsList

\* Upstream, with the trace header put in.
LEMMA UpstreamOut ==
  ASSUME NEW t \in Task, IsList(task[t].headers), IsList(Inbound[task[t].kind].map)
  PROVE  /\ Out(UpstreamHeaders(t), task[t].headers, Inbound[task[t].kind].map, {"traceparent"})
         /\ Lines(UpstreamHeaders(t), "traceparent") = <<Trace>>
<1>1. PICK hs, map, c, out :
        /\ hs = task[t].headers /\ map = Inbound[task[t].kind].map
        /\ c = copy_headers_preserving(hs, map) /\ out = UpstreamHeaders(t)
  OBVIOUS
<1>2. Out(c, hs, map, {})
  BY <1>1, CopyOut
<1>3. out = Put(c, "traceparent", Trace) /\ "traceparent" \notin HOP_BY_HOP
  BY <1>1 DEF UpstreamHeaders, HOP_BY_HOP, Put
<1>4. /\ IsList(out) /\ Lines(out, "traceparent") = <<Trace>>
      /\ \A name : name # "traceparent" => Only(out, name) = Only(c, name)
      /\ \A i \in 1..Len(out) : out[i].name \notin HOP_BY_HOP
  BY <1>2, <1>3, PutIn DEF Out
<1>5. Out(out, hs, map, {"traceparent"})
  BY <1>1, <1>2, <1>4 DEF Out
<1> QED
  BY <1>1, <1>4, <1>5

\* To the client, with what the proxy advertises put in.
LEMMA ClientOut ==
  ASSUME NEW t, NEW hs, NEW map, IsList(hs), IsList(map)
  PROVE  Out(attach_alt_svc(t, copy_headers_preserving(hs, map)), hs, map, Advert(t))
<1>1. PICK c, out : c = copy_headers_preserving(hs, map) /\ out = attach_alt_svc(t, c)
  OBVIOUS
<1>2. Out(c, hs, map, {})
  BY <1>1, CopyOut
<1>3. CASE ~advertises(t)
  BY <1>1, <1>2, <1>3 DEF attach_alt_svc, Advert
<1>4. CASE advertises(t)
  <2>1. out = Put(c, "alt-svc", AltSvc) /\ "alt-svc" \notin HOP_BY_HOP
    BY <1>1, <1>4 DEF attach_alt_svc, HOP_BY_HOP, Put
  <2>2. /\ IsList(out)
        /\ \A name : name # "alt-svc" => Only(out, name) = Only(c, name)
        /\ \A i \in 1..Len(out) : out[i].name \notin HOP_BY_HOP
    BY <1>2, <2>1, PutIn DEF Out
  <2> QED
    BY <1>1, <1>2, <1>4, <2>2 DEF Out, Advert
<1> QED
  BY <1>3, <1>4

\* The edits that were made are edits.
LEMMA EditsAre ==
  ASSUME NEW edit, \A f \in Filter : IsList(edit[f].set), NEW fs \in Seq(Filter)
  PROVE  Edits(EditsBy(edit, fs))
<1>1. PICK n, es : n = Len(fs) /\ es = EditsBy(edit, fs)
  OBVIOUS
<1>2. n \in Nat /\ DOMAIN fs = 1..n /\ \A i \in 1..n : fs[i] \in Filter
  BY <1>1
<1>3. es = [i \in 1..n |-> edit[fs[i]]]
  BY <1>1, <1>2 DEF EditsBy
<1>4. Len(es) = n
  BY <1>2, <1>3
<1>5. IsList(es)
  BY <1>2, <1>3, <1>4 DEF IsList
<1>6. \A i \in 1..n : IsList(es[i].set)
  BY <1>2, <1>3
<1> QED
  BY <1>1, <1>4, <1>5, <1>6 DEF Edits

\* What was not touched is carried over.
LEMMA CarriedOut ==
  ASSUME NEW out, NEW hs, NEW map, NEW added, Out(out, hs, map, added), NEW others, added \subseteq others,
         \A name : name \notin others \cup HOP_BY_HOP => Only(hs, name) = Decoded(map, name)
  PROVE  Carried(out, map, others)
<1>1. PICK U, V, W : hs \in Seq(U) /\ out \in Seq(V) /\ map \in Seq(W)
  BY ListIsSeq DEF Out
<1>2. \A i \in DOMAIN out : out[i].name \notin HOP_BY_HOP
  BY <1>1 DEF Out
<1>3. ASSUME NEW name \in connection_named(map) \ others PROVE Lines(out, name) = <<>>
  <2>1. CASE name \in HOP_BY_HOP
    <3>1. \A i \in 1..Len(out) : out[i].name \notin HOP_BY_HOP
      BY DEF Out
    <3> QED
      BY <1>1, <2>1, <3>1, CopyNothing
  <2>2. CASE name \notin HOP_BY_HOP
    <3>1. Only(hs, name) = <<>>
      BY <1>3, <2>2 DEF Decoded
    <3>2. Only(out, name) = Only(copy_headers_preserving(hs, map), name)
      BY <1>3 DEF Out
    <3> QED
      BY <1>1, <2>2, <3>1, <3>2, CopyNothing
  <2> QED
    BY <2>1, <2>2
<1>4. ASSUME NEW name, name \notin HOP_BY_HOP \cup connection_named(map) \cup others
      PROVE  IF Ambiguous(Lines(map, name)) THEN Len(Lines(out, name)) = Len(Lines(map, name))
                                            ELSE Lines(out, name) = Lines(map, name)
  <2>1. Only(out, name) = Only(copy_headers_preserving(hs, map), name)
    BY <1>4 DEF Out
  <2>2. Only(hs, name) = Decoded(map, name) /\ name \notin HOP_BY_HOP /\ name \notin connection_named(map)
    BY <1>4
  <2> QED
    BY <1>1, <2>1, <2>2, CopyCarries
<1> QED
  BY <1>2, <1>3, <1>4 DEF Carried

\* The proxy's own headers go out as they are.
LEMMA OwnOut ==
  ASSUME NEW out, NEW hs, NEW map, NEW added, Out(out, hs, map, added),
         NEW name \in FORWARDED_HEADERS, name \notin added, Only(hs, name) = OwnHeaders(name)
  PROVE  Lines(out, name) = Own(name)
<1>1. PICK U, V, W : hs \in Seq(U) /\ out \in Seq(V) /\ map \in Seq(W)
  BY ListIsSeq DEF Out
<1>2. name \notin HOP_BY_HOP
  BY DEF FORWARDED_HEADERS, HOP_BY_HOP
<1>3. Only(out, name) = Only(copy_headers_preserving(hs, map), name)
  BY DEF Out
<1>4. Peer # Replacement /\ ValidValue(Peer) /\ Scheme # Replacement /\ ValidValue(Scheme)
  BY DEF Peer, Scheme, Replacement, ValidValue
<1>5. CASE name \in {"x-forwarded-for", "x-real-ip"}
  <2>1. Only(hs, name) = <<Hdr(name, Peer)>> /\ Own(name) = <<Peer>>
    BY <1>5 DEF OwnHeaders, Own
  <2>2. Lines(out, name) = <<Peer>>
    BY <1>1, <1>2, <1>3, <1>4, <2>1, CopyOne
  <2> QED
    BY <2>1, <2>2
<1>6. CASE name = "x-forwarded-proto"
  <2>1. Only(hs, name) = <<Hdr(name, Scheme)>> /\ Own(name) = <<Scheme>>
    BY <1>6 DEF OwnHeaders, Own
  <2>2. Lines(out, name) = <<Scheme>>
    BY <1>1, <1>2, <1>3, <1>4, <2>1, CopyOne
  <2> QED
    BY <2>1, <2>2
<1>7. CASE name \notin {"x-forwarded-for", "x-real-ip", "x-forwarded-proto"}
  <2>1. Only(hs, name) = <<>> /\ Own(name) = <<>>
    BY <1>7 DEF OwnHeaders, Own
  <2>2. Lines(out, name) = <<>>
    BY <1>1, <1>2, <1>3, <2>1, CopyNothing
  <2> QED
    BY <2>1, <2>2
<1> QED
  BY <1>5, <1>6, <1>7

\* Every other name says what the headers say.
LEMMA SaysOut ==
  ASSUME NEW out, NEW hs, NEW map, NEW added, Out(out, hs, map, added),
         NEW name, name \notin added \cup HOP_BY_HOP
  PROVE  Says(out, map, name, Only(hs, name))
<1>1. PICK U, V, W : hs \in Seq(U) /\ out \in Seq(V) /\ map \in Seq(W)
  BY ListIsSeq DEF Out
<1>2. Only(out, name) = Only(copy_headers_preserving(hs, map), name) /\ name \notin HOP_BY_HOP
  BY DEF Out
<1> QED
  BY <1>1, <1>2, CopySays

\* A request on its way, and a streamed answer, with all that is known of them.
LEMMA RequestOut ==
  ASSUME WalkInv, WordInv, NEW t \in Task, task[t].pc = "upstream"
  PROVE  /\ task[t].kind \in DOMAIN Inbound
         /\ Out(UpstreamHeaders(t), task[t].headers, Inbound[task[t].kind].map, {"traceparent"})
         /\ Lines(UpstreamHeaders(t), "traceparent") = <<Trace>>
         /\ Edits(EditsBy(RequestEdit, Modifiers(t, "request")))
         /\ \A name : Only(task[t].headers, name) =
              Word(Only(RequestView[task[t].kind], name), EditsBy(RequestEdit, Modifiers(t, "request")), name)
<1>1. PICK r : r = task[t] /\ Walked(r) /\ Worded(t, r)
  BY DEF WalkInv, WordInv
<1>2. ~r.gone /\ r.edits \in [HookPhase -> Seq(Filter)]
  BY <1>1 DEF Walked, HookPhase, UnderWay
<1>3. r.edits["request"] \in Seq(Filter)
  BY <1>2 DEF HookPhase
<1>4. /\ r.kind \in DOMAIN Inbound
      /\ Told(r.headers, RequestView[r.kind], EditsBy(RequestEdit, r.edits["request"]))
  BY <1>1, <1>2 DEF Worded, RequestPlaces, RequestTold
<1>5. IsList(r.headers) /\ IsList(Inbound[r.kind].map)
  BY <1>4, ChainAssumption DEF Told, ChainAssumption
<1>6. Edits(EditsBy(RequestEdit, r.edits["request"]))
  BY <1>3, EditLists, EditsAre
<1> QED
  BY <1>1, <1>4, <1>5, <1>6, UpstreamOut DEF Modifiers, Told

\* All of this holds of a response that is streamed.
LEMMA ResponseOut ==
  ASSUME WalkInv, WordInv, NEW t \in Task, task[t].pc = "answered", task[t].answer.streamed
  PROVE  /\ Out(task[t].answer.headers, task[t].headers, UpstreamMap, Advert(t))
         /\ Edits(EditsBy(ResponseEdit, Modifiers(t, "response")))
         /\ \A name : Only(task[t].headers, name) =
              Word(Only(ResponseView, name), EditsBy(ResponseEdit, Modifiers(t, "response")), name)
<1>1. PICK r : r = task[t] /\ Worded(t, r)
  BY DEF WordInv
<1>2. /\ r.edits["response"] \in Seq(Filter)
      /\ Told(r.headers, ResponseView, EditsBy(ResponseEdit, r.edits["response"]))
      /\ r.answer.headers = attach_alt_svc(t, copy_headers_preserving(r.headers, UpstreamMap))
  BY <1>1 DEF Worded, Streamed, ResponseTold, Sending
<1>3. IsList(r.headers) /\ IsList(UpstreamMap)
  BY <1>2, ChainAssumption DEF Told, ChainAssumption
<1>4. Edits(EditsBy(ResponseEdit, r.edits["response"]))
  BY <1>2, EditLists, EditsAre
<1> QED
  BY <1>1, <1>2, <1>3, <1>4, ClientOut DEF Modifiers, Told

\* Whatever answers a request over TCP says what the proxy advertises.
LEMMA AdvertOut ==
  ASSUME WordInv, NEW t \in Task, task[t].pc = "answered", NEW name \in Advert(t)
  PROVE  Lines(task[t].answer.headers, name) = <<AltSvc>>
<1>1. PICK out : out = task[t].answer.headers
  OBVIOUS
<1>2. PICK hs : IsList(hs) /\ out = attach_alt_svc(t, hs)
  BY <1>1 DEF WordInv, Worded, Sending
<1>3. name = "alt-svc" /\ out = Put(hs, "alt-svc", AltSvc)
  BY <1>2 DEF Advert, attach_alt_svc, Put
<1>4. Lines(out, "alt-svc") = <<AltSvc>>
  BY <1>2, <1>3, PutIn
<1> QED
  BY <1>1, <1>3, <1>4

\* The two properties, from the invariants.
LEMMA Kept == WalkInv /\ WordInv => UntouchedKept
<1> SUFFICES ASSUME WalkInv, WordInv PROVE UntouchedKept
  OBVIOUS
<1>1. ASSUME NEW t \in Task, task[t].pc = "upstream"
      PROVE  LET out     == UpstreamHeaders(t)
                 touched == Touched(EditsBy(RequestEdit, Modifiers(t, "request")))
             IN  /\ Carried(out, Inbound[task[t].kind].map,
                            FORWARDED_HEADERS \cup {"traceparent"} \cup touched)
                 /\ Lines(out, "traceparent") = <<Trace>>
                 /\ \A name \in FORWARDED_HEADERS \ touched : Lines(out, name) = Own(name)
  <2>1. PICK out, hs, kind, map, edits, touched, others :
          /\ out = UpstreamHeaders(t) /\ hs = task[t].headers /\ kind = task[t].kind
          /\ map = Inbound[kind].map /\ edits = EditsBy(RequestEdit, Modifiers(t, "request"))
          /\ touched = Touched(edits)
          /\ others = FORWARDED_HEADERS \cup {"traceparent"} \cup touched
    OBVIOUS
  <2>2. /\ kind \in DOMAIN Inbound /\ Out(out, hs, map, {"traceparent"})
        /\ Lines(out, "traceparent") = <<Trace>> /\ Edits(edits)
        /\ \A name : Only(hs, name) = Word(Only(RequestView[kind], name), edits, name)
    BY <1>1, <2>1, RequestOut
  <2>3. ASSUME NEW name, name \notin touched PROVE Only(hs, name) = Only(RequestView[kind], name)
    BY <2>1, <2>2, <2>3, WordWalk
  <2>4. ASSUME NEW name, name \notin others \cup HOP_BY_HOP PROVE Only(hs, name) = Decoded(map, name)
    BY <2>1, <2>2, <2>3, <2>4, Views
  <2>5. {"traceparent"} \subseteq others
    BY <2>1
  <2>6. Carried(out, map, others)
    BY <2>2, <2>4, <2>5, CarriedOut
  <2>7. ASSUME NEW name \in FORWARDED_HEADERS \ touched PROVE Lines(out, name) = Own(name)
    <3>1. Only(hs, name) = OwnHeaders(name)
      BY <2>2, <2>3, <2>7, Views
    <3>2. name \notin {"traceparent"} /\ name \in FORWARDED_HEADERS
      BY DEF FORWARDED_HEADERS
    <3> QED
      BY <2>2, <3>1, <3>2, OwnOut
  <2> QED
    BY <2>1, <2>2, <2>6, <2>7
<1>2. ASSUME NEW t \in Task, task[t].pc = "answered", task[t].answer.streamed
      PROVE  Carried(task[t].answer.headers, UpstreamMap,
                     Advert(t) \cup Touched(EditsBy(ResponseEdit, Modifiers(t, "response"))))
  <2>1. PICK out, hs, edits, touched, others :
          /\ out = task[t].answer.headers /\ hs = task[t].headers
          /\ edits = EditsBy(ResponseEdit, Modifiers(t, "response")) /\ touched = Touched(edits)
          /\ others = Advert(t) \cup touched
    OBVIOUS
  <2>2. /\ Out(out, hs, UpstreamMap, Advert(t)) /\ Edits(edits)
        /\ \A name : Only(hs, name) = Word(Only(ResponseView, name), edits, name)
    BY <1>2, <2>1, ResponseOut
  <2>3. ASSUME NEW name, name \notin touched PROVE Only(hs, name) = Only(ResponseView, name)
    BY <2>1, <2>2, <2>3, WordWalk
  <2>4. ASSUME NEW name, name \notin others \cup HOP_BY_HOP PROVE Only(hs, name) = Decoded(UpstreamMap, name)
    BY <2>1, <2>3, <2>4, Views
  <2>5. Advert(t) \subseteq others
    BY <2>1
  <2>6. Carried(out, UpstreamMap, others)
    BY <2>2, <2>4, <2>5, CarriedOut
  <2> QED
    BY <2>1, <2>6
<1> QED
  BY <1>1, <1>2, AdvertOut DEF UntouchedKept

\* (The second.)
LEMMA Held == WalkInv /\ WordInv => EditsHold
<1> SUFFICES ASSUME WalkInv, WordInv PROVE EditsHold
  OBVIOUS
<1>1. ASSUME NEW t \in Task, task[t].pc = "upstream",
             NEW name, name \in Touched(EditsBy(RequestEdit, Modifiers(t, "request"))),
             name \notin HOP_BY_HOP \cup {"traceparent"}
      PROVE  Says(UpstreamHeaders(t), Inbound[task[t].kind].map, name,
                  Word(IF name \in FORWARDED_HEADERS THEN <<>>
                       ELSE Decoded(Inbound[task[t].kind].map, name),
                       EditsBy(RequestEdit, Modifiers(t, "request")), name))
  <2>1. PICK out, hs, kind, map, edits, first, view :
          /\ out = UpstreamHeaders(t) /\ hs = task[t].headers /\ kind = task[t].kind
          /\ map = Inbound[kind].map /\ edits = EditsBy(RequestEdit, Modifiers(t, "request"))
          /\ first = (IF name \in FORWARDED_HEADERS THEN <<>> ELSE Decoded(map, name))
          /\ view = Only(RequestView[kind], name)
    OBVIOUS
  <2>2. /\ kind \in DOMAIN Inbound /\ Out(out, hs, map, {"traceparent"}) /\ Edits(edits)
        /\ Only(hs, name) = Word(view, edits, name)
    BY <1>1, <2>1, RequestOut
  <2>3. Word(view, edits, name) = Word(first, edits, name)
    <3>1. CASE name \in FORWARDED_HEADERS
      <4>1. ~is_repeatable(name)
        BY <3>1 DEF FORWARDED_HEADERS, is_repeatable
      <4> QED
        BY <1>1, <2>1, <2>2, <4>1, WordWalk
    <3>2. CASE name \notin FORWARDED_HEADERS
      <4>1. view = first
        BY <1>1, <2>1, <2>2, <3>2, Views
      <4> QED
        BY <4>1
    <3> QED
      BY <3>1, <3>2
  <2>4. Says(out, map, name, Only(hs, name))
    BY <1>1, <2>2, SaysOut
  <2> QED
    BY <2>1, <2>2, <2>3, <2>4
<1>2. ASSUME NEW t \in Task, task[t].pc = "answered", task[t].answer.streamed,
             NEW name, name \notin HOP_BY_HOP \cup Advert(t)
      PROVE  Says(task[t].answer.headers, UpstreamMap, name,
                  Word(Decoded(UpstreamMap, name), EditsBy(ResponseEdit, Modifiers(t, "response")), name))
  <2>1. PICK out, hs, edits : /\ out = task[t].answer.headers /\ hs = task[t].headers
                              /\ edits = EditsBy(ResponseEdit, Modifiers(t, "response"))
    OBVIOUS
  <2>2. /\ Out(out, hs, UpstreamMap, Advert(t)) /\ Only(hs, name) = Word(Only(ResponseView, name), edits, name)
    BY <1>2, <2>1, ResponseOut
  <2>3. Only(ResponseView, name) = Decoded(UpstreamMap, name)
    BY <1>2, Views
  <2>4. Says(out, UpstreamMap, name, Only(hs, name))
    BY <1>2, <2>2, SaysOut
  <2> QED
    BY <2>1, <2>2, <2>3, <2>4
<1> QED
  BY <1>1, <1>2 DEF EditsHold

\* Whatever the clients, the upstreams and the filters: no hop-by-hop header, fixed or
\* named by Connection, crosses the proxy; what the client says of its own address is
\* replaced, and what the upstream says of alternative services where the proxy has its
\* own to say; and what no filter touched goes out byte for byte as it came in, both ways
\* (headers.rs headers_to_vec, set_forwarded, copy_headers_preserving, dispatch.rs
\* attach_alt_svc).
LEMMA UntouchedIsKept == Spec => []UntouchedKept
BY WalkInit, WalkNext, WordInit, WordNext, Kept, PTL DEF Spec

\* What a filter touched goes out as the filters left it, name by name, along chains of
\* any length and edits of any number of headers: the last to set or remove a header
\* has the last word on it, and cookies add up, save for the one header the proxy adds
\* after the chain (chain.rs set_headers, dispatch.rs attach_alt_svc).
LEMMA EditsAreHeld == Spec => []EditsHold
BY WalkInit, WalkNext, WordInit, WordNext, Held, PTL DEF Spec

\* The two together: every header that leaves the proxy is accounted for, those no
\* filter touched, those some filter did, and what the proxy says of itself, over TCP
\* and over QUIC, with a QUIC listener and without (headers.rs, chain.rs, dispatch.rs).
THEOREM HeadersAreClean == Spec => []HeadersClean
<1>1. UntouchedKept /\ EditsHold => HeadersClean
  BY DEF HeadersClean
<1> QED
  BY <1>1, UntouchedIsKept, EditsAreHeld, PTL
============================================================================
