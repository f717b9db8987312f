------------------------------ MODULE KvQuota ------------------------------
(***************************************************************************)
(* The host-held state a filter can create and what it is charged for it:  *)
(* KvQuota and the host_kv, host_counter and host_ratelimit capabilities   *)
(* (crates/host/src/lib.rs) over MemoryBackend (backend.rs).               *)
(*                                                                         *)
(* The quota and the backend each have a lock, and an operation takes them *)
(* one after the other: it looks the key up, charges, then writes.  Tasks  *)
(* are guest calls in progress; two of them run the same filter when two   *)
(* requests do.  A value is its length.  A counter or a bucket is a key    *)
(* whose values always have the same length and that is never deleted.     *)
(***************************************************************************)
EXTENDS Integers, FiniteSets

CONSTANTS
  Filters,
  Tasks, FilterOf,           \* the guest calls in progress, the filter of each
  KvKeys, FixedKeys,         \* keys of TAG_KV; keys of TAG_COUNTER, TAG_RATELIMIT
  Lengths, FixedLen,         \* lengths a value may have; that of a fixed key
  MaxNsEntries, MaxNsBytes, MaxTotalEntries, MaxTotalBytes

KeyLen == 1
Absent == -1
Keys == KvKeys \cup FixedKeys

ASSUME QuotaAssumption ==
  /\ IsFiniteSet(Filters) /\ IsFiniteSet(Keys) /\ "none" \notin Keys
  /\ FilterOf \in [Tasks -> Filters]
  /\ KvKeys \cap FixedKeys = {}
  /\ Lengths \subseteq Nat
  /\ FixedLen \in [FixedKeys -> Nat]
  /\ {MaxNsEntries, MaxNsBytes, MaxTotalEntries, MaxTotalBytes} \subseteq Nat

VARIABLES
  store,     \* the backend: the length of the value at each filter's key
  ns,        \* [entries, bytes] charged to each filter
  total,     \* [entries, bytes] charged to all
  at,
  op         \* [key, len, entries, bytes] of the call in progress

vars == <<store, ns, total, at, op>>

NoOp == [key |-> "none", len |-> 0, entries |-> 0, bytes |-> 0]
NoUsage == [entries |-> 0, bytes |-> 0]

Init ==
  /\ store = [f \in Filters |-> [k \in Keys |-> Absent]]
  /\ ns = [f \in Filters |-> NoUsage]
  /\ total = NoUsage
  /\ at = [t \in Tasks |-> "idle"]
  /\ op = [t \in Tasks |-> NoOp]

Value(t, k) == store[FilterOf[t]][k]
Put(t, k, len) == store' = [store EXCEPT ![FilterOf[t]][k] = len]

CallAt(t, l, o) ==
  /\ at' = [at EXCEPT ![t] = l]
  /\ op' = [op EXCEPT ![t] = o]

----------------------------------------------------------------------------
\* The quota.

Clamp(n) == IF n < 0 THEN 0 ELSE n

Plus(usage, e, b) ==
  [entries |-> Clamp(usage.entries + e), bytes |-> Clamp(usage.bytes + b)]

FitsNsOnlyMut(f, e, b) ==
  /\ e > 0 => ns[f].entries + e <= MaxNsEntries
  /\ b > 0 => ns[f].bytes + b <= MaxNsBytes

\* Only growth can go over a cap.
Fits(f, e, b) ==
  /\ e > 0 => /\ ns[f].entries + e <= MaxNsEntries
              /\ total.entries + e <= MaxTotalEntries
  /\ b > 0 => /\ ns[f].bytes + b <= MaxNsBytes
              /\ total.bytes + b <= MaxTotalBytes

ChargeNsOnlyMut(f, e, b) ==
  /\ ns' = [ns EXCEPT ![f] = Plus(@, e, b)]
  /\ UNCHANGED total

Charge(f, e, b) ==
  /\ ns' = [ns EXCEPT ![f] = Plus(@, e, b)]
  /\ total' = Plus(total, e, b)

\* admit, in full under the quota's lock: charge and go on, or give the call up.
Admit(t) ==
  /\ at[t] = "admit"
  /\ LET o == op[t] IN
     IF Fits(FilterOf[t], o.entries, o.bytes)
     THEN Charge(FilterOf[t], o.entries, o.bytes) /\ CallAt(t, "write", o)
     ELSE CallAt(t, "idle", NoOp) /\ UNCHANGED <<ns, total>>
  /\ UNCHANGED store

----------------------------------------------------------------------------
\* host_kv, host_counter, host_ratelimit.

SetReadNewOnlyMut(t, k, len) ==
  /\ at[t] = "idle"
  /\ IF Value(t, k) = Absent
     THEN CallAt(t, "admit", [key |-> k, len |-> len, entries |-> 1,
                            bytes |-> KeyLen + len])
     ELSE CallAt(t, "write", [key |-> k, len |-> len, entries |-> 0,
                            bytes |-> 0])
  /\ UNCHANGED <<store, ns, total>>

\* set, up to the charge: a new key costs an entry and its own bytes too.
SetRead(t, k, len) ==
  /\ at[t] = "idle"
  /\ CallAt(t, "admit",
       IF Value(t, k) = Absent
       THEN [key |-> k, len |-> len, entries |-> 1, bytes |-> KeyLen + len]
       ELSE [key |-> k, len |-> len, entries |-> 0,
             bytes |-> len - Value(t, k)])
  /\ UNCHANGED <<store, ns, total>>

\* increment and try_acquire, up to the charge: only a new key is charged.
FixedRead(t, k) ==
  /\ at[t] = "idle"
  /\ IF Value(t, k) = Absent
     THEN CallAt(t, "admit", [key |-> k, len |-> FixedLen[k], entries |-> 1,
                            bytes |-> KeyLen + FixedLen[k]])
     ELSE CallAt(t, "write", [key |-> k, len |-> FixedLen[k], entries |-> 0,
                            bytes |-> 0])
  /\ UNCHANGED <<store, ns, total>>

Write(t) ==
  /\ at[t] = "write"
  /\ Put(t, op[t].key, op[t].len)
  /\ CallAt(t, "idle", NoOp)
  /\ UNCHANGED <<ns, total>>

\* delete of a key that is there; it remembers the length it saw.
DeleteRead(t, k) ==
  /\ at[t] = "idle"
  /\ Value(t, k) # Absent
  /\ CallAt(t, "remove", [key |-> k, len |-> Value(t, k), entries |-> -1,
                        bytes |-> -(KeyLen + Value(t, k))])
  /\ UNCHANGED <<store, ns, total>>

Remove(t) ==
  /\ at[t] = "remove"
  /\ Put(t, op[t].key, Absent)
  /\ CallAt(t, "release", op[t])
  /\ UNCHANGED <<ns, total>>

Release(t) ==
  /\ at[t] = "release"
  /\ Charge(FilterOf[t], op[t].entries, op[t].bytes)
  /\ CallAt(t, "idle", NoOp)
  /\ UNCHANGED store

Next ==
  \E t \in Tasks :
    \/ \E k \in KvKeys, len \in Lengths : SetRead(t, k, len)
    \/ \E k \in FixedKeys : FixedRead(t, k)
    \/ Admit(t)
    \/ Write(t)
    \/ \E k \in KvKeys : DeleteRead(t, k)
    \/ Remove(t)
    \/ Release(t)

Spec == Init /\ [][Next]_vars

\* The calls in progress of one filter are on different keys.
KeysApart ==
  \A t, u \in Tasks :
    t # u /\ FilterOf[t] = FilterOf[u] /\ at[t] # "idle" /\ at[u] # "idle" =>
      op[t].key # op[u].key

\* The program as far as its calls keep to that: nothing in the code makes them,
\* and the accounting is exact only then.
ApartSpec == Init /\ [][Next /\ KeysApart']_vars

----------------------------------------------------------------------------
Stored == Lengths \cup {FixedLen[k] : k \in FixedKeys}
Ops == [key : Keys, len : Stored, entries : Int, bytes : Int]

TypeOK ==
  /\ store \in [Filters -> [Keys -> Stored \cup {Absent}]]
  /\ ns \in [Filters -> [entries : 0..MaxNsEntries, bytes : 0..MaxNsBytes]]
  /\ total \in [entries : 0..MaxTotalEntries, bytes : 0..MaxTotalBytes]
  /\ at \in [Tasks -> {"idle", "admit", "write", "remove", "release"}]
  /\ op \in [Tasks -> Ops \cup {NoOp}]
  /\ \A t \in Tasks : at[t] = "idle" <=> op[t] = NoOp

\* n[x] units for each x, as pairs: their number is the sum of n.
Units(n) == UNION {{x} \X (1..n[x]) : x \in DOMAIN n}
SumOf(n) == Cardinality(Units(n))

\* What a filter holds in the backend: its keys, and its bytes as <<key, place>>.
Held(f) == {k \in Keys : store[f][k] # Absent}
Size(f, k) == IF store[f][k] = Absent THEN 0 ELSE KeyLen + store[f][k]
HeldBytes(f) == Units([k \in Keys |-> Size(f, k)])

\* When none of its calls is in progress, a filter is charged exactly for what
\* it holds: the comment in `set` says that "The read-before-write keeps the
\* byte accounting exact for variable-size values."
AccountingExact ==
  \A f \in Filters :
    (\A t \in Tasks : FilterOf[t] = f => at[t] = "idle") =>
      ns[f] = [entries |-> Cardinality(Held(f)), bytes |-> Cardinality(HeldBytes(f))]

\* Bytes given back for a smaller value that is not written yet.
GivenBack(f) ==
  {c \in HeldBytes(f) : \E t \in Tasks : /\ FilterOf[t] = f /\ at[t] = "write"
                                         /\ op[t].key = c[1] /\ KeyLen + op[t].len < c[2]}

Settled(f) == Cardinality(HeldBytes(f) \ GivenBack(f))

\* At every moment of every call the backend holds no more than the caps, for
\* one filter and for all: growth is charged before it is there and a delete
\* released after it is gone.  A smaller value is the exception, given back
\* before it is written.
StoreWithinCaps ==
  /\ \A f \in Filters : Cardinality(Held(f)) <= MaxNsEntries /\ Settled(f) <= MaxNsBytes
  /\ SumOf([f \in Filters |-> Cardinality(Held(f))]) <= MaxTotalEntries
  /\ SumOf([f \in Filters |-> Settled(f)]) <= MaxTotalBytes

\* The host-wide charge is the sum of the filters'.
TotalIsSum ==
  /\ total.entries = SumOf([f \in Filters |-> ns[f].entries])
  /\ total.bytes = SumOf([f \in Filters |-> ns[f].bytes])
=============================================================================
