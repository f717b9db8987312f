---------------------------- MODULE TokenBucket ----------------------------
(***************************************************************************)
(* The token-bucket arithmetic of crates/host/src/backend.rs, which drives *)
(* both a filter's host-ratelimit and the native per-route limiter of      *)
(* crates/control/src/ratelimit.rs.                                        *)
(*                                                                         *)
(* All quantities are u64 with saturating arithmetic; U64Max stands for    *)
(* u64::MAX.  A state is <<>> (no bucket yet) or <<tokens, last_refill>>.  *)
(***************************************************************************)
EXTENDS Integers, Sequences

CONSTANT U64Max

ASSUME U64Assumption == U64Max \in Nat \ {0}

saturating(n) == IF n > U64Max THEN U64Max ELSE n
saturating_sub(a, b) == IF a > b THEN a - b ELSE 0
div_ceil(a, b) == (a + b - 1) \div b

no_refill(spec) == spec.refill_interval_ms = 0 \/ spec.refill_tokens = 0

\* The whole intervals that have passed; a clock behind last_refill counts none.
IntervalsFromZeroMut(last, spec, now) == now \div spec.refill_interval_ms

Intervals(last, spec, now) == saturating_sub(now, last) \div spec.refill_interval_ms

\* The state before the cost is taken.
Refilled(state, spec, now) ==
  IF state = <<>> THEN <<spec.capacity, now>>
  ELSE LET tokens == state[1]
           last   == state[2]
           Capped(n) == IF n > spec.capacity THEN spec.capacity ELSE n
       IN  IF no_refill(spec) THEN <<Capped(tokens), last>>
           ELSE LET n == Intervals(last, spec, now) IN
                << Capped(saturating(tokens + saturating(n * spec.refill_tokens))),
                   saturating(last + saturating(n * spec.refill_interval_ms)) >>

\* How long a refused caller is told to wait.
RetryAfterFloorMut(needed, spec) ==
  IF no_refill(spec) THEN U64Max
  ELSE saturating((needed \div spec.refill_tokens) * spec.refill_interval_ms)

RetryAfter(needed, spec) ==
  IF no_refill(spec) THEN U64Max
  ELSE saturating(div_ceil(needed, spec.refill_tokens) * spec.refill_interval_ms)

\* The state to keep and the answer.
apply_bucket(state, cost, spec, now) ==
  LET filled  == Refilled(state, spec, now)
      allowed == filled[1] >= cost
      left    == IF allowed THEN filled[1] - cost ELSE filled[1]
  IN  [state          |-> <<left, filled[2]>>,
       allowed        |-> allowed,
       remaining      |-> left,
       retry_after_ms |-> IF allowed THEN 0 ELSE RetryAfter(cost - filled[1], spec)]
============================================================================
