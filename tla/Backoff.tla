------------------------------- MODULE Backoff -------------------------------
(***************************************************************************)
(* backoffAlgorithm-1.0.1/source/backoff_algorithm.c: exponential back-off *)
(* with full jitter. A context is a record, a function that writes through *)
(* its pointer is an operator that returns the new context.                *)
(***************************************************************************)
EXTENDS Integers

CONSTANTS
  Uint16,     (* 2^16: the values of a uint16_t are 0 .. Uint16 - 1 *)
  Uint32      (* 2^32, likewise                                      *)

ASSUME BackoffAssumption ==
  /\ Uint16 \in Nat \ {0} /\ Uint32 \in Nat \ {0}
  /\ Uint16 < Uint32

RETRY_FOREVER == 0    (* BACKOFF_ALGORITHM_RETRY_FOREVER *)

BackoffContext == [nextJitterMax    : 0 .. Uint16 - 1,
                   maxBackoffDelay  : 0 .. Uint16 - 1,
                   attemptsDone     : 0 .. Uint32 - 1,
                   maxRetryAttempts : 0 .. Uint32 - 1]

InitializeParams(base, max, attempts) ==
  [nextJitterMax |-> base, maxBackoffDelay |-> max,
   attemptsDone |-> 0, maxRetryAttempts |-> attempts]

Granted(ctx) ==
  \/ ctx.attemptsDone < ctx.maxRetryAttempts
  \/ ctx.maxRetryAttempts = RETRY_FOREVER

(* randomValue % (nextJitterMax + 1), as a uint16_t: any value up to the bound *)
Delays(ctx) == {(random % (ctx.nextJitterMax + 1)) % Uint16 : random \in 0 .. ctx.nextJitterMax}

(* A mutation: doubled as long as the bound is below the maximum *)
NextJitterUnhalved(jitter, max) ==
  IF jitter < max THEN (jitter + jitter) % Uint16 ELSE max

(* Twice the bound, computed in a uint16_t, or the maximum *)
NextJitter(jitter, max) ==
  IF jitter < max \div 2 THEN (jitter + jitter) % Uint16 ELSE max

AfterBackoff(ctx) ==
  [ctx EXCEPT !.attemptsDone = (@ + 1) % Uint32,
              !.nextJitterMax = NextJitter(@, ctx.maxBackoffDelay)]
==============================================================================
