---------------------------- MODULE BackoffCalls -----------------------------
(***************************************************************************)
(* A caller of the back-off algorithm: it initialises the context with any *)
(* parameters, asks for delays and may start over at any time.             *)
(***************************************************************************)
EXTENDS Backoff

VARIABLES
  ctx,      (* the BackoffAlgorithmContext_t           *)
  delay,    (* *pNextBackOff of the last call          *)
  base,     (* history: backOffBase of the last initialisation *)
  calls,    (* history: delays granted since then      *)
  grown     (* history: the base doubled once for each of them *)

vars == <<ctx, delay, base, calls, grown>>

Init ==
  /\ base \in 0 .. Uint16 - 1
  /\ \E max \in 0 .. Uint16 - 1, attempts \in 0 .. Uint32 - 1 :
       ctx = InitializeParams(base, max, attempts)
  /\ delay = 0
  /\ calls = 0
  /\ grown = base

Restart ==
  /\ ctx' = InitializeParams(base, ctx.maxBackoffDelay, ctx.maxRetryAttempts)
  /\ calls' = 0
  /\ grown' = base
  /\ UNCHANGED <<delay, base>>

(* BackoffAlgorithmSuccess. The history stops where the counter wraps around. *)
GetNextBackoff ==
  /\ Granted(ctx)
  /\ calls < Uint32 - 1
  /\ delay' \in Delays(ctx)
  /\ ctx' = AfterBackoff(ctx)
  /\ calls' = calls + 1
  /\ grown' = 2 * grown
  /\ UNCHANGED base

(* BackoffAlgorithmRetriesExhausted *)
Exhausted ==
  /\ ~Granted(ctx)
  /\ UNCHANGED vars

Next == Restart \/ GetNextBackoff \/ Exhausted

Spec == Init /\ [][Next]_vars

TypeOK ==
  /\ ctx \in BackoffContext
  /\ delay \in 0 .. Uint16 - 1
  /\ base \in 0 .. Uint16 - 1
  /\ calls \in 0 .. Uint32 - 1
  /\ grown \in Nat

(* The bound of the jitter after some delays is the base doubled as often, while *)
(* that is below the maximum, an odd maximum rounded down, and the maximum from *)
(* then on: no doubling wraps around in the uint16_t, whatever the parameters.  *)
JitterDoubles ==
  ctx.nextJitterMax =
    LET max == ctx.maxBackoffDelay
    IN IF calls = 0 \/ grown < max - (max % 2) THEN grown ELSE max

==============================================================================
