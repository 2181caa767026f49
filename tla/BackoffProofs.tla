----------------------------- MODULE BackoffProofs -----------------------------
(***************************************************************************)
(* The back-off algorithm, for every width of its integers, every base,    *)
(* maximum and number of attempts.                                         *)
(***************************************************************************)
EXTENDS BackoffCalls, TLAPS

Widths == Uint16 \in Nat \ {0} /\ Uint32 \in Nat \ {0}

LEMMA WidthsGiven == Widths
BY Zenon, BackoffAssumption DEF Widths

(* A value reduced to a width is a value of that width *)
LEMMA ModInWidth == ASSUME NEW w \in Nat \ {0}, NEW n \in Nat PROVE n % w \in 0 .. w - 1
BY SMT

(* The next bound is a uint16_t, whatever the last one was *)
LEMMA NextJitterTyped ==
  ASSUME NEW jitter \in 0 .. Uint16 - 1, NEW max \in 0 .. Uint16 - 1
  PROVE  NextJitter(jitter, max) \in 0 .. Uint16 - 1
<1>1. jitter + jitter \in Nat /\ Uint16 \in Nat \ {0}
  BY SMT, WidthsGiven DEF Widths
<1>2. (jitter + jitter) % Uint16 \in 0 .. Uint16 - 1
  BY Zenon, <1>1, ModInWidth
<1>3. QED
  BY Zenon, <1>2 DEF NextJitter

(* Doubling: below half of the maximum the doubled bound fits, and it is past the *)
(* maximum, an odd one rounded down, as soon as the last one was past the half.   *)
LEMMA NextJitterDoubles ==
  ASSUME NEW jitter \in 0 .. Uint16 - 1, NEW max \in 0 .. Uint16 - 1
  PROVE  NextJitter(jitter, max) = IF 2 * jitter < max - (max % 2) THEN 2 * jitter ELSE max
<1>1. Uint16 \in Nat \ {0}
  BY Zenon, WidthsGiven DEF Widths
<1>2. /\ max \div 2 \in Nat /\ max % 2 \in {0, 1}
      /\ max = 2 * (max \div 2) + (max % 2)
  BY SMT
<1>3. jitter < max \div 2 <=> 2 * jitter < max - (max % 2)
  BY SMT, <1>2
<1>4. ASSUME jitter < max \div 2 PROVE (jitter + jitter) % Uint16 = 2 * jitter
  <2>1. 2 * jitter \in 0 .. Uint16 - 1 /\ jitter + jitter = 2 * jitter
    BY SMT, <1>1, <1>2, <1>4
  <2>2. \A n \in 0 .. Uint16 - 1 : n % Uint16 = n
    BY SMT, <1>1
  <2>3. QED
    BY Zenon, <2>1, <2>2
<1>5. QED
  BY Zenon, <1>3, <1>4 DEF NextJitter

LEMMA InitTyped == Init => TypeOK /\ JitterDoubles
<1>1. SUFFICES ASSUME Init PROVE TypeOK /\ JitterDoubles
  OBVIOUS
<1>2. base \in 0 .. Uint16 - 1 /\ delay = 0 /\ calls = 0 /\ grown = base
  BY Zenon, <1>1 DEF Init
<1>3. PICK max \in 0 .. Uint16 - 1, attempts \in 0 .. Uint32 - 1 : ctx = InitializeParams(base, max, attempts)
  BY Zenon, <1>1 DEF Init
<1>4. 0 \in 0 .. Uint16 - 1 /\ 0 \in 0 .. Uint32 - 1 /\ base \in Nat
  BY SMT, <1>2, WidthsGiven DEF Widths
<1>5. ctx \in BackoffContext /\ ctx.nextJitterMax = base
  BY Zenon, <1>2, <1>3, <1>4 DEF InitializeParams, BackoffContext
<1>6. QED
  BY Zenon, <1>2, <1>4, <1>5 DEF TypeOK, JitterDoubles

LEMMA NextTyped ==
  ASSUME TypeOK, JitterDoubles, [Next]_vars
  PROVE  TypeOK' /\ JitterDoubles'
<1>1. /\ ctx \in BackoffContext /\ base \in 0 .. Uint16 - 1 /\ delay \in 0 .. Uint16 - 1
      /\ calls \in 0 .. Uint32 - 1 /\ grown \in Nat
  BY Zenon DEF TypeOK
<1>2. /\ ctx.nextJitterMax \in 0 .. Uint16 - 1 /\ ctx.maxBackoffDelay \in 0 .. Uint16 - 1
      /\ ctx.attemptsDone \in 0 .. Uint32 - 1 /\ ctx.maxRetryAttempts \in 0 .. Uint32 - 1
  BY Zenon, <1>1 DEF BackoffContext
<1>3. 0 \in 0 .. Uint16 - 1 /\ 0 \in 0 .. Uint32 - 1 /\ base \in Nat
  BY SMT, <1>1, WidthsGiven DEF Widths
<1>4. CASE UNCHANGED vars
  BY Zenon, <1>4 DEF vars, TypeOK, JitterDoubles
<1>5. CASE Restart
  <2>1. /\ ctx' = InitializeParams(base, ctx.maxBackoffDelay, ctx.maxRetryAttempts) /\ calls' = 0 /\ grown' = base
        /\ delay' = delay /\ base' = base
    BY Zenon, <1>5 DEF Restart
  <2>2. ctx' \in BackoffContext /\ ctx'.nextJitterMax = base
    BY Zenon, <1>1, <1>2, <1>3, <2>1 DEF InitializeParams, BackoffContext
  <2>3. QED
    BY Zenon, <1>1, <1>3, <2>1, <2>2 DEF TypeOK, JitterDoubles
<1>6. CASE GetNextBackoff
  <2>. DEFINE jitter == ctx.nextJitterMax
              max    == ctx.maxBackoffDelay
  <2>1. /\ calls < Uint32 - 1 /\ delay' \in Delays(ctx) /\ ctx' = AfterBackoff(ctx)
        /\ calls' = calls + 1 /\ grown' = 2 * grown /\ base' = base
    BY Zenon, <1>6 DEF GetNextBackoff
  <2>2. delay' \in 0 .. Uint16 - 1
    <3>1. PICK random \in 0 .. jitter : delay' = (random % (jitter + 1)) % Uint16
      BY Zenon, <2>1 DEF Delays
    <3>2. random \in Nat /\ jitter + 1 \in Nat \ {0} /\ Uint16 \in Nat \ {0}
      BY SMT, <1>2, WidthsGiven DEF Widths
    <3>3. random % (jitter + 1) \in 0 .. (jitter + 1) - 1
      BY Zenon, <3>2, ModInWidth
    <3>4. random % (jitter + 1) \in Nat
      BY SMT, <3>2, <3>3
    <3>5. QED
      BY Zenon, <3>1, <3>2, <3>4, ModInWidth
  <2>3. calls' \in 0 .. Uint32 - 1 /\ calls' # 0 /\ grown' \in Nat
    BY SMT, <1>1, <2>1, WidthsGiven DEF Widths
  <2>4. (ctx.attemptsDone + 1) % Uint32 \in 0 .. Uint32 - 1
    <3>1. ctx.attemptsDone + 1 \in Nat /\ Uint32 \in Nat \ {0}
      BY SMT, <1>2, WidthsGiven DEF Widths
    <3>2. QED
      BY Zenon, <3>1, ModInWidth
  <2>5. ctx' = [ctx EXCEPT !.attemptsDone = (ctx.attemptsDone + 1) % Uint32, !.nextJitterMax = NextJitter(jitter, max)]
    BY Zenon, <2>1 DEF AfterBackoff
  <2>6. NextJitter(jitter, max) \in 0 .. Uint16 - 1
    BY Zenon, <1>2, NextJitterTyped
  <2>7. /\ ctx' \in BackoffContext /\ ctx'.maxBackoffDelay = max
        /\ ctx'.nextJitterMax = NextJitter(jitter, max)
    BY Zenon, <1>1, <2>4, <2>5, <2>6 DEF BackoffContext
  <2>8. NextJitter(jitter, max) = IF 2 * grown < max - (max % 2) THEN 2 * grown ELSE max
    <3>1. NextJitter(jitter, max) = IF 2 * jitter < max - (max % 2) THEN 2 * jitter ELSE max
      BY Zenon, <1>2, NextJitterDoubles
    <3>2. jitter = IF calls = 0 \/ grown < max - (max % 2) THEN grown ELSE max
      BY Zenon DEF JitterDoubles
    <3>3. max \in Nat /\ jitter \in Nat /\ max % 2 \in {0, 1} /\ max >= max % 2
      BY SMT, <1>2
    <3>4. QED
      BY SMT, <1>1, <3>1, <3>2, <3>3
  <2>9. QED
    BY Zenon, <1>1, <2>1, <2>2, <2>3, <2>7, <2>8 DEF TypeOK, JitterDoubles
<1>7. QED
  BY Zenon, <1>4, <1>5, <1>6 DEF Next, Exhausted

(* Every value of the context and every delay fits its integer.                 *)
THEOREM TypeCorrect == Spec => []TypeOK
<1>1. (TypeOK /\ JitterDoubles) /\ [Next]_vars => (TypeOK /\ JitterDoubles)'
  BY Zenon, NextTyped
<1>2. QED
  BY <1>1, InitTyped, PTL DEF Spec

(* The bound of BackoffAlgorithm_GetNextBackoff doubles until it is the maximum  *)
(* and stays there: no doubling wraps around in the uint16_t.                    *)
THEOREM BoundDoubles == Spec => []JitterDoubles
<1>1. (TypeOK /\ JitterDoubles) /\ [Next]_vars => (TypeOK /\ JitterDoubles)'
  BY Zenon, NextTyped
<1>2. QED
  BY <1>1, InitTyped, PTL DEF Spec
==============================================================================
