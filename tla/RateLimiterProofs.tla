------------------------- MODULE RateLimiterProofs -------------------------
(***************************************************************************)
(* Proofs about RateLimiter for every value of its constants.              *)
(***************************************************************************)
EXTENDS RateLimiter, TLAPS

(* Unless it names its prover, a leaf is tried with SMT, with Zenon, and   *)
(* with SMT again for longer.                                              *)
USE SMTT(30), ZenonT(30), SMTT(60)

(* The part of LimiterInv about one bucket b whose key was admitted c      *)
(* times since f and was denied as d says, at time t.                      *)
BucketInv(b, c, d, f, t) ==
    /\ b.last <= t
    /\ b.tokens <= Tokens
    /\ IF Tokens = 0 THEN b.tokens = -1 /\ c <= 1 ELSE b.tokens >= 0
    /\ b.last >= f =>
          (c + b.tokens) * Minute <= (Tokens + 1) * Minute + (b.last - f) * PerMinute
    /\ b.last < f =>
          /\ c + b.tokens <= Tokens
          /\ c > 0 => (f - b.last) * PerMinute <= Minute
    /\ d # None =>
          /\ b.last <= d.first
          /\ (d.latest - b.last) * PerMinute <= Minute

(* The bucket has seen a request at time t: it was refilled after f, or it *)
(* was refilled before f and no token has accrued since.                   *)
Seen(b, c, f, t) ==
    /\ b.last <= t
    /\ b.tokens <= Tokens
    /\ IF Tokens = 0 THEN b.tokens = -1 /\ c <= 1 ELSE b.tokens >= 0
    /\ b.last >= f =>
          (c + b.tokens) * Minute <= (Tokens + 1) * Minute + (b.last - f) * PerMinute
    /\ b.last < f =>
          /\ c + b.tokens <= Tokens
          /\ (f - b.last) * PerMinute <= Minute

(* Tokens is the capacity, a natural number that is 0 only if the rate is. *)
LEMMA TokensNat == Tokens \in Nat /\ (Tokens = 0 => PerMinute = 0)
  BY LimiterConstants DEF Tokens

(* Multiplying by a natural number keeps the order.                        *)
LEMMA TimesMonotone ==
    ASSUME NEW p \in Nat, NEW x \in Int, NEW y \in Int, x <= y
    PROVE  x * p <= y * p
  OBVIOUS

(* A product of positive numbers is positive.                              *)
LEMMA PositiveTimes ==
    ASSUME NEW x \in Nat, NEW y \in Nat, x > 0, y > 0
    PROVE  x * y > 0
  OBVIOUS

(* Multiplication distributes over sums and differences.                   *)
LEMMA Distribute ==
    ASSUME NEW x \in Int, NEW y \in Int, NEW p \in Int
    PROVE  (x + y) * p = x * p + y * p /\ (x - y) * p = x * p - y * p
  OBVIOUS

(* The bound after n tokens came back to a bucket (tok, last) that had     *)
(* been refilled since f.                                                  *)
LEMMA RefillSince ==
    ASSUME NEW m \in Nat, NEW p \in Nat, NEW T \in Nat, NEW c \in Nat, NEW tok \in Int,
           NEW last \in Nat, NEW f \in Nat, NEW t \in Nat, NEW n \in Nat, NEW new \in Int,
           new <= tok + n, n * m <= (t - last) * p,
           (c + tok) * m <= (T + 1) * m + (last - f) * p
    PROVE  (c + new) * m <= (T + 1) * m + (t - f) * p
<1>1. (c + new) * m <= ((c + tok) + n) * m
  BY TimesMonotone
<1>2. ((c + tok) + n) * m = (c + tok) * m + n * m
  BY Distribute
<1>3. (t - last) * p = t * p - last * p /\ (last - f) * p = last * p - f * p
  BY Distribute
<1>4. (t - f) * p = t * p - f * p
  BY Distribute
<1>. DEFINE A == (c + new) * m   B == (c + tok) * m   C == n * m   D == (T + 1) * m
            E == t * p   F == last * p   G == f * p
<1>5. /\ A \in Int /\ B \in Int /\ C \in Int /\ D \in Int /\ E \in Int /\ F \in Int /\ G \in Int
      /\ A <= B + C /\ C <= E - F /\ B <= D + (F - G)
  BY <1>1, <1>2, <1>3
<1>6. A <= D + (E - G)
  <2>. HIDE DEF A, B, C, D, E, F, G
  <2>. QED
    BY <1>5
<1>. QED
  BY <1>4, <1>6

(* The same for a bucket that had been refilled shortly before f.          *)
LEMMA RefillBefore ==
    ASSUME NEW m \in Nat, NEW p \in Nat, NEW T \in Nat, NEW c \in Nat, NEW tok \in Int,
           NEW last \in Nat, NEW f \in Nat, NEW t \in Nat, NEW n \in Nat, NEW new \in Int,
           new <= tok + n, n * m <= (t - last) * p,
           c + tok <= T, (f - last) * p <= m
    PROVE  (c + new) * m <= (T + 1) * m + (t - f) * p
<1>1. (c + tok) * m <= T * m
  BY TimesMonotone
<1>2. T * m = (T + 1) * m - m
  BY Distribute
<1>3. (last - f) * p = last * p - f * p /\ (f - last) * p = f * p - last * p
  BY Distribute
<1>4. (c + tok) * m <= (T + 1) * m + (last - f) * p
  <2>. DEFINE B == (c + tok) * m   D == (T + 1) * m   E == T * m   F == last * p   G == f * p
  <2>1. /\ B \in Int /\ D \in Int /\ E \in Int /\ F \in Int /\ G \in Int
        /\ B <= E /\ E = D - m /\ G - F <= m
    BY <1>1, <1>2, <1>3
  <2>2. B <= D + (F - G)
    <3>. HIDE DEF B, D, E, F, G
    <3>. QED
      BY <2>1
  <2>. QED
    BY <1>3, <2>2
<1>. QED
  BY <1>4, RefillSince

(* The same for a bucket nobody has used since f.                          *)
LEMMA RefillUnused ==
    ASSUME NEW m \in Nat, NEW p \in Nat, NEW T \in Nat, NEW f \in Nat, NEW t \in Nat,
           NEW new \in Int, f <= t, new <= T
    PROVE  (0 + new) * m <= (T + 1) * m + (t - f) * p
<1>1. new * m <= (T + 1) * m
  BY TimesMonotone
<1>2. 0 * p <= (t - f) * p
  BY TimesMonotone
<1>. QED
  BY <1>1, <1>2

(* The refill at the beginning of a request at time now.                   *)
LEMMA CheckedBucket ==
    ASSUME LimiterInv, NEW k \in Keys, state[k] # None, NEW b \in Checked(state[k])
    PROVE  /\ b \in Bucket
           /\ Seen(b, count[k], from, now)
           /\ b.tokens <= 0 => (b = state[k] /\ (now - b.last) * PerMinute <= Minute)
<1>. DEFINE a == state[k]
            c == count[k]
<1>1. /\ a \in Bucket /\ c \in Nat /\ now \in Nat /\ from \in Nat /\ from <= now
      /\ BucketInv(a, c, denied[k], from, now)
  BY DEF LimiterInv, BucketInv
<1>2. a.tokens \in Int /\ a.last \in Nat
  BY <1>1 DEF Bucket
<1>3. PICK n \in Accrued(a) : b = Refill(a, n)
  BY DEF Checked
<1>4. /\ n \in Nat
      /\ n * Minute <= (now - a.last) * PerMinute
      /\ (now - a.last) * PerMinute <= (n + 1) * Minute
  BY <1>1, <1>2, LimiterConstants DEF Accrued, BucketInv
<1>5. /\ Tokens \in Nat
      /\ Tokens = 0 => PerMinute = 0
      /\ PerMinute \in Nat /\ Minute \in Nat /\ Minute > 0
  BY TokensNat, LimiterConstants
<1>. HIDE DEF a, c
<1>6. CASE n = 0
  <2>1. b = a
    BY <1>3, <1>6 DEF Refill
  <2>2. (now - a.last) * PerMinute <= Minute
    BY <1>4, <1>5, <1>6
  <2>3. a.last < from => (from - a.last) * PerMinute <= Minute
    <3>1. (from - a.last) * PerMinute <= (now - a.last) * PerMinute
      BY <1>1, <1>2, <1>5, TimesMonotone
    <3>. QED
      BY <1>1, <1>2, <1>5, <2>2, <3>1
  <2>. QED
    BY <1>1, <2>1, <2>2, <2>3 DEF BucketInv, Seen, a, c
<1>7. CASE n > 0
  <2>0. Tokens > 0 /\ a.tokens >= 0
    <3>1. PerMinute # 0
      <4>1. PerMinute = 0 => (now - a.last) * PerMinute = 0
        BY <1>1, <1>2
      <4>2. n * Minute > 0
        BY <1>4, <1>5, <1>7, PositiveTimes
      <4>. QED
        BY <1>1, <1>2, <1>4, <1>5, <4>1, <4>2
    <3>. QED
      BY <1>1, <1>5, <3>1 DEF BucketInv
  <2>1. b = [tokens |-> IF a.tokens + n > Tokens THEN Tokens ELSE a.tokens + n, last |-> now]
    BY <1>3, <1>7 DEF Refill
  <2>2. b.last = now /\ b.tokens = IF a.tokens + n > Tokens THEN Tokens ELSE a.tokens + n
    BY <2>1
  <2>3. b.tokens \in Int /\ b.tokens <= Tokens /\ b.tokens > 0 /\ b.tokens <= a.tokens + n
    BY <1>2, <1>4, <1>5, <1>7, <2>0, <2>2
  <2>4. b \in Bucket
    BY <1>1, <1>2, <1>4, <1>5, <2>1 DEF Bucket
  <2>5. (c + b.tokens) * Minute <= (Tokens + 1) * Minute + (now - from) * PerMinute
    <3>1. CASE a.last >= from
      <4>1. (c + a.tokens) * Minute <= (Tokens + 1) * Minute + (a.last - from) * PerMinute
        BY <1>1, <3>1 DEF BucketInv
      <4>. QED
        BY <1>1, <1>2, <1>4, <1>5, <2>3, <4>1, RefillSince, Zenon
    <3>2. CASE a.last < from /\ c > 0
      <4>1. c + a.tokens <= Tokens /\ (from - a.last) * PerMinute <= Minute
        BY <1>1, <3>2 DEF BucketInv
      <4>. QED
        BY <1>1, <1>2, <1>4, <1>5, <2>3, <4>1, RefillBefore, Zenon
    <3>3. CASE c = 0
      BY <1>1, <1>5, <2>3, <3>3, RefillUnused
    <3>. QED
      BY <1>1, <1>2, <3>1, <3>2, <3>3
  <2>. QED
    BY <1>1, <1>5, <2>0, <2>2, <2>3, <2>4, <2>5 DEF Seen, c
<1>. QED
  BY <1>4, <1>6, <1>7

---------------------------------------------------------------------------
(* LimiterInv key by key.                                                  *)
KeyInv(k) ==
    /\ state[k] \in Bucket \cup {None}
    /\ count[k] \in Nat
    /\ denied[k] \in [first : Nat, latest : Nat] \cup {None}
    /\ state[k] = None => count[k] = 0 /\ denied[k] = None
    /\ state[k] # None => BucketInv(state[k], count[k], denied[k], from, now)

(* A step of another key, or of none, keeps what LimiterInv says of k.     *)
LEMMA KeyUntouched ==
    ASSUME LimiterInv, NEW k \in Keys, from' = from, now' \in Nat, now' >= now,
           state'[k] = state[k], count'[k] = count[k], denied'[k] = denied[k]
    PROVE  KeyInv(k)'
  BY DEF LimiterInv, KeyInv, BucketInv, Bucket

(* A request of k is admitted with a bucket b that has seen it.            *)
LEMMA AdmitStep ==
    ASSUME LimiterInv, NEW k \in Keys, NEW b \in Bucket, b.tokens > 0,
           Seen(b, count[k], from, now), Admit(k, [b EXCEPT !.tokens = @ - 1])
    PROVE  KeyInv(k)'
<1>. DEFINE b2 == [b EXCEPT !.tokens = @ - 1]
<1>1. /\ state'[k] = b2 /\ count'[k] = count[k] + 1 /\ denied'[k] = None
      /\ now' = now /\ from' = from /\ count[k] \in Nat /\ from \in Nat /\ now \in Nat
  BY DEF Admit, LimiterInv
<1>2. /\ b2 \in Bucket /\ b2.tokens = b.tokens - 1 /\ b2.last = b.last
      /\ b.tokens \in Int /\ b.last \in Nat
  BY DEF Bucket
<1>3. b2 # None /\ Tokens \in Nat
  BY <1>2, LimiterConstants, TokensNat
<1>4. (count[k] + 1) + b2.tokens = count[k] + b.tokens
  BY <1>1, <1>2
<1>5. Tokens # 0
  BY <1>2, <1>3 DEF Seen
<1>. HIDE DEF b2
<1>6. BucketInv(b2, count[k] + 1, None, from, now)
  BY <1>1, <1>2, <1>3, <1>4, <1>5 DEF Seen, BucketInv
<1>. QED
  BY <1>1, <1>2, <1>3, <1>6 DEF KeyInv

(* A first request of k.                                                   *)
LEMMA FirstStep ==
    ASSUME LimiterInv, NEW k \in Keys, FirstRequest(k)
    PROVE  KeyInv(k)'
<1>. DEFINE b == [tokens |-> Tokens - 1, last |-> now]
<1>1. /\ state'[k] = b /\ count'[k] = 1 /\ denied'[k] = None
      /\ now' = now /\ from' = from /\ from \in Nat /\ now \in Nat /\ from <= now
  BY DEF FirstRequest, Admit, LimiterInv
<1>2. Tokens \in Nat /\ Minute \in Nat /\ PerMinute \in Nat
  BY TokensNat, LimiterConstants
<1>3. b \in Bucket /\ b.tokens = Tokens - 1 /\ b.last = now /\ b # None
  BY <1>1, <1>2, LimiterConstants DEF Bucket
<1>4. (1 + (Tokens - 1)) * Minute <= (Tokens + 1) * Minute + (now - from) * PerMinute
  <2>1. (0 + Tokens) * Minute <= (Tokens + 1) * Minute + (now - from) * PerMinute
    BY <1>1, <1>2, RefillUnused
  <2>2. 1 + (Tokens - 1) = 0 + Tokens
    BY <1>2
  <2>. QED
    BY <2>1, <2>2
<1>. HIDE DEF b
<1>5. BucketInv(b, 1, None, from, now)
  BY <1>1, <1>2, <1>3, <1>4 DEF BucketInv
<1>. QED
  BY <1>1, <1>3, <1>5 DEF KeyInv

(* A request of k is denied: the bucket is as it was, and the denial comes *)
(* at most one token's time after its last refill.                         *)
LEMMA DenyStep ==
    ASSUME LimiterInv, NEW k \in Keys, Deny(k)
    PROVE  KeyInv(k)'
<1>1. PICK b \in Checked(state[k]) : b.tokens <= 0 /\ state' = [state EXCEPT ![k] = b]
  BY Zenon DEF Deny
<1>2. /\ b = state[k] /\ (now - b.last) * PerMinute <= Minute
      /\ b \in Bucket /\ Seen(b, count[k], from, now)
  BY <1>1, CheckedBucket DEF Deny
<1>. DEFINE d == [first |-> IF denied[k] = None THEN now ELSE denied[k].first,
                  latest |-> now]
<1>3. /\ state'[k] = state[k] /\ count' = count /\ from' = from /\ now' = now
      /\ denied'[k] = d
      /\ state[k] # None /\ now \in Nat /\ count[k] \in Nat
  BY <1>1, <1>2 DEF Deny, LimiterInv
<1>4. KeyInv(k)
  BY DEF LimiterInv, KeyInv, BucketInv
<1>5. /\ d.first = (IF denied[k] = None THEN now ELSE denied[k].first) /\ d.latest = now
      /\ d \in [first : Nat, latest : Nat]
  BY <1>3, <1>4 DEF KeyInv
<1>6. state[k].last <= d.first
  BY <1>2, <1>3, <1>4, <1>5, <1>1 DEF KeyInv, BucketInv, Bucket
<1>. HIDE DEF d
<1>7. BucketInv(state[k], count[k], d, from, now)
  BY <1>2, <1>3, <1>4, <1>5, <1>6 DEF KeyInv, BucketInv
<1>. QED
  BY <1>2, <1>3, <1>4, <1>5, <1>7 DEF KeyInv

(* The observer starts again: what is left in a bucket is all it has.      *)
LEMMA ObserveStep ==
    ASSUME LimiterInv, NEW k \in Keys, Observe
    PROVE  KeyInv(k)'
<1>1. /\ state' = state /\ denied' = denied /\ now' = now /\ from' = now /\ count'[k] = 0
      /\ now \in Nat
  BY DEF Observe, LimiterInv
<1>2. CASE state[k] = None
  BY <1>1, <1>2 DEF LimiterInv, KeyInv
<1>3. CASE state[k] # None
  <2>. DEFINE b == state[k]
  <2>1. /\ b \in Bucket /\ b.tokens \in Int /\ b.last \in Nat
        /\ BucketInv(b, count[k], denied[k], from, now)
    BY <1>3 DEF LimiterInv, BucketInv, Bucket
  <2>2. Tokens \in Nat /\ Minute \in Nat /\ PerMinute \in Nat
    BY TokensNat, LimiterConstants
  <2>. HIDE DEF b
  <2>3. b.last >= now =>
           (0 + b.tokens) * Minute <= (Tokens + 1) * Minute + (b.last - now) * PerMinute
    BY <1>1, <2>1, <2>2, RefillUnused DEF BucketInv
  <2>4. BucketInv(b, 0, denied[k], now, now)
    BY <1>1, <2>1, <2>2, <2>3 DEF BucketInv
  <2>. QED
    BY <1>1, <1>3, <2>4 DEF LimiterInv, KeyInv, b
<1>. QED
  BY <1>2, <1>3

(* The inductive invariant of the limiter.                                 *)
THEOREM LimiterInvariance == Spec => []LimiterInv
<1>1. Init => LimiterInv
  BY DEF Init, LimiterInv
<1>2. ASSUME LimiterInv, [Next]_vars PROVE LimiterInv'
  <2>1. /\ now' \in Nat /\ from' \in 0 .. now'
        /\ state' = [k \in Keys |-> state'[k]]
        /\ count' = [k \in Keys |-> count'[k]]
        /\ denied' = [k \in Keys |-> denied'[k]]
    BY <1>2 DEF LimiterInv, Next, FirstRequest, Allow, Deny, Admit, Observe, Tick, vars
  <2>2. ASSUME NEW k \in Keys PROVE KeyInv(k)'
    <3>1. CASE UNCHANGED vars
      BY <1>2, <3>1, KeyUntouched DEF vars, LimiterInv
    <3>2. CASE Tick
      BY <1>2, <3>2, KeyUntouched DEF Tick, LimiterInv
    <3>3. CASE Observe
      BY <1>2, <3>3, ObserveStep
    <3>4. ASSUME NEW i \in Keys, FirstRequest(i) \/ Allow(i) \/ Deny(i), i # k
          PROVE  KeyInv(k)'
      <4>1. /\ from' = from /\ now' = now /\ state'[k] = state[k]
            /\ count'[k] = count[k] /\ denied'[k] = denied[k]
        BY <1>2, <3>4 DEF FirstRequest, Allow, Deny, Admit, LimiterInv
      <4>. QED
        BY <1>2, <4>1, KeyUntouched DEF LimiterInv
    <3>5. CASE FirstRequest(k)
      BY <1>2, <3>5, FirstStep
    <3>6. CASE Allow(k)
      <4>1. PICK b \in Checked(state[k]) : b.tokens > 0 /\ Admit(k, [b EXCEPT !.tokens = @ - 1])
        BY <3>6 DEF Allow
      <4>2. b \in Bucket /\ Seen(b, count[k], from, now)
        BY <1>2, <3>6, CheckedBucket DEF Allow
      <4>. QED
        BY <1>2, <4>1, <4>2, AdmitStep
    <3>7. CASE Deny(k)
      BY <1>2, <3>7, DenyStep
    <3>. QED
      BY <1>2, <3>1, <3>2, <3>3, <3>4, <3>5, <3>6, <3>7 DEF Next
  <2>. QED
    BY <2>1, <2>2 DEF LimiterInv, KeyInv, BucketInv
<1>. QED
  BY <1>1, <1>2, PTL DEF Spec

(* The limit on a key's admissions over any stretch of time, for every     *)
(* capacity, rate and length of the stretch.                               *)
THEOREM AdmissionsBounded == Spec => []AdmissionBound
<1>1. ASSUME LimiterInv PROVE AdmissionBound
  <2>. SUFFICES ASSUME NEW k \in Keys
                PROVE  count[k] * Minute <= (Tokens + 1) * Minute + (now - from) * PerMinute
    BY Zenon DEF AdmissionBound
  <2>. DEFINE b == state[k]
  <2>1. /\ Tokens \in Nat /\ Minute \in Nat /\ PerMinute \in Nat
        /\ count[k] \in Nat /\ now \in Nat /\ from \in Nat /\ from <= now
    BY <1>1, TokensNat, LimiterConstants DEF LimiterInv
  <2>2. CASE count[k] <= Tokens
    <3>1. (0 + count[k]) * Minute <= (Tokens + 1) * Minute + (now - from) * PerMinute
      BY <2>1, <2>2, RefillUnused
    <3>. QED
      BY <2>1, <3>1
  <2>3. CASE count[k] > Tokens /\ Tokens = 0
    <3>1. count[k] = 1
      BY <1>1, <2>1, <2>3 DEF LimiterInv
    <3>2. 0 * PerMinute <= (now - from) * PerMinute
      BY <2>1, TimesMonotone
    <3>. QED
      BY <2>1, <2>3, <3>1, <3>2
  <2>4. CASE count[k] > Tokens /\ Tokens # 0
    <3>1. /\ b \in Bucket /\ b.tokens \in Int /\ b.last \in Nat
          /\ BucketInv(b, count[k], denied[k], from, now)
      BY <1>1, <2>1, <2>4 DEF LimiterInv, BucketInv, Bucket
    <3>. HIDE DEF b
    <3>2. /\ b.tokens >= 0 /\ b.last <= now
          /\ (count[k] + b.tokens) * Minute <= (Tokens + 1) * Minute + (b.last - from) * PerMinute
      BY <2>1, <2>4, <3>1 DEF BucketInv
    <3>3. (b.last - from) * PerMinute <= (now - from) * PerMinute
      BY <2>1, <3>1, <3>2, TimesMonotone
    <3>4. count[k] * Minute <= (count[k] + b.tokens) * Minute
      BY <2>1, <3>1, <3>2, TimesMonotone
    <3>. QED
      BY <2>1, <3>1, <3>2, <3>3, <3>4
  <2>. QED
    BY <2>1, <2>2, <2>3, <2>4
<1>. QED
  BY <1>1, LimiterInvariance, PTL

(* A client that keeps asking is turned away for at most the time one      *)
(* token takes to accrue.                                                  *)
THEOREM DenialsAreBrief == Spec => []DenialsEnd
<1>1. ASSUME LimiterInv PROVE DenialsEnd
  <2>. SUFFICES ASSUME NEW k \in Keys, denied[k] # None
                PROVE  (denied[k].latest - denied[k].first) * PerMinute <= Minute
    BY DEF DenialsEnd
  <2>1. /\ denied[k] \in [first : Nat, latest : Nat]
        /\ state[k].last \in Nat
        /\ state[k].last <= denied[k].first
        /\ (denied[k].latest - state[k].last) * PerMinute <= Minute
    BY <1>1 DEF LimiterInv, Bucket
  <2>2. denied[k].latest - denied[k].first <= denied[k].latest - state[k].last
    BY <2>1
  <2>3. (denied[k].latest - denied[k].first) * PerMinute
           <= (denied[k].latest - state[k].last) * PerMinute
    BY <2>1, <2>2, LimiterConstants, TimesMonotone
  <2>. QED
    BY <2>1, <2>3, LimiterConstants
<1>. QED
  BY <1>1, LimiterInvariance, PTL
===========================================================================
