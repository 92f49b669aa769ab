---------------------------- MODULE RateLimiter ----------------------------
(***************************************************************************)
(* The token bucket of src/internal/httpmiddleware/ratelimit.go, which     *)
(* every request to the API passes first.  allow runs under a mutex, so a  *)
(* call is one step.  Time is Go's monotonic clock, in ticks of which      *)
(* Minute make a minute.                                                   *)
(***************************************************************************)
EXTENDS Integers

CONSTANTS
    Keys,         \* client addresses
    Capacity,     \* capacity given to NewSimpleTokenBucket
    PerMinute,    \* perMinute given to NewSimpleTokenBucket
    Minute,       \* ticks in a minute
    MaxTime,      \* bound: ticks of the clock
    None          \* no bucket, no denial

(* NewSimpleTokenBucket replaces a capacity that is not positive.          *)
Tokens == IF Capacity <= 0 THEN PerMinute ELSE Capacity

Bucket == [tokens : Int, last : Nat]

ASSUME LimiterConstants ==
    /\ Capacity \in Int
    /\ PerMinute \in Nat
    /\ Minute \in Nat \ {0}
    /\ MaxTime \in Nat
    /\ None \notin Bucket
    /\ None \notin [first : Nat, latest : Nat]

VARIABLES
    state,     \* key -> its bucket
    now,       \* the clock
    from,      \* history: when an observer began to count
    count,     \* history: key -> requests admitted since then
    denied     \* history: key -> first and latest denial since its last admission

vars == <<state, now, from, count, denied>>

Init ==
    /\ state = [k \in Keys |-> None]
    /\ now = 0
    /\ from = 0
    /\ count = [k \in Keys |-> 0]
    /\ denied = [k \in Keys |-> None]

(* A mutated form of Refill: a bucket in use fills beyond its capacity.    *)
RefillUncapped(b, n) ==
    IF n > 0 THEN [tokens |-> b.tokens + n, last |-> now] ELSE b

(* n tokens come back; the fraction of a token that has accrued on top of  *)
(* them is forgotten with the old last.                                    *)
Refill(b, n) ==
    IF n > 0
    THEN [tokens |-> IF b.tokens + n > Tokens THEN Tokens ELSE b.tokens + n,
          last |-> now]
    ELSE b

(* int(elapsed * rate): the tokens accrued since b.last, rounded down, and *)
(* possibly one less where the product is a whole number (0.29 * 100 is    *)
(* 28.999999999999996 in float64).                                         *)
Accrued(b) ==
    LET x == (now - b.last) * PerMinute
    IN  {n \in 0 .. x : n * Minute <= x /\ x <= (n + 1) * Minute}

(* A mutated form of Checked: last moves at every request.                 *)
CheckedAlwaysMovesLast(b) == {[Refill(b, n) EXCEPT !.last = now] : n \in Accrued(b)}

(* What the bucket may be after the refill that every request begins with. *)
Checked(b) == {Refill(b, n) : n \in Accrued(b)}

Admit(k, b) ==
    /\ state' = [state EXCEPT ![k] = b]
    /\ count' = [count EXCEPT ![k] = @ + 1]
    /\ denied' = [denied EXCEPT ![k] = None]
    /\ UNCHANGED <<now, from>>

(* allow for a key without a bucket: true, whatever the capacity is.       *)
FirstRequest(k) ==
    /\ state[k] = None
    /\ Admit(k, [tokens |-> Tokens - 1, last |-> now])

(* allow returns true and takes a token.                                   *)
Allow(k) ==
    /\ state[k] # None
    /\ \E b \in Checked(state[k]) :
          /\ b.tokens > 0
          /\ Admit(k, [b EXCEPT !.tokens = @ - 1])

(* allow returns false: 429.                                               *)
Deny(k) ==
    /\ state[k] # None
    /\ \E b \in Checked(state[k]) :
          /\ b.tokens <= 0
          /\ state' = [state EXCEPT ![k] = b]
    /\ denied' = [denied EXCEPT ![k] =
                    [first |-> IF @ = None THEN now ELSE @.first, latest |-> now]]
    /\ UNCHANGED <<now, from, count>>

(* The observer begins to count afresh, at any moment it likes.            *)
Observe ==
    /\ from' = now
    /\ count' = [k \in Keys |-> 0]
    /\ UNCHANGED <<state, now, denied>>

Tick ==
    /\ now < MaxTime
    /\ now' = now + 1
    /\ UNCHANGED <<state, from, count, denied>>

Next ==
    \/ \E k \in Keys : FirstRequest(k) \/ Allow(k) \/ Deny(k)
    \/ Observe
    \/ Tick

Spec == Init /\ [][Next]_vars

---------------------------------------------------------------------------
(* In any stretch of time a key gets at most a full bucket, what accrues   *)
(* in that stretch and one request more, for the fraction of a token that  *)
(* had accrued before it.                                                  *)
AdmissionBound ==
    \A k \in Keys :
        count[k] * Minute <= (Tokens + 1) * Minute + (now - from) * PerMinute

(* A client that is turned away and keeps asking is served again within    *)
(* the time one token takes to accrue: its own retries do not put it off.  *)
DenialsEnd ==
    \A k \in Keys : denied[k] # None =>
        (denied[k].latest - denied[k].first) * PerMinute <= Minute

(* Types, and what AdmissionBound and DenialsEnd need to be inductive.  A  *)
(* bucket refilled since the observation began has given out, together     *)
(* with what is left in it, no more than the bound; one refilled before    *)
(* has given out what was in it, and only a little earlier than the        *)
(* observation if it has been used at all.                                 *)
LimiterInv ==
    /\ state \in [Keys -> Bucket \cup {None}]
    /\ now \in Nat
    /\ from \in 0 .. now
    /\ count \in [Keys -> Nat]
    /\ denied \in [Keys -> [first : Nat, latest : Nat] \cup {None}]
    /\ \A k \in Keys : state[k] = None => count[k] = 0 /\ denied[k] = None
    /\ \A k \in Keys : state[k] # None =>
          LET b == state[k]
              given == count[k] + b.tokens
          IN  /\ b.last <= now
              /\ b.tokens <= Tokens
              /\ IF Tokens = 0 THEN b.tokens = -1 /\ count[k] <= 1 ELSE b.tokens >= 0
              /\ b.last >= from =>
                    given * Minute <= (Tokens + 1) * Minute + (b.last - from) * PerMinute
              /\ b.last < from =>
                    /\ given <= Tokens
                    /\ count[k] > 0 => (from - b.last) * PerMinute <= Minute
              /\ denied[k] # None =>
                    /\ b.last <= denied[k].first
                    /\ (denied[k].latest - b.last) * PerMinute <= Minute

(* "Requests per minute per IP": in a minute, no key is admitted more      *)
(* often than the configured number.                                       *)
PerMinuteLimit ==
    \A k \in Keys : now - from < Minute => count[k] <= PerMinute
===========================================================================
