-------------------------------- MODULE Tokens --------------------------------
(***************************************************************************)
(* Device tokens: auth.Issue and auth.Parse, the part of the register      *)
(* handler that follows UpsertDevice, and the table refresh_tokens.        *)
(*                                                                         *)
(* Time passes in ticks, PerSecond of them in a second.  Claims hold whole *)
(* seconds.  HS256 is deterministic, so a token is the record of what is   *)
(* signed and of the key: equal claims give the same token.                *)
(***************************************************************************)
EXTENDS Integers

CONSTANTS
  Devices,     \* device ids
  Requests,    \* request goroutines
  Settings,    \* values of JWT_SIGNING_KEY and JWT_ISSUER
  PerSecond,   \* ticks in a second
  AccessTTL,   \* ACCESS_TTL in ticks
  RefreshTTL,  \* REFRESH_TTL in ticks
  MaxTime,     \* bound: the clock
  MaxIssued,   \* bound: registrations
  MaxFaults    \* bound: restarts and failed statements

TokenConstants ==
  /\ PerSecond \in Nat \ {0}
  /\ AccessTTL \in Int /\ RefreshTTL \in Int
  /\ MaxTime \in Nat /\ MaxIssued \in Nat /\ MaxFaults \in Nat

VARIABLES
  now,        \* the clock
  settings,   \* key and issuer of the running API
  tokens,     \* table refresh_tokens
  pc,         \* "idle", "issue" or "save", per request
  loc,        \* the local variables of each request
  issued,     \* answers sent so far, with the history needed below
  started,    \* registrations started so far
  faults      \* faults so far

vars == <<now, settings, tokens, pc, loc, issued, started, faults>>

Token == [sub : Devices, settings : Settings, exp : Int, iat : Int]
Row == [device : Devices, token : Token, expires : Int]

(* device, start and settings: whose tokens, when accessExp was taken, and
   under which settings; access, refresh, refreshExp and expiresAt: what Issue
   returned and the handler answers. *)
Pair == [device : Devices, start : Int, settings : Settings, access : Token,
         refresh : Token, refreshExp : Int, expiresAt : Int]

TypeOK ==
  /\ now \in Nat
  /\ settings \in Settings
  /\ tokens \subseteq Row
  /\ pc \in [Requests -> {"idle", "issue", "save"}]
  /\ DOMAIN loc = Requests
  /\ \A r \in Requests :
       /\ pc[r] = "issue" => loc[r] \in [device : Devices, start : Nat]
       /\ pc[r] = "save" => loc[r] \in Pair
  /\ issued \subseteq [pair : Pair, saved : BOOLEAN]
  /\ started \in Nat
  /\ faults \in Nat

Nothing == [device |-> {}]

Init ==
  /\ now = 0
  /\ settings \in Settings
  /\ tokens = {}
  /\ pc = [r \in Requests |-> "idle"]
  /\ loc = [r \in Requests |-> Nothing]
  /\ issued = {}
  /\ started = 0
  /\ faults = 0

-----------------------------------------------------------------------------
(* A mutated form of Seconds: the time is rounded to the nearest second. *)
SecondsRounded(t) == (t + PerSecond \div 2) \div PerSecond

(* jwt.NewNumericDate and time.Unix: whole seconds, rounded down. *)
Seconds(t) == t \div PerSecond

(* The claims of a token and the key they are signed with; the role is always
   "device". *)
Sign(device, set, exp, iat) ==
  [sub |-> device, settings |-> set, exp |-> Seconds(exp), iat |-> Seconds(iat)]

(* Parse, as DeviceAuth calls it: signature, issuer and expiry are checked. *)
Parse(token) == token.settings = settings /\ now < token.exp * PerSecond

-----------------------------------------------------------------------------
(* Issue is called, and reads the clock for the first time. *)
BeginIssue(r) ==
  /\ pc[r] = "idle"
  /\ started < MaxIssued
  /\ \E d \in Devices : loc' = [loc EXCEPT ![r] = [device |-> d, start |-> now]]
  /\ pc' = [pc EXCEPT ![r] = "issue"]
  /\ started' = started + 1
  /\ UNCHANGED <<now, settings, tokens, issued, faults>>

(* A mutated form of Issued: the time of the answer is based on a later
   reading of the clock than the claim. *)
IssuedLate(d, set, t) ==
  [device |-> d, start |-> t[1], settings |-> set,
   access |-> Sign(d, set, t[1] + AccessTTL, t[3]),
   refresh |-> Sign(d, set, t[2] + RefreshTTL, t[4]),
   refreshExp |-> t[2] + RefreshTTL,
   expiresAt |-> Seconds(t[4] + AccessTTL)]

(* What Issue returns if it reads the clock at the times t. *)
Issued(d, set, t) ==
  [device |-> d, start |-> t[1], settings |-> set,
   access |-> Sign(d, set, t[1] + AccessTTL, t[3]),
   refresh |-> Sign(d, set, t[2] + RefreshTTL, t[4]),
   refreshExp |-> t[2] + RefreshTTL,
   expiresAt |-> Seconds(t[1] + AccessTTL)]

(* Issue returns; its other readings of the clock lie between the first one
   and now. *)
Issue(r) ==
  /\ pc[r] = "issue"
  /\ \E t2, t3, t4 \in loc[r].start .. now :
       /\ t2 <= t3 /\ t3 <= t4
       /\ loc' = [loc EXCEPT ![r] =
                    Issued(loc[r].device, settings, <<loc[r].start, t2, t3, t4>>)]
  /\ pc' = [pc EXCEPT ![r] = "save"]
  /\ UNCHANGED <<now, settings, tokens, issued, started, faults>>

(* 201 with the tokens, whether the refresh token was saved or not. *)
Answer(r, saved) ==
  /\ issued' = issued \cup {[pair |-> loc[r], saved |-> saved]}
  /\ pc' = [pc EXCEPT ![r] = "idle"]
  /\ loc' = [loc EXCEPT ![r] = Nothing]

RowOf(p) == [device |-> p.device, token |-> p.refresh, expires |-> p.refreshExp]

(* A mutated form of SaveRefreshToken: a device keeps one refresh token. *)
SaveRefreshTokenOne(r) ==
  /\ pc[r] = "save"
  /\ tokens' = {w \in tokens : w.device # loc[r].device} \cup {RowOf(loc[r])}
  /\ Answer(r, TRUE)
  /\ UNCHANGED <<now, settings, started, faults>>

(* INSERT INTO refresh_tokens; token is UNIQUE, and the error of an INSERT
   that meets an equal token is dropped. *)
SaveRefreshToken(r) ==
  /\ pc[r] = "save"
  /\ tokens' = IF \E w \in tokens : w.token = loc[r].refresh
               THEN tokens ELSE tokens \cup {RowOf(loc[r])}
  /\ Answer(r, TRUE)
  /\ UNCHANGED <<now, settings, started, faults>>

(* The INSERT fails, and this error is dropped as well. *)
SaveFails(r) ==
  /\ pc[r] = "save"
  /\ faults < MaxFaults
  /\ faults' = faults + 1
  /\ Answer(r, FALSE)
  /\ UNCHANGED <<now, settings, tokens, started>>

(* The API restarts, possibly with another key or issuer. *)
Restart ==
  /\ faults < MaxFaults
  /\ faults' = faults + 1
  /\ settings' \in Settings
  /\ pc' = [r \in Requests |-> "idle"]
  /\ loc' = [r \in Requests |-> Nothing]
  /\ UNCHANGED <<now, tokens, issued, started>>

Tick ==
  /\ now < MaxTime
  /\ now' = now + 1
  /\ UNCHANGED <<settings, tokens, pc, loc, issued, started, faults>>

Next ==
  \/ \E r \in Requests : \/ BeginIssue(r) \/ Issue(r)
                         \/ SaveRefreshToken(r) \/ SaveFails(r)
  \/ Restart
  \/ Tick

Spec == Init /\ [][Next]_vars

-----------------------------------------------------------------------------
(* Properties *)

(* An access token is accepted for ACCESS_TTL from when Issue took the time,
   less a part of a second: never after, and always before, under the settings
   it was signed with, also when the API restarted in between.  expires_at in
   the answer is the moment from which it is refused, although it and the
   claim are computed apart. *)
LifetimeExact ==
  \A i \in issued :
    /\ Parse(i.pair.access) => now < i.pair.start + AccessTTL
    /\ i.pair.settings = settings =>
         /\ now + PerSecond <= i.pair.start + AccessTTL => Parse(i.pair.access)
         /\ Parse(i.pair.access) <=> now < i.pair.expiresAt * PerSecond

(* A refresh token that was handed out and whose INSERT did not fail is in the
   table, for its device, with an expiry in the second that it claims: also if
   it equals one issued in the same second and its own INSERT was refused. *)
RefreshStored ==
  \A i \in issued : i.saved =>
    \E w \in tokens : /\ w.token = i.pair.refresh
                      /\ w.device = i.pair.device
                      /\ Seconds(w.expires) = i.pair.refresh.exp

(* The invariant of the proofs: what Issue returns agrees with itself, and
   rows agree with their tokens. *)
PairOK(p) ==
  /\ p.access.settings = p.settings
  /\ p.access.exp = Seconds(p.start + AccessTTL)
  /\ p.expiresAt = p.access.exp
  /\ p.refresh.sub = p.device
  /\ p.refresh.exp = Seconds(p.refreshExp)

TokenInv ==
  /\ TypeOK
  /\ \A r \in Requests : pc[r] = "save" => PairOK(loc[r])
  /\ \A i \in issued : PairOK(i.pair)
  /\ \A w \in tokens : w.device = w.token.sub /\ Seconds(w.expires) = w.token.exp
  /\ RefreshStored
=============================================================================
