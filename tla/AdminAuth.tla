------------------------------ MODULE AdminAuth ------------------------------
(***************************************************************************)
(* The guard of the admin routes (internal/api/middleware/admin_auth.go):  *)
(* the credential of a request is compared with the configured secrets,    *)
(* and the failures of an address are counted in a table behind a mutex.   *)
(* A request looks at the table, compares, and records the outcome in      *)
(* separate critical sections, so requests of one address overlap there.   *)
(***************************************************************************)
EXTENDS Integers, FiniteSets

CONSTANTS
  Attempts,   \* requests under way at the same time
  Addresses,  \* client addresses
  Tokens,     \* credentials: [raw, signed, challenge, expired, admin, where]
  Secrets,    \* whether a secret that is not the public default is configured
  Strikes,    \* failures that lock an address, 5 in the code
  Minute,     \* the window and the lock
  TrackLimit, \* entries above which a failure sweeps the table, 256 in the code
  AuthEnd     \* bound of the clock

ASSUME AuthAssumption ==
  /\ IsFiniteSet(Attempts)
  /\ Strikes \in Nat \ {0, 1} /\ Minute \in Nat \ {0}
  /\ Secrets \in BOOLEAN /\ TrackLimit \in Nat /\ AuthEnd \in Nat

VARIABLES
  step,     \* what each request does
  from,     \* its address
  token,    \* its credential
  failures, \* authFailureTracker.failures
  time,
  failed    \* history: failures of an address within a minute, since its last success

authVars == <<step, from, token, failures, time, failed>>

NoFailures == [count |-> 0, first |-> -1, until |-> -1]

AuthInit ==
  /\ step = [a \in Attempts |-> "idle"]
  /\ from = [a \in Attempts |-> CHOOSE ip \in Addresses : TRUE]
  /\ token = [a \in Attempts |-> CHOOSE t \in Tokens : TRUE]
  /\ failures = [ip \in Addresses |-> NoFailures]
  /\ time = 0
  /\ failed = [ip \in Addresses |-> {}]

\* isValidAdminCredential: the secret itself, or a JWT signed with it that is
\* no challenge of the submissions, has not expired and names an admin.
Valid(t) == t.raw \/ (t.signed /\ ~t.challenge /\ ~t.expired /\ t.admin)

Old(e) == time - e.first > Minute

Locked(ip) == time < failures[ip].until

\* isLocked, the entry that it forgets included; a locked or empty-handed
\* request, or one with its token in the query, is answered at once.
Look(a, ip, t) ==
  /\ step[a] = "idle" /\ Secrets
  /\ failures' = IF failures[ip] # NoFailures /\ ~Locked(ip) /\ Old(failures[ip])
                 THEN [failures EXCEPT ![ip] = NoFailures] ELSE failures
  /\ IF Locked(ip) \/ t.where # "header" THEN UNCHANGED <<step, from, token>>
     ELSE /\ step' = [step EXCEPT ![a] = "compare"]
          /\ from' = [from EXCEPT ![a] = ip]
          /\ token' = [token EXCEPT ![a] = t]
  /\ UNCHANGED <<time, failed>>

\* The sweep at the head of recordFailure.
Swept ==
  IF Cardinality({ip \in Addresses : failures[ip] # NoFailures}) > TrackLimit
  THEN [ip \in Addresses |-> IF time > failures[ip].until /\ Old(failures[ip])
                             THEN NoFailures ELSE failures[ip]]
  ELSE failures

\* Mutant: the failure after the last one that is let through locks.
CountedLate(e) ==
  [e EXCEPT !.count = @ + 1,
            !.until = IF e.count + 1 > Strikes THEN time + Minute ELSE @]

Counted(e) ==
  [e EXCEPT !.count = @ + 1,
            !.until = IF e.count + 1 >= Strikes THEN time + Minute ELSE @]

\* The history with one more failure: its time, and its number at that time.
WithFailure(ip) ==
  failed[ip] \cup
    {[time |-> time, n |-> 1 + Cardinality({f \in failed[ip] : f.time = time})]}

RecordFailure(ip) ==
  /\ failures' = [Swept EXCEPT ![ip] =
       IF Swept[ip] = NoFailures \/ Old(Swept[ip])
       THEN [count |-> 1, first |-> time, until |-> -1] ELSE Counted(Swept[ip])]
  /\ failed' = [failed EXCEPT ![ip] = WithFailure(ip)]

RecordSuccess(ip) ==
  /\ failures' = [failures EXCEPT ![ip] = NoFailures]
  /\ failed' = [failed EXCEPT ![ip] = {}]

LeaveAuth(a) ==
  /\ step' = [step EXCEPT ![a] = "idle"]
  /\ from' = [from EXCEPT ![a] = CHOOSE ip \in Addresses : TRUE]
  /\ token' = [token EXCEPT ![a] = CHOOSE t \in Tokens : TRUE]

Reject(a) ==
  /\ step[a] = "compare" /\ ~Valid(token[a])
  /\ RecordFailure(from[a])
  /\ LeaveAuth(a)
  /\ UNCHANGED time

Accept(a) ==
  /\ step[a] = "compare" /\ Valid(token[a])
  /\ RecordSuccess(from[a])
  /\ LeaveAuth(a)
  /\ UNCHANGED time

AuthTick ==
  /\ time < AuthEnd
  /\ time' = time + 1
  /\ failed' = [ip \in Addresses |-> {f \in failed[ip] : f.time > time + 1 - Minute}]
  /\ UNCHANGED <<step, from, token, failures>>

AuthNext ==
  \/ \E a \in Attempts :
       \/ \E ip \in Addresses, t \in Tokens : Look(a, ip, t)
       \/ Reject(a) \/ Accept(a)
  \/ AuthTick

AuthSpec == AuthInit /\ [][AuthNext]_authVars

-----------------------------------------------------------------------------
\* However the requests of an address overlap, any minute without a success
\* holds fewer than twice Strikes - 1 failures and one for each request that may
\* be past the check (admin_auth.go:31-83): two windows may meet, the requests
\* that looked before a lock are still judged, and one of them that fails after
\* the window replaces the locked entry by a fresh one.
LockoutHolds ==
  \A ip \in Addresses :
    Cardinality(failed[ip]) < 2 * (Strikes - 1 + Cardinality(Attempts))

\* What admin_auth.go:15 says, "max 5 failed attempts per IP within 1 minute
\* window".  It does not hold, for the reasons above: LockoutHolds is what does.
MaxStrikesAMinute == \A ip \in Addresses : Cardinality(failed[ip]) <= Strikes

\* What admin_auth.go:74 and the message of line 113 say, "Lock out for 1 minute":
\* a lock only ends when its time has come.  A request that looked before the lock
\* ends it early, by a success or by a failure that begins a fresh entry.
LocksAMinute ==
  [][\A ip \in Addresses : Locked(ip) => failures'[ip].until >= failures[ip].until]_authVars
=============================================================================
