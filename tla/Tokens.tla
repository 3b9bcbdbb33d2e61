---- MODULE Tokens ----
(***************************************************************************)
(* The credential of one account: how the providers fetch it, share it     *)
(* between concurrent calls, use it, and drop it when it is refused        *)
(* (internal/providers: spotify.go, deezer.go, musixmatch.go, apple.go and *)
(* qqmusic.go).                                                            *)
(*                                                                         *)
(* Five styles are written down.                                           *)
(*   flight   Spotify and Deezer: cache, then a single flight that looks   *)
(*            at the cache again; the leader's context carries the request *)
(*   web      Musixmatch with a cookie: no flight, each caller for itself  *)
(*   android  Musixmatch's application: a flight of its own, whose waiters *)
(*            read the state again when they wake                          *)
(*   apple    the mutex of the token is held during the requests           *)
(*   qq       a session renewed under a lock, and tried once per half hour *)
(***************************************************************************)
EXTENDS Integers

CONSTANTS Users,      \* concurrent calls that need the credential
          MaxTokens   \* tokens the upstream gives out

Styles == {"flight", "web", "android", "apple", "qq"}
Nobody == "nobody"

ASSUME TokensAssumption == MaxTokens \in Nat \ {0} /\ Nobody \notin Users

VARIABLES
  style,    \* which provider
  cred,     \* what is cached
  minted,   \* tokens given out so far
  leader,   \* who fetches, for the others too: the flight, the login, the lock
  user      \* the calls

tokensVars == <<style, cred, minted, leader, user>>

\* tok is 0 when there is none or it ran out; resting is failUntil in the
\* future; err is initErr; cookie is the token in the account's cookie, asked
\* until a refusal disables it; fresh is a session asked for lately.
EmptyCred == [tok |-> 0, resting |-> FALSE, err |-> FALSE, cookie |-> FALSE, fresh |-> FALSE]
IdleUser == [pc |-> "start", have |-> 0, again |-> FALSE]

TokensInit ==
  /\ style \in Styles
  /\ \E cookie \in IF style = "web" THEN BOOLEAN ELSE {FALSE} :
       cred = [EmptyCred EXCEPT !.cookie = cookie]
  /\ minted = 0
  /\ leader = Nobody
  /\ user = [u \in Users |-> IdleUser]

UserAt(u, pc) == user[u].pc = pc
Go(u, pc) == user' = [user EXCEPT ![u].pc = pc]
Ended == [pc |-> "ended", have |-> 0, again |-> FALSE]
UserLeaves(u) == user' = [user EXCEPT ![u] = Ended]
With(u, tok) == user' = [user EXCEPT ![u].pc = "use", ![u].have = tok]

\* The cache, read under the lock: a good token is used, a cooldown is an error.
Hit(u) == cred.tok # 0 /\ With(u, cred.tok)
Cooling(u) == cred.tok = 0 /\ cred.resting /\ UserLeaves(u)
Miss == cred.tok = 0 /\ ~cred.resting

\* getWebToken and getAPIToken of Spotify, Deezer's authenticate: the cache first.
ReadFlight(u) ==
  /\ style = "flight" /\ UserAt(u, "start")
  /\ Hit(u) \/ Cooling(u) \/ (Miss /\ Go(u, "do"))
  /\ UNCHANGED <<style, cred, minted, leader>>

\* flightGroup.Do: lead, or wait for the one who leads.
Do(u) ==
  /\ style = "flight" /\ UserAt(u, "do")
  /\ \/ leader = Nobody /\ leader' = u /\ Go(u, "lead")
     \/ leader # Nobody /\ leader' = leader /\ Go(u, "wait")
  /\ UNCHANGED <<style, cred, minted>>

\* The leader's result is everybody's.
Waiting == {u \in Users : UserAt(u, "wait")}
Deliver(u, r) == user' = [v \in Users |-> IF v = u \/ v \in Waiting THEN r ELSE user[v]]
Using(tok) == [pc |-> "use", have |-> tok, again |-> FALSE]

\* Mutant: the leader asks without a second look at the cache.
LeadBlind(u) ==
  /\ UserAt(u, "lead") /\ Go(u, "request")
  /\ UNCHANGED <<style, cred, minted, leader>>

\* The second look, inside the flight (it does not read the cooldown).
Lead(u) ==
  /\ UserAt(u, "lead")
  /\ \/ cred.tok # 0 /\ Deliver(u, Using(cred.tok)) /\ leader' = Nobody
     \/ cred.tok = 0 /\ Go(u, "request") /\ leader' = leader
  /\ UNCHANGED <<style, cred, minted>>

\* getUserToken: the cookie's own token is stored for an hour, else one is asked.
ReadWeb(u) ==
  /\ style = "web" /\ UserAt(u, "start")
  /\ Hit(u) \/ Cooling(u) \/ (Miss /\ Go(u, IF cred.cookie THEN "cookie" ELSE "request"))
  /\ UNCHANGED <<style, cred, minted, leader>>

Mint == minted < MaxTokens /\ minted' = minted + 1

TakeCookie(u) ==
  /\ UserAt(u, "cookie")
  /\ Mint
  /\ cred' = [cred EXCEPT !.tok = minted', !.resting = FALSE]
  /\ With(u, minted')
  /\ UNCHANGED <<style, leader>>

\* ensureLoggedIn: one login at a time; the others wait for its channel.
EnsureLoggedIn(u) ==
  /\ style = "android" /\ UserAt(u, "start")
  /\ \/ Hit(u) /\ UNCHANGED <<cred, leader>>
     \/ Cooling(u) /\ UNCHANGED <<cred, leader>>
     \/ Miss /\ leader # Nobody /\ Go(u, "wait") /\ UNCHANGED <<cred, leader>>
     \/ /\ Miss /\ leader = Nobody
        /\ Go(u, "request")
        /\ leader' = u
        /\ cred' = [cred EXCEPT !.err = FALSE]
  /\ UNCHANGED <<style, minted>>

\* A waiter whose own context ends stops waiting.
StopWaiting(u) ==
  /\ style = "android" /\ UserAt(u, "wait")
  /\ UserLeaves(u)
  /\ UNCHANGED <<style, cred, minted, leader>>

\* A woken waiter reads token and error as they are by then: the token may be
\* gone again, and is used all the same.
Woken(u) ==
  /\ UserAt(u, "woken")
  /\ IF cred.err THEN UserLeaves(u) ELSE With(u, cred.tok)
  /\ UNCHANGED <<style, cred, minted, leader>>

\* Apple's getWebToken keeps the lock from the first look to the end.
LockApple(u) ==
  /\ style = "apple" /\ UserAt(u, "start") /\ leader = Nobody
  /\ \/ Hit(u) /\ leader' = leader
     \/ Cooling(u) /\ leader' = leader
     \/ Miss /\ Go(u, "request") /\ leader' = u
  /\ UNCHANGED <<style, cred, minted>>

\* QQ's ensureSession: a look under the read lock, another under the write
\* lock, and the time of the attempt set before it is made.
ReadSession(u) ==
  /\ style = "qq" /\ UserAt(u, "start") /\ leader = Nobody
  /\ IF cred.fresh THEN With(u, cred.tok) ELSE Go(u, "do")
  /\ UNCHANGED <<style, cred, minted, leader>>

LockSession(u) ==
  /\ style = "qq" /\ UserAt(u, "do") /\ leader = Nobody
  /\ \/ cred.fresh /\ With(u, cred.tok) /\ UNCHANGED <<cred, leader>>
     \/ ~cred.fresh /\ Go(u, "request") /\ leader' = u /\ cred' = [cred EXCEPT !.fresh = TRUE]
  /\ UNCHANGED <<style, minted>>

\* The end of a fetch for the others: the flight hands them its result, the
\* login closes its channel, the locks are free.
Release(u, r) ==
  /\ leader' = IF style = "web" THEN leader ELSE Nobody
  /\ user' = [v \in Users |->
       IF v = u THEN [r EXCEPT !.again = user[u].again]
       ELSE IF UserAt(v, "wait") THEN IF style = "android" THEN [user[v] EXCEPT !.pc = "woken"] ELSE r
       ELSE user[v]]

\* The upstream gives a token.
TokenGranted(u) ==
  /\ UserAt(u, "request") /\ Mint
  /\ cred' = [cred EXCEPT !.tok = minted', !.resting = FALSE]
  /\ Release(u, Using(minted'))
  /\ UNCHANGED style

\* It refuses, or cannot be reached (the leader's context may have ended): the
\* cache holds a cooldown in place of the token.
Denied(u) ==
  /\ UserAt(u, "request") /\ style # "qq"
  /\ cred' = [cred EXCEPT !.tok = 0, !.resting = TRUE, !.err = style = "android"]
  /\ Release(u, Ended)
  /\ UNCHANGED <<style, minted>>

\* An answer nobody understands leaves the cache alone; QQ goes on with the
\* session it had.
Garbled(u) ==
  /\ UserAt(u, "request") /\ style \in {"flight", "web", "qq"}
  /\ Release(u, IF style = "qq" THEN Using(cred.tok) ELSE Ended)
  /\ UNCHANGED <<style, cred, minted>>

\* The request the token was for is answered.
Served(u) ==
  /\ UserAt(u, "use")
  /\ UserLeaves(u)
  /\ UNCHANGED <<style, cred, minted, leader>>

\* A refused token is forgotten, with the cooldown where they share an entry;
\* the call goes on with another account (Accounts).
DropShared(u) ==
  /\ UserAt(u, "use") /\ style \in {"flight", "apple"}
  /\ style = "apple" => leader = Nobody
  /\ cred' = [cred EXCEPT !.tok = 0, !.resting = IF style = "flight" THEN FALSE ELSE @]
  /\ UserLeaves(u)
  /\ UNCHANGED <<style, minted, leader>>

\* makeWebRequest: forget the token and the cookie, ask for another, try once more.
InvalidateWeb(u) ==
  /\ UserAt(u, "use") /\ style = "web" /\ ~user[u].again
  /\ cred' = [cred EXCEPT !.tok = 0, !.resting = FALSE, !.cookie = FALSE]
  /\ user' = [user EXCEPT ![u] = [IdleUser EXCEPT !.again = TRUE]]
  /\ UNCHANGED <<style, minted, leader>>

\* androidRequest: only the token that was refused is dropped; try once more.
DropOwn(u) ==
  /\ UserAt(u, "use") /\ style = "android" /\ ~user[u].again
  /\ cred' = [cred EXCEPT !.tok = IF @ = user[u].have THEN 0 ELSE @]
  /\ user' = [user EXCEPT ![u] = [IdleUser EXCEPT !.again = TRUE]]
  /\ UNCHANGED <<style, minted, leader>>

\* Time: the token, the cooldown, the half hour of a session run out.
RunOut ==
  /\ \/ style # "qq" /\ cred.tok # 0 /\ cred' = [cred EXCEPT !.tok = 0]
     \/ cred.resting /\ cred' = [cred EXCEPT !.resting = FALSE]
     \/ cred.fresh /\ cred' = [cred EXCEPT !.fresh = FALSE]
  /\ UNCHANGED <<style, minted, leader, user>>

TokensNext ==
  \/ \E u \in Users :
       \/ ReadFlight(u) \/ Do(u) \/ Lead(u)
       \/ ReadWeb(u) \/ TakeCookie(u)
       \/ EnsureLoggedIn(u) \/ StopWaiting(u) \/ Woken(u)
       \/ LockApple(u) \/ ReadSession(u) \/ LockSession(u)
       \/ TokenGranted(u) \/ Denied(u) \/ Garbled(u)
       \/ Served(u) \/ DropShared(u) \/ InvalidateWeb(u) \/ DropOwn(u)
  \/ RunOut

TokensSpec == TokensInit /\ [][TokensNext]_tokensVars

-----------------------------------------------------------------------------
\* A failed fetch never puts a cooldown in place of a token that is still good:
\* where callers share a fetch nobody can have stored one meanwhile.  (Not so
\* for Musixmatch's web tokens, which each caller fetches for itself.)
GoodTokenKept ==
  [][style # "web" /\ cred.tok # 0 /\ ~cred.resting => ~cred'.resting]_tokensVars
====
