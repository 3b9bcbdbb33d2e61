---- MODULE Qaple ----
(***************************************************************************)
(* The composed source (internal/providers/qaple.go): word timings of QQ   *)
(* laid over the lines of Apple or, failing that, Musixmatch.  Two         *)
(* goroutines work side by side, each first in the local store; the first  *)
(* of them to come back empty cancels the other.  Every fetch goes through *)
(* guardedLineSource (provider.go), which asks the breaker of module       *)
(* Breaker before it and reports to it after.                              *)
(*                                                                         *)
(* A fetch may have to log in first (getWebToken of apple.go, getUserToken *)
(* of musixmatch.go).  A login that breaks off, for whatever reason, holds *)
(* the next ones back for a while, and that outlives the call: what one    *)
(* call cancels, another finds in cooldown.                                *)
(***************************************************************************)
EXTENDS Naturals

CONSTANT CoolTime   \* how long a broken login holds the next ones back

ASSUME CoolTimeAssumption == CoolTime \in Nat \ {0}

VARIABLES
  forced,    \* ForceReload: the store is not asked
  side,      \* side[s]: where goroutine s is, and what it will send
  got,       \* got[s]: what the collector received of side s
  ctx,       \* qapleCtx: "live", "cancelled" or past its "deadline"
  login,     \* login[p]: what is left of p's cooldown, who broke the login, how long ago
  blame,     \* what broke the fetches that breakers counted though a caller's cancel caused it
  merged     \* "none" until FetchLyrics returns

qapleVars == <<forced, side, got, ctx, login, blame, merged>>

Sides == {"words", "lines"}
Forms == {"word", "line"}
Nothing == "nothing"
Failed == "failed"
Unread == "unread"

Logins == {"apple", "musixmatch"}
Free == [left |-> 0, by |-> "nobody", age |-> 0]
Broken(who) == [left |-> CoolTime, by |-> who, age |-> 0]

\* source is the provider being asked; mxm is TRUE once Apple had no lines.
AtStart == [s \in Sides |-> [pc |-> "store", source |-> IF s = "words" THEN "qq" ELSE "apple",
                             value |-> Unread, cause |-> "none"]]
NothingYet == [s \in Sides |-> Unread]

QapleInit ==
  /\ forced \in BOOLEAN
  /\ side = AtStart /\ got = NothingYet
  /\ ctx = "live" /\ merged = "none"
  /\ login = [p \in Logins |-> Free]
  /\ blame = {}

Running == merged = "none"
Send(s, value) == side' = [side EXCEPT ![s].pc = "sent", ![s].value = value, ![s].cause = "none"]

\* The row in the local store: QQ's is used whatever it holds, a line source's
\* only when it is not already in word sync.
Stored(s) ==
  /\ side[s].pc = "store"
  /\ \/ /\ ~forced
        /\ \E value \in Forms : (s = "lines" => value = "line") /\ Send(s, value)
     \/ side' = [side EXCEPT ![s].pc = "fetch"]
  /\ UNCHANGED <<forced, got, ctx, login, blame, merged>>

\* Allow is false: the breaker of the source is open, nothing is asked.
BreakerOpen(s) ==
  /\ side[s].pc = "fetch"
  /\ side' = [side EXCEPT ![s].pc = "back", ![s].value = Failed]
  /\ UNCHANGED <<forced, got, ctx, login, blame, merged>>

\* Only a login that broke off less than CoolTime ago may still refuse.
RefusedBy(p) == IF login[p].age < CoolTime THEN "cooldown" ELSE "stale"

\* The fetch ends: with lyrics, with none, with an error of its own, or with an
\* error for the end of its context.  A provider may have put words of its own
\* to that: the cancellation is masked.  While the login is held back the error
\* is the cooldown's, whoever brought that about.
Causes(p) ==
  {"own"} \cup (CASE ctx = "cancelled" -> {"cancelled", "masked"}
                  [] ctx = "deadline" -> {"deadline"}
                  [] OTHER -> {})
          \cup (IF p \in Logins /\ login[p].left > 0 /\ login[p].by = "us" THEN {RefusedBy(p)} ELSE {})

\* Mutant: a refused login is held back for longer.
RefusedAgain(p, cause) ==
  IF cause \in {"cooldown", "stale"} THEN {[login[p] EXCEPT !.left = CoolTime]}
  ELSE {Free, Broken("them")} \cup (IF ctx = "cancelled" THEN {Broken("us")} ELSE {})

\* What else the fetch may leave of the login: a token, or a login broken off by
\* the other end or by our own cancellation.  A refused one leaves it alone.
LoginAfter(p, cause) ==
  IF cause \in {"cooldown", "stale"} THEN {}
  ELSE {Free, Broken("them")} \cup (IF ctx = "cancelled" THEN {Broken("us")} ELSE {})

Fetched(s) ==
  /\ side[s].pc = "fetch"
  /\ LET p == side[s].source
     IN \E value \in Forms \cup {Nothing, Failed} :
          \E cause \in IF value = Failed THEN Causes(p) ELSE {"none"} :
            /\ side' = [side EXCEPT ![s].pc = "report", ![s].value = value, ![s].cause = cause]
            /\ \/ login' = login
               \/ p \in Logins /\ \E l \in LoginAfter(p, cause) : login' = [login EXCEPT ![p] = l]
  /\ UNCHANGED <<forced, got, ctx, blame, merged>>

\* errors.Is(err, Canceled) || ctx.Err() == Canceled
Neutral(s) == side[s].cause = "cancelled" \/ ctx = "cancelled"

\* The report to the breaker: a cancellation is nobody's failure, a cooldown is.
Report(s) ==
  /\ side[s].pc = "report"
  /\ side' = [side EXCEPT ![s].pc = "back", ![s].cause = "none"]
  /\ blame' = IF Neutral(s) \/ side[s].cause \in {"none", "own", "deadline"} THEN blame
              ELSE blame \cup {side[s].cause}
  /\ UNCHANGED <<forced, got, ctx, login, merged>>

\* Back in the goroutine: QQ's result is sent as it is; without Apple's lines
\* Musixmatch is asked, and what it cannot give is sent as nothing.
Back(s) ==
  /\ side[s].pc = "back"
  /\ LET r == side[s]
     IN \/ /\ s = "words" \/ r.value \in Forms
           /\ Send(s, r.value)
        \/ /\ s = "lines" /\ r.value \notin Forms /\ r.source = "apple"
           /\ side' = [side EXCEPT ![s] = [@ EXCEPT !.pc = "fetch", !.source = "musixmatch",
                                                    !.value = Unread, !.cause = "none"]]
        \/ /\ s = "lines" /\ r.value \notin Forms /\ r.source = "musixmatch"
           /\ Send(s, Nothing)
  /\ UNCHANGED <<forced, got, ctx, login, blame, merged>>

\* FetchLyrics returns, and what it received is gone with it.
Return(r) == merged' = r /\ got' = NothingYet /\ ctx' = IF ctx = "live" THEN "cancelled" ELSE ctx

\* The collector takes a result.  One that cannot be used ends the fetch with
\* "no lyrics", whatever the reason, and cancels the other side; the deferred
\* cancel of a finished fetch finds nobody left.
Collect(s) ==
  /\ Running /\ side[s].pc = "sent" /\ got[s] = Unread
  /\ LET usable == IF s = "words" THEN side[s].value \in Forms ELSE side[s].value = "line"
         last == \A o \in Sides \ {s} : got[o] # Unread
     IN \/ ~usable /\ Return("absent")
        \/ usable /\ last /\ \E r \in {"merged", "absent"} : Return(r)
        \/ /\ usable /\ ~last
           /\ got' = [got EXCEPT ![s] = side[s].value]
           /\ UNCHANGED <<ctx, merged>>
  /\ UNCHANGED <<forced, side, login, blame>>

\* The race's own context ends first: its deadline, or its cancellation.
ParentEnds ==
  /\ Running /\ ctx = "live"
  /\ ctx' \in {"cancelled", "deadline"}
  /\ UNCHANGED <<forced, side, got, login, blame, merged>>

Interrupted ==
  /\ Running /\ ctx # "live"
  /\ Return("failed")
  /\ UNCHANGED <<forced, side, login, blame>>

\* The next call, when the goroutines of this one are through.
NextCall ==
  /\ ~Running /\ \A s \in Sides : side[s].pc = "sent"
  /\ forced' \in BOOLEAN
  /\ side' = AtStart /\ got' = NothingYet
  /\ ctx' = "live" /\ merged' = "none"
  /\ UNCHANGED <<login, blame>>

\* Another call of the same provider logs in, or breaks off: the race's own, or
\* one of an earlier FetchLyrics that nobody waits for.
OtherCall ==
  /\ \E p \in Logins : \E l \in {Free, Broken("them"), Broken("us")} : login' = [login EXCEPT ![p] = l]
  /\ UNCHANGED <<forced, side, got, ctx, blame, merged>>

\* Time passes; how long ago is not counted beyond CoolTime.
CoolsDown ==
  /\ login' = [p \in Logins |->
                 IF login[p].left <= 1 THEN Free
                 ELSE [login[p] EXCEPT !.left = @ - 1, !.age = IF @ < CoolTime THEN @ + 1 ELSE @]]
  /\ UNCHANGED <<forced, side, got, ctx, blame, merged>>

QapleNext ==
  \/ \E s \in Sides : Stored(s) \/ BreakerOpen(s) \/ Fetched(s) \/ Report(s) \/ Back(s) \/ Collect(s)
  \/ ParentEnds \/ Interrupted \/ NextCall \/ OtherCall \/ CoolsDown

QapleSpec == QapleInit /\ [][QapleNext]_qapleVars

-----------------------------------------------------------------------------
\* Giving up on a fetch counts against its provider only through the cooldown
\* of the login that it broke off, and no longer than that lasts: later calls
\* that are refused do not draw it out, and the call itself is never counted.
CancelIsBlamedBriefly == blame \subseteq {"cooldown"}

\* A caller's cancellation says nothing about the provider (Neutral).  Across
\* calls it does not hold: see the README, section 5.
CancelIsNotBlamed == blame = {}
====
