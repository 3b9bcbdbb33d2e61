---- MODULE Accounts ----
(***************************************************************************)
(* The accounts of a provider and the calls that rotate through them       *)
(* (internal/providers/accounts.go, with the retry loops of musixmatch.go, *)
(* spotify.go, deezer.go and apple.go).                                    *)
(*                                                                         *)
(* AccountManager holds no lock: the index of the account in use and the   *)
(* cooldown of each account are atomics, read one after the other while    *)
(* other calls store into them.  A call asks the upstream with an account; *)
(* when it is refused it puts the account to rest and looks for the next   *)
(* one.  How far it goes on is the provider's own loop.                    *)
(*                                                                         *)
(* One call is followed step by step.  Whatever number of other calls use  *)
(* the same accounts, all they do to it is store some index and put some   *)
(* account to rest, at any moment (Others).                                *)
(***************************************************************************)
EXTENDS Integers, FiniteSets

CONSTANTS MaxAccounts,  \* most accounts configured
          MaxRetries    \* maxAccountRetries

ASSUME AccountsAssumption == MaxAccounts \in Nat \ {0} /\ MaxRetries \in Nat

Providers == {"musixmatch", "spotify", "deezer", "apple"}

VARIABLES
  provider,   \* whose accounts these are
  accounts,   \* how many are configured
  resting,    \* the accounts whose cooldown is still running
  current,    \* currentIndex
  call        \* the call

accountsVars == <<provider, accounts, resting, current, call>>

Account == 0..(accounts - 1)

\* start is startIdx of Musixmatch and currIdx of Apple's rounds; met are the
\* accounts this call asked or saw at rest.
IdleCall == [pc |-> "idle", at |-> 0, from |-> 0, step |-> 0, pick |-> "current",
             start |-> 0, tries |-> 0, round |-> 1, waited |-> FALSE,
             silent |-> {}, met |-> {}, out |-> "none"]

AccountsInit ==
  /\ provider \in Providers
  /\ accounts \in 1..MaxAccounts
  /\ resting = {}
  /\ current = 0
  /\ call = IdleCall

\* A call that is over keeps only what its outcome rests on.
CallOver(r, out) == [IdleCall EXCEPT !.pc = "ended", !.out = out, !.met = r.met]

\* A call begins: CurrentIndex loads the shared index.
Begin ==
  /\ call.pc = "idle"
  /\ call' = [call EXCEPT !.pc = "probe", !.pick = "current", !.from = current]
  /\ UNCHANGED <<provider, accounts, resting, current>>

\* Mutant: the next account is the one after the shared index, as in Rotate.
SeekShared(r, i) == [r EXCEPT !.pc = "probe", !.pick = "next", !.from = current, !.step = 1]

\* Next(i): the accounts after i, when there is another.
Seek(r, i) == [r EXCEPT !.pc = "probe", !.pick = "next", !.from = i, !.step = 1]
Ask(r, i) == [r EXCEPT !.pc = "ask", !.at = i, !.step = 0]

\* The account CurrentIndex settled on: the call's first.
Took(r, i) == [Ask(r, i) EXCEPT !.start = IF provider \in {"musixmatch", "apple"} THEN i ELSE 0]

\* What each loop does with the account Next gave it.
Advance(r, i) ==
  IF provider = "musixmatch" THEN
     IF i = r.start \/ r.tries + 1 = accounts THEN CallOver(r, "refused")
     ELSE [Ask(r, i) EXCEPT !.tries = @ + 1]
  ELSE IF r.pick = "round" THEN
     IF r.round < accounts
     THEN [Ask(r, i) EXCEPT !.start = i, !.round = @ + 1, !.tries = 0, !.waited = FALSE]
     ELSE CallOver(r, "absent")
  ELSE IF r.tries < MaxRetries
     THEN [Ask(r, i) EXCEPT !.tries = @ + 1, !.waited = FALSE]
  ELSE CallOver(r, "refused")

\* One account looked at: the first that does not rest is stored and taken.
\* With all of them resting CurrentIndex stays where it was, Next goes one on.
Probe ==
  /\ call.pc = "probe"
  /\ LET r == call
         cand == (r.from + r.step) % accounts
         seen == [r EXCEPT !.met = @ \cup {cand}]
         last == r.step + 1 >= accounts
     IN \/ /\ cand \notin resting
           /\ call' = IF r.step = 0 THEN Took(r, cand) ELSE [r EXCEPT !.pc = "store", !.at = cand]
        \/ /\ cand \in resting /\ ~last
           /\ call' = [seen EXCEPT !.step = @ + 1]
        \/ /\ cand \in resting /\ last
           /\ call' = IF r.pick = "current" THEN Took(seen, r.from)
                      ELSE [seen EXCEPT !.pc = "store", !.at = (r.from + 1) % accounts]
  /\ UNCHANGED <<provider, accounts, resting, current>>

\* currentIndex.Store, some time after the cooldown was read.
Store ==
  /\ call.pc = "store"
  /\ current' = call.at
  /\ call' = IF call.pick = "current" THEN Took(call, call.at)
             ELSE Advance(call, call.at)
  /\ UNCHANGED <<provider, accounts, resting>>

\* MarkBad: a longer cooldown of an account at rest only moves its end.
Bench(set) == resting' = resting \cup set

\* Musixmatch goes on after any error, the others after a refusal of the account.
Refusal(answer) == IF provider = "musixmatch" THEN answer \in {"refused", "broken"}
                   ELSE answer = "refused"

\* A refused account rests and the call looks for another.  Spotify and Apple
\* count the retries before Next, Deezer after it has moved the shared index.
AfterRefusal(r) ==
  IF accounts = 1 \/ (provider \in {"spotify", "apple"} /\ r.tries >= MaxRetries)
  THEN CallOver(r, "refused")
  ELSE Seek(r, r.at)

\* 404 of Apple's lyrics: another storefront may have them, so the loop of
\* doFetchLyrics goes on from the account the round began with.
AfterAbsent(r) ==
  IF provider # "apple" \/ accounts = 1 THEN CallOver(r, "absent")
  ELSE [Seek([r EXCEPT !.silent = @ \cup {r.start}], r.start) EXCEPT !.pick = "round"]

\* The upstream's answer to one request with the account at hand.
AccountAnswers ==
  /\ call.pc = "ask"
  /\ LET r == [call EXCEPT !.met = @ \cup {call.at}]
     IN \/ /\ call' = CallOver(r, "ok")
           /\ Bench(r.silent)
        \/ /\ call' = AfterAbsent(r)
           /\ UNCHANGED resting
        \/ /\ provider = "apple" /\ ~r.waited                 \* 503, once
           /\ call' = [r EXCEPT !.waited = TRUE]
           /\ UNCHANGED resting
        \/ \E answer \in {"refused", "broken"} :
             IF Refusal(answer)
             THEN Bench({r.at}) /\ call' = AfterRefusal(r)
             ELSE call' = CallOver(r, "broken") /\ UNCHANGED resting
  /\ UNCHANGED <<provider, accounts, current>>

\* The other calls of the provider: CurrentIndex and Next store, MarkBad marks.
Others ==
  /\ \/ current' \in Account /\ UNCHANGED resting
     \/ \E a \in Account : Bench({a}) /\ UNCHANGED current
  /\ UNCHANGED <<provider, accounts, call>>

\* A cooldown (15 to 30 seconds) runs out.
Rested(a) ==
  /\ a \in resting
  /\ resting' = resting \ {a}
  /\ UNCHANGED <<provider, accounts, current, call>>

AccountsNext ==
  \/ Begin \/ Probe \/ Store \/ AccountAnswers \/ Others
  \/ \E a \in Account : Rested(a)

AccountsSpec == AccountsInit /\ [][AccountsNext]_accountsVars

-----------------------------------------------------------------------------
\* A call reports failure, or that nobody has the lyrics, only after each
\* account was asked or seen at rest by this very call: the accounts other
\* calls rotated through meanwhile are not lost to it.  Where retries are
\* counted it may also end with more accounts met than it has retries: it never
\* spends two of them on one account while another was not met.
GivesUpAfterAll ==
  call.out = "refused" \/ (call.out = "absent" /\ provider = "apple") =>
    \/ call.met = Account
    \/ /\ call.out = "refused" /\ provider # "musixmatch"
       /\ Cardinality(call.met) > MaxRetries
====
