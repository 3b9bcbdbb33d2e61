------------------------------ MODULE MCServer -------------------------------
(* The server around the lyrics service for TLC: what a request meets on its  *)
(* way in, submissions, the providers behind a race, and the process.  They   *)
(* share no state, so one run explores each of them by itself: part says      *)
(* which, and the variables of the others rest.                               *)
EXTENDS Gate, AdminAuth, Submissions, ServerLife, Accounts, Tokens, Fetch, Qaple, TLC

VARIABLE part

Parts == {"gate", "auth", "submissions", "life", "accounts", "tokens", "fetch", "qaple"}

MCSymmetry == Permutations(Submitters) \cup Permutations(Conns)

-----------------------------------------------------------------------------
\* A player, an agent that a rule throttles and the next one blocks, an address
\* on a list, and requests that go no further: each on the shortest way to where
\* it ends.
Asked(path, method, ip, ua, cc, size) ==
  [path |-> path, method |-> method, ip |-> ip, ua |-> ua, cc |-> cc, size |-> size]
MCRuleKinds ==
  {Asked("health", "GET", "ip1", "", "", "ok"), Asked("lyrics", "OPTIONS", "ip1", "", "", "ok"),
   Asked("lyrics", "GET", "ip1", "player", "", "ok"),
   Asked("lyrics", "GET", "ip1", "bot", "india", "ok"),
   Asked("lyrics", "GET", "ip3", "", "", "ok"),
   Asked("health", "GET", "ip2", "", "", "uri"),
   Asked("health", "GET", "ip2", "", "", "params")}
NoList == [ips |-> {}, uas |-> {}, ccs |-> {}]
RuleOf(action, mode, ips, uas, ccs, paths, max) ==
  [action |-> action, mode |-> mode, ips |-> ips, uas |-> uas, ccs |-> ccs,
   paths |-> paths, status |-> 0, max |-> max, window |-> 2]
MCGuard ==
  [enabled |-> TRUE, blockEmptyUA |-> FALSE,
   blocked |-> [NoList EXCEPT !.ips = {"ip3"}],
   cachedOnly |-> [NoList EXCEPT !.ccs = {"india"}],
   rules |-> <<RuleOf("cached_only", "", {}, {"bot"}, {}, {"lyrics"}, 1),
               RuleOf("", "all", {"ip1"}, {"bot"}, {"india"}, {}, 0)>>]
MCShard == [k \in Ips |-> 1]

\* The secret itself, a token signed for something else, and none.
Presented(raw, signed, challenge, where) ==
  [raw |-> raw, signed |-> signed, challenge |-> challenge, expired |-> FALSE,
   admin |-> FALSE, where |-> where]
MCTokens == {Presented(TRUE, FALSE, FALSE, "header"), Presented(FALSE, TRUE, TRUE, "header"),
             Presented(FALSE, FALSE, FALSE, "none")}

\* A first submission, a forced one, one that shortens it, an incomplete one.
Sung(by, sync, text) == [by |-> by, sync |-> sync, text |-> text, negative |-> FALSE]
Payload(l, force, complete) ==
  [lyrics |-> l, force |-> force, complete |-> complete, proof |-> "solved"]
MCPayloads == {Payload(Sung("ann", 2, "long"), FALSE, TRUE), Payload(Sung("bob", 1, "long"), TRUE, TRUE),
               Payload(Sung("bob", 2, "short"), FALSE, TRUE), Payload(Sung("bob", 1, "long"), TRUE, FALSE)}
MCOnDrive == Sung("eve", 2, "long")

-----------------------------------------------------------------------------
\* Each part begins in each of its initial states; at rest it is in one.
ServerInit ==
  /\ part \in Parts
  /\ GateInit /\ AuthInit /\ LifeInit
  /\ SubInit
  /\ part # "submissions" => copy = NoLyrics
  /\ AccountsInit
  /\ part # "accounts" => provider = "apple" /\ accounts = 1
  /\ TokensInit
  /\ part # "tokens" => style = "apple"
  /\ FetchInit
  /\ part # "fetch" => source = "spotify" /\ query = [id |-> TRUE, isrc |-> FALSE, terms |-> 0]
  /\ QapleInit
  /\ part # "qaple" => ~forced

GateRests == UNCHANGED gateVars
AuthRests == UNCHANGED authVars
SubmissionsRest == UNCHANGED subVars
LifeRests == UNCHANGED lifeVars
AccountsRest == UNCHANGED accountsVars
TokensRest == UNCHANGED tokensVars
FetchIdle == UNCHANGED fetchVars
QapleRests == UNCHANGED qapleVars
ProvidersRest == AccountsRest /\ TokensRest /\ FetchIdle /\ QapleRests
EntryRests == GateRests /\ AuthRests /\ SubmissionsRest /\ LifeRests

ServerNext ==
  /\ part' = part
  /\ \/ /\ part = "gate" /\ GateNext
        /\ AuthRests /\ SubmissionsRest /\ LifeRests /\ ProvidersRest
     \/ /\ part = "auth" /\ AuthNext
        /\ GateRests /\ SubmissionsRest /\ LifeRests /\ ProvidersRest
     \/ /\ part = "submissions" /\ SubNext
        /\ GateRests /\ AuthRests /\ LifeRests /\ ProvidersRest
     \/ /\ part = "life" /\ LifeNext
        /\ GateRests /\ AuthRests /\ SubmissionsRest /\ ProvidersRest
     \/ /\ part = "accounts" /\ AccountsNext
        /\ EntryRests /\ TokensRest /\ FetchIdle /\ QapleRests
     \/ /\ part = "tokens" /\ TokensNext
        /\ EntryRests /\ AccountsRest /\ FetchIdle /\ QapleRests
     \/ /\ part = "fetch" /\ FetchNext
        /\ EntryRests /\ AccountsRest /\ TokensRest /\ QapleRests
     \/ /\ part = "qaple" /\ QapleNext
        /\ EntryRests /\ AccountsRest /\ TokensRest /\ FetchIdle

ServerSpec ==
  ServerInit /\ [][ServerNext]_<<part, gateVars, authVars, subVars, lifeVars,
                                 accountsVars, tokensVars, fetchVars, qapleVars>>
=============================================================================
