-------------------------------- MODULE Gate --------------------------------
(***************************************************************************)
(* What a request meets before its handler (internal/api/middleware, in    *)
(* the order of newRouter): CORS, the external scraping guard with its     *)
(* rules, the limits on the query, the rate limiter, the concurrency       *)
(* limiter, and around them all the panic recovery.  The rate limiters     *)
(* (the server's and one for each throttled rule) keep fixed windows       *)
(* behind a mutex for each shard, and read the clock before they take it;  *)
(* the concurrency limiter is one atomic counter.  Requests overlap freely *)
(* between those points.                                                   *)
(***************************************************************************)
EXTENDS Integers, Sequences, FiniteSets, SequencesExt, Functions

CONSTANTS
  Conns,      \* connections: each carries one request at a time
  RuleKinds,      \* the requests that may come: [path, method, ip, ua, cc, size]
  Ips,        \* client addresses, as ClientIP reads them
  ShardOf,    \* fnv32(key) % numShards, for each address
  Guard,      \* config.ExternalScraping
  MaxRate,    \* RateLimit.Requests, no limit when not positive
  RateWindow, \* RateLimit.Window
  MaxConc,    \* Server.MaxConcurrency, no limit when not positive
  GateEnd     \* bound of the clock

ASSUME GateAssumption ==
  /\ IsFiniteSet(Conns)
  /\ MaxRate \in Int /\ MaxConc \in Int
  /\ RateWindow \in Nat \ {0}
  /\ GateEnd \in Nat
  /\ \A i \in DOMAIN Guard.rules : {Guard.rules[i].max, Guard.rules[i].window} \subseteq Int

VARIABLES
  at,       \* where each connection's request is
  conn,     \* the request
  rule,     \* the rule it meets next
  cached,   \* whether it may only be served from the caches
  came,     \* the time it read on its way to a limiter
  inflight, \* ConcurrencyLimiter's counter
  entry,    \* perIP of each limiter
  pruned,   \* lastPrune of each limiter's shards
  clock,
  recent,   \* history: the grants of each limiter to each address, a window back
  stalled      \* history: a request stood at a lock for more than a window

gateVars == <<at, conn, rule, cached, came, inflight, entry, pruned, clock, recent, stalled>>

-----------------------------------------------------------------------------
(* The guard's configuration, as NewExternalScraping compiles it *)

CountryCode ==
  [india |-> "IN", indonesia |-> "ID", mexico |-> "MX", philippines |-> "PH",
   brazil |-> "BR", usa |-> "US", peru |-> "PE", colombia |-> "CO",
   germany |-> "DE", france |-> "FR", canada |-> "CA", russia |-> "RU",
   japan |-> "JP", china |-> "CN"] @@
  ("united states" :> "US") @@ ("south africa" :> "ZA") @@ ("united kingdom" :> "GB") @@
  ("great britain" :> "GB")

\* A code of two letters stands for itself, and so does a name that is not
\* listed, both in capitals: so "uk" is UK, and not the kingdom's GB.
NormalizeCountry(c) == IF c \in DOMAIN CountryCode THEN CountryCode[c] ELSE c

Countries(ccs) == {NormalizeCountry(c) : c \in ccs \ {""}}

\* A rule's limiter: [max, window], max = 0 when it has none.
RuleLimiter(r) ==
  IF r.max > 0 THEN [max |-> r.max, window |-> IF r.window > 0 THEN r.window ELSE 10]
  ELSE [max |-> IF r.action = "throttle" THEN 60 ELSE 0, window |-> 10]

Compile(r) ==
  [action |-> IF r.action = "" THEN "block" ELSE r.action,
   mode |-> IF r.mode = "" THEN "any" ELSE r.mode,
   ips |-> r.ips \ {""}, uas |-> r.uas \ {""}, ccs |-> Countries(r.ccs),
   paths |-> r.paths \ {""}, status |-> r.status, limiter |-> RuleLimiter(r)]

Rules == [i \in DOMAIN Guard.rules |-> Compile(Guard.rules[i])]

\* The server's limiter is number 0, that of rule i is number i.
Limiters == {0} \cup DOMAIN Rules
Limit(l) == IF l = 0 THEN MaxRate ELSE Rules[l].limiter.max
Window(l) == IF l = 0 THEN RateWindow ELSE Rules[l].limiter.window

\* A matcher is the set of the addresses or agents that it matches.
RuleMatches(r, q) ==
  LET asked == {f \in {"ips", "uas", "ccs"} : r[f] # {}}
      hit == {f \in asked : CASE f = "ips" -> q.ip \in r.ips
                              [] f = "uas" -> q.ua \in r.uas
                              [] f = "ccs" -> NormalizeCountry(q.cc) \in r.ccs}
  IN /\ r.paths # {} => q.path \in r.paths
     /\ \/ asked = {}
        \/ IF r.mode = "all" THEN hit = asked ELSE hit # {}

ListMatches(list, q) ==
  \/ q.ip \in list.ips \ {""}
  \/ q.ua \in list.uas \ {""}
  \/ q.cc # "" /\ NormalizeCountry(q.cc) \in Countries(list.ccs)

IsHealthPath(q) == q.path = "health"

-----------------------------------------------------------------------------
(* The sharded rate limiter *)

NoEntry == [start |-> 0, count |-> 0, last |-> -1]

\* Mutant: the entries that were used lately are dropped as well.
PruneAll(l, s, now) ==
  IF now - pruned[l][s] > 2 * Window(l)
  THEN [k \in Ips |-> IF ShardOf[k] = s THEN NoEntry ELSE entry[l][k]]
  ELSE entry[l]

\* What a shard holds after the pruning at the head of allow.
Prune(l, s, now) ==
  IF now - pruned[l][s] > 2 * Window(l)
  THEN [k \in Ips |-> IF ShardOf[k] = s /\ entry[l][k].last < now - 2 * Window(l)
                      THEN NoEntry ELSE entry[l][k]]
  ELSE entry[l]

\* The entry is new, or its window is over: never for a clock read before it
\* was opened.
Opens(l, e, now) == e = NoEntry \/ now - e.start >= Window(l)

Admits(l, e, now) == Opens(l, e, now) \/ e.count < Limit(l)

Charged(l, e, now) ==
  CASE Opens(l, e, now) -> [start |-> now, count |-> 1, last |-> now]
    [] ~Opens(l, e, now) /\ e.count < Limit(l) ->
         [e EXCEPT !.count = @ + 1, !.last = now]
    [] OTHER -> [e EXCEPT !.last = now]

\* The history with one more grant, unless it asked before the span: when it
\* asked, in which window it was let in, and its number at that time.
Noted(l, k, e, now) ==
  IF now <= clock - Window(l) THEN recent[l][k]
  ELSE recent[l][k] \cup
         {[time |-> now, start |-> e.start,
           n |-> 1 + Cardinality({g \in recent[l][k] : g.time = now})]}

\* allow: one critical section of the key's shard, for a clock read before it.
Allow(l, k, now) ==
  LET s == ShardOf[k]
      tab == Prune(l, s, now)
      e == Charged(l, tab[k], now)
  IN /\ entry' = [entry EXCEPT ![l] = [tab EXCEPT ![k] = e]]
     /\ pruned' = IF now - pruned[l][s] > 2 * Window(l)
                  THEN [pruned EXCEPT ![l][s] = now] ELSE pruned
     /\ recent' = IF Admits(l, tab[k], now)
                  THEN [recent EXCEPT ![l][k] = Noted(l, k, e, now)] ELSE recent
     /\ stalled' = (stalled \/ clock - now > Window(l))

Granted(l, k, now) == Admits(l, Prune(l, ShardOf[k], now)[k], now)

-----------------------------------------------------------------------------
NoConn == CHOOSE q \in RuleKinds : TRUE

GateInit ==
  /\ at = [c \in Conns |-> "idle"]
  /\ conn = [c \in Conns |-> NoConn]
  /\ rule = [c \in Conns |-> 1]
  /\ cached = [c \in Conns |-> FALSE]
  /\ came = [c \in Conns |-> 0]
  /\ inflight = 0
  /\ entry = [l \in Limiters |-> [k \in Ips |-> NoEntry]]
  /\ pruned = [l \in Limiters |-> [s \in Range(ShardOf) |-> 0]]
  /\ clock = 0
  /\ recent = [l \in Limiters |-> [k \in Ips |-> {}]]
  /\ stalled = FALSE

Pass(c, there) ==
  /\ at' = [at EXCEPT ![c] = there]
  /\ came' = [came EXCEPT ![c] = 0]
  /\ UNCHANGED <<conn, rule, cached>>

\* The request reads the clock and goes to wait for the limiter's lock.
AskLimiter(c, there) ==
  /\ at' = [at EXCEPT ![c] = there]
  /\ came' = [came EXCEPT ![c] = clock]
  /\ UNCHANGED <<conn, rule, cached>>

\* The status is written and the request is over.
Answer(c, status) ==
  /\ at' = [at EXCEPT ![c] = "idle"]
  /\ conn' = [conn EXCEPT ![c] = NoConn]
  /\ rule' = [rule EXCEPT ![c] = 1]
  /\ cached' = [cached EXCEPT ![c] = FALSE]
  /\ came' = [came EXCEPT ![c] = 0]

SameLimits == UNCHANGED <<entry, pruned, recent, stalled>>

ArriveAtGate(c, q) ==
  /\ at[c] = "idle"
  /\ IF q.method = "OPTIONS" THEN Answer(c, 204)
     ELSE /\ at' = [at EXCEPT ![c] = IF Guard.enabled THEN "screen" ELSE "query"]
          /\ conn' = [conn EXCEPT ![c] = q]
          /\ UNCHANGED <<rule, cached, came>>
  /\ SameLimits
  /\ UNCHANGED <<inflight, clock>>

\* The lists of the guard, before its rules.
Screen(c) ==
  /\ at[c] = "screen"
  /\ IF IsHealthPath(conn[c]) THEN Pass(c, "query")
     ELSE IF \/ Guard.blockEmptyUA /\ conn[c].ua = ""
             \/ ListMatches(Guard.blocked, conn[c])
     THEN Answer(c, 403)
     ELSE /\ cached' = [cached EXCEPT ![c] = ListMatches(Guard.cachedOnly, conn[c])]
          /\ at' = [at EXCEPT ![c] = "rules"]
          /\ UNCHANGED <<conn, rule, came>>
  /\ SameLimits
  /\ UNCHANGED <<inflight, clock>>

NextRule(c, mark) ==
  /\ at' = [at EXCEPT ![c] = "rules"]
  /\ rule' = [rule EXCEPT ![c] = @ + 1]
  /\ cached' = [cached EXCEPT ![c] = @ \/ mark]
  /\ came' = [came EXCEPT ![c] = 0]
  /\ UNCHANGED conn

Marks(r) == r.action \in {"cached_only", "cache_only"}

Throttles(r) == (Marks(r) \/ r.action \in {"throttle", "rate_limit"}) /\ r.limiter.max > 0

\* One rule: its block, or its mark, or first its limiter.
ApplyRule(c) ==
  LET r == Rules[rule[c]]
  IN /\ at[c] = "rules" /\ rule[c] \in DOMAIN Rules
     /\ IF ~RuleMatches(r, conn[c]) THEN NextRule(c, FALSE)
        ELSE IF r.action \in {"block", "deny"}
        THEN Answer(c, IF r.status <= 0 THEN 403 ELSE r.status)
        ELSE IF Throttles(r) THEN AskLimiter(c, "throttle")
        ELSE NextRule(c, Marks(r))
     /\ SameLimits
     /\ UNCHANGED <<inflight, clock>>

Throttle(c) ==
  /\ at[c] = "throttle"
  /\ Allow(rule[c], conn[c].ip, came[c])
  /\ IF Granted(rule[c], conn[c].ip, came[c]) THEN NextRule(c, Marks(Rules[rule[c]]))
     ELSE Answer(c, 429)
  /\ UNCHANGED <<inflight, clock>>

RulesDone(c) ==
  /\ at[c] = "rules" /\ rule[c] \notin DOMAIN Rules
  /\ Pass(c, "query")
  /\ SameLimits
  /\ UNCHANGED <<inflight, clock>>

\* QueryLimits, and the head of RateLimiter's allow: nothing shared is between.
Query(c) ==
  /\ at[c] = "query"
  /\ CASE conn[c].size = "uri" -> Answer(c, 414)
       [] conn[c].size = "params" -> Answer(c, 400)
       [] OTHER -> IF IsHealthPath(conn[c]) THEN Pass(c, "health")
                   ELSE IF MaxRate > 0 THEN AskLimiter(c, "rate")
                   ELSE Pass(c, "enter")
  /\ SameLimits
  /\ UNCHANGED <<inflight, clock>>

\* RateLimiter
Rate(c) ==
  /\ at[c] = "rate"
  /\ Allow(0, conn[c].ip, came[c])
  /\ IF Granted(0, conn[c].ip, came[c]) THEN Pass(c, "enter") ELSE Answer(c, 429)
  /\ UNCHANGED <<inflight, clock>>

\* ConcurrencyLimiter: the addition.
Enter(c) ==
  /\ at[c] = "enter"
  /\ inflight' = inflight + 1
  /\ Pass(c, IF MaxConc > 0 /\ inflight + 1 > MaxConc THEN "busy" ELSE "inside")
  /\ SameLimits
  /\ UNCHANGED clock

\* Mutant: the refusal returns before the deferred subtraction is in place.
RefuseAndKeep(c) ==
  /\ at[c] = "busy"
  /\ Answer(c, 503)
  /\ SameLimits
  /\ UNCHANGED <<inflight, clock>>

\* A refused request counts until its answer is written.
Refuse(c) ==
  /\ at[c] = "busy"
  /\ inflight' = inflight - 1
  /\ Answer(c, 503)
  /\ SameLimits
  /\ UNCHANGED clock

\* The handler returns, or panics: then the deferred subtraction runs first
\* and the recovery answers.
Handled(c, status) ==
  /\ at[c] = "inside"
  /\ inflight' = inflight - 1
  /\ Answer(c, status)
  /\ SameLimits
  /\ UNCHANGED clock

HealthHandled(c, status) ==
  /\ at[c] = "health"
  /\ Answer(c, status)
  /\ SameLimits
  /\ UNCHANGED <<inflight, clock>>

GateTick ==
  /\ clock < GateEnd
  /\ clock' = clock + 1
  /\ recent' = [l \in Limiters |-> [k \in Ips |->
                  {g \in recent[l][k] : g.time > clock + 1 - Window(l)}]]
  /\ UNCHANGED <<at, conn, rule, cached, came, inflight, entry, pruned, stalled>>

GateNext ==
  \/ \E c \in Conns :
       \/ \E q \in RuleKinds : ArriveAtGate(c, q)
       \/ Screen(c) \/ ApplyRule(c) \/ Throttle(c) \/ RulesDone(c)
       \/ Query(c) \/ Rate(c) \/ Enter(c) \/ Refuse(c)
       \/ \E status \in {200, 500} : Handled(c, status) \/ HealthHandled(c, status)
  \/ GateTick

GateSpec == GateInit /\ [][GateNext]_gateVars

-----------------------------------------------------------------------------
\* The counter is the requests between its two ends, refused ones included,
\* and no more than MaxConc of them run a handler (middleware.go:175-199):
\* a request that is refused, or whose handler panics, gives its count back.
InflightExact ==
  LET inside == {c \in Conns : at[c] = "inside"}
  IN /\ inflight = Cardinality(inside) + Cardinality({c \in Conns : at[c] = "busy"})
     /\ MaxConc > 0 => Cardinality(inside) <= MaxConc

\* Of the requests of an address that ask within a span as long as the window,
\* no more than 2 * max - 1 are let in: the fixed windows can meet, but whoever
\* overtakes whom between the clock and the lock, a window is neither opened
\* again nor reopened in the past, and pruning never forgets one that still
\* counts.  That is while nobody stands at the lock for more than a window:
\* then the entry would take that old time for its last use, and be pruned
\* (middleware.go:333-391).  A request that asked before the span and is let in
\* during it comes on top, one for each connection.
SpanBounded ==
  ~stalled => \A l \in Limiters, k \in Ips :
             Limit(l) > 0 => Cardinality(recent[l][k]) <= 2 * Limit(l) - 1

\* README.md:54, docs/architecture.md:36 and docs/endpoints.md:12 call it a
\* sliding window.  It is not one: two fixed windows that meet hold nearly twice that.
SlidingWindow ==
  \A l \in Limiters, k \in Ips : Limit(l) > 0 => Cardinality(recent[l][k]) <= Limit(l)
=============================================================================
