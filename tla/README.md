# A verification project for the LyricsPlus backend

LyricsPlus answers HTTP requests for the lyrics of a song. It looks in memory, then in a
local SQLite store, and then asks several providers at once and takes the best answer in
time. This directory holds TLA+ models of the parts of it that are concurrent or recover
from failure, TLC configurations that check them on small instances, and proofs, checked by
TLAPS, that hold for every instance. Paths below are relative to `src/`; `orch/` stands for
`internal/orchestrator/` and `stor/` for `internal/storage/`.

Contents: 1 the system, 2 the modules, 3 what the runs show, 4 what is proved, 5 where code
and text disagree, 6 what is left out, 7 the plan, 8 how to run it.

## 1. The system

### How a request travels

    handlers -> service.FetchLyrics / FetchRaw
                  1 negative entry in memory     -> "not found"
                  2 lyrics (raw text) in memory  -> answer
                  3 store: caches, SQLite        -> answer, kept in memory
                  4 Dedup.Get -> one Race per key of the request
                       each source: breaker -> limiter -> provider call
                       each result: SaveResultAsync -> write queue -> SaveLyrics
                  5 answer kept in memory and saved, or the miss kept in memory

Requests share all of this: the three memory entries of a song, the rows and caches of the
store, the running race, the breakers and permits of the providers, the queue.

### Components

| Component | State | Operations | Interacts with |
|---|---|---|---|
| circuit breaker (`orch/breaker.go`) | per provider: failures, trips, open, openUntil, probing, probeAt | Allow, Report, Neutral, Status | called by each fetch of a race and by guarded line sources |
| race (`orch/race.go`, `grade.go`) | per race: statuses, degraded flags, pipeline; per lap: context, channel, grace timer | Race, TryFetch | breaker, limiter, providers, saver |
| dedup (`orch/singleflight.go`) | waiters and cancels per key, the group's flights | Get | race, caller's contexts |
| limiter (`orch/limiter.go`) | one semaphore per source, a global one | Acquire, TryAcquire, release | race, admin test |
| lyrics service (`internal/service`) | memory entries, parsed rows | FetchLyrics, FetchRaw, SaveResultAsync | memory cache, store, dedup |
| lyrics store (`stor/store.go`) | SQLite table, caches by id / title / full text, miss memo, content cache, recent saves, its own breaker | lookups, GetContent, SaveLyrics, SaveLyricsBatch, async saves, search | service, write queue, admin |
| write queue (`stor/writequeue.go`) | buffered channel, closed flag | Submit, worker, Close, CloseWithin | store |
| store administration, merger, dumper (`stor/admin.go`, `merger.go`, `dumper.go`) | none of their own (the dumper: a timer) | list, create, update, delete, merge, dump | store |
| memory cache, watchdog (`stor/memcache.go`, `watchdog.go`) | LRU with a byte count; RSS limit | Get, Set, Shed; check | service, store (Shed) |
| Google Drive sync (`stor/gdrive.go`, `cmd/gdrive_sync`) | remote file list | download, upload, delete duplicates | store files |
| middleware (`internal/api/middleware`) | in-flight count, rate windows per client in shards, failed logins per address, scraping suspicions | one per request | all handlers |
| proof of work, submissions (`api/handlers/pow.go`) | challenges, used nonces | Challenge, Submit | store |
| handlers, server | routes | parse, format, shut down | service, store |
| provider accounts (`providers/accounts.go`) | index, cooldown per account | next, mark | providers |
| providers | tokens with expiry, one HTTP client each | FetchLyrics, TestAuth | race, accounts, proxy |
| DNS cache (`proxy/proxy.go`) | addresses with expiry | lookup | providers |
| account store, tester (`internal/accountmgr`) | the file of accounts | load, edit, save, test | account manager tool |
| parsers, similarity, domain | none | pure conversions, scores, keys | providers, service |
| config, metrics, logger, tools | settings, counters | - | all |

### What is hard, and what makes each part correct

* *Breaker.* Calls admitted at different times report in any order, and the code does not
  tell a probe from a straggler. Correct: one probe at a time, the slot neither leaks nor is
  stolen, only probes extend the cooldown, no provider is locked out for good.
* *Race.* Two laps, goroutines that outlive the race, a grace period, the caller leaving, a
  lap's timeout and answers in any order. Correct: the best answer received is returned, a
  miss is reported and remembered only when it is one, everything that is started ends, what
  was found is saved, and no permit or context is left behind.
* *Dedup.* Callers arrive, leave and lose patience around the life of a flight. Correct: the
  count of waiters is exact, a race is cancelled only when nobody waits, and never left
  running for nobody; all are answered.
* *Limiter.* Nested semaphores with queues, and two kinds of callers. Correct: no permit
  leaks, limits hold, nobody waits for a free permit or for ever.
* *Write queue.* Shedding by several submitters, workers, and a close in the middle. Correct:
  no job is lost, doubled or left behind, no send on a closed channel, Submit never blocks.
* *Store.* Five caches, each with a lock of its own, in front of a database. Correct: a
  write that nobody crosses leaves all of them in step with the row; a rest ends clean.
* *Service.* Entries filled for one request and used for others; marks of misses and of
  saves that outlive their reason. Correct: answers keep to the preference of the request,
  what was found is not lost silently, stale marks do not hide a song for good.
* *Store administration, several songs.* Rows are found by two ids, a title and full text, and
  renamed, rolled back and deleted. Correct: under a row's own keys no cache is older than the
  row, and no remembered miss hides it.
* *Memory cache.* A byte count kept by hand. Correct: it is what is held, and bounds it.
* *Merger.* Transactions per source, interrupts, indexes that are dropped meanwhile. Correct:
  what was merged is kept, at its best version, and found when the merge is over.
* *Drive.* Names that do not identify files, lost answers, cached searches. Correct: an
  overwrite leaves one file, and the cache follows it. *Importer*: a full pass misses nothing,
  and an interrupt ends it.
* *Middleware.* Counters and windows shared by requests that overlap. Correct: the count of
  requests is exact on every way out, a limit holds for every span of time within what two
  fixed windows allow, as does the lockout; the text promises more (section 5).
* *Submissions.* The same lyrics in a store, a file, two caches and a memo of misses. Correct:
  the store never brings back what was replaced, an unforced submission replaces nobody's
  lyrics, and the shutdown waits for uploads.
* *Server.* Two goroutines end the same things. Correct: each is ended once, the store last.
* *Providers.* Rotation without a lock; shared tokens; several searches that fail one by one;
  a source made of two others. Correct: a call gives up only after every account was tried or
  rests, a good token is kept, a failure that is seen is not taken for "no lyrics", and our own
  cancellation is blamed on a provider no longer than the cooldown it leaves.
* *Account file.* Every account twice in a file, more names than a save writes, two formats, two
  readers, saves that fail. Correct: what was saved last is what is read, and no account that a
  save reaches comes back.

`PROJECT.json` lists these hazards at the lines where they bite, with the properties that
cover each.

## 2. The modules

Each module follows one key, song or provider where the code keeps such entries independent,
and says so in its head. Every critical section or atomic call is one action. What the
environment does (answers, timers, cancellations, evictions) is a free choice.

| Module | Models | State and actions |
|---|---|---|
| `Breaker` | the breaker of one provider and its callers | `failures`, `trips`, `open`, `probing` are the fields of `breakerState`; `cool` and `probeAge` are `openUntil` and `probeAt` as timers. `AllowClosed`, `AllowProbe`, `Refuse`: the outcomes of Allow; `ReportOk`, `ReportFailClosed`, `ReportFailOpen`, `Neutral`: how an admitted call ends; `Tick`: time. |
| `Race` | one call of Racer.Race | the collector (`pc`, `lap`), a goroutine per source (`task`), per lap a context, channel, cancelOnce and grace timer. `Launch`, `Receive`, `Abandon`, `ChooseFirst`, `ChooseSecond`: the collector; `Start`, `Answer`, `Judge`, `Finish`: tryFetch, split where the session's lock is released; `MonitorCaller`, `Expire`, `CallerGone`. |
| `Dedup` | Dedup.Get for one key | callers (`Enter`, `Join`, `Take`, `Desert`, `Leave`), the flight (`Register`, `RaceReturns`, `ClearCancel`, `Publish`), its timeout (`Expire`). |
| `Limiter` | Acquire and TryAcquire | `cur`, `queue`: the semaphores, first come first served. One action per semaphore call and per timeout. |
| `WriteQueue` | Submit, workers, Close, and Store.Close | jobs by `phase`, the channel, the workers. `Push`, `Shed`, `Retry`: the selects of Submit. |
| `Store` | one song's row, its caches, lookups and writers | `Lookup` ... `Parse`: service.fromStore, one action per cache or query; `Begin` ... `Return`: a save, a batch, an administrator's update or deletion; `Forget`: eviction and shedding; `rest`: the store's breaker. |
| `SharedFetch` | what Dedup.Get promises (abstract) | callers (`Ask`, `Share`, `GiveUp`, `Return`) and one `search`. `Dedup!ImplementsShared` is the refinement: `Place` and `Search` say where it sees Dedup's state; the tracker and its cancels are hidden. |
| `Rows` | the table of lyrics, the caches by every key and the memo of misses | `table`, `cached`, `missed`; `SaveRow`, `SaveBatch`, `UpdateRow`, `DeleteRows`, `LookUpRow`, `Evicted`, each atomic: `Store` has the interleaving, this module the keys. |
| `MemCache` | the memory cache and the watchdog's shedding | `entries` and which of them was used before which (`older`), `bytes`; `GetEntry`, `SetEntry`, `Shed`, `CacheTick`. |
| `Merger` | MergeDatabases and db_merger | `Prepare`, `Sourced`, `SkipSource`, `Attach`: a source is opened; `Resolve`, `Insert`: a chunk; `PassOver`: a row counted as an error (`passed` keeps which); `CommitResolved`, `CommitInserted`, `Fail`: its two transactions; `Interrupted`, `Restore`. |
| `Drive` | the Google Drive client | `client`: circuit, account, tokens; `found`: the cached searches; `files`: the Drive, external. One action per request, and per use of the cache. |
| `DriveSync` | the bulk importer | main loop (`Loop`, `ListPage`, `SaveCheckpoint`, `Finish`...), workers (`Take`, `Download`), writer, `Interrupt`, `Exit` and `Launch` for a next run. |
| `AccountFile` | the file of accounts, the tool that edits it and the server that reads it | `doc`, `list`: what the tool has in memory; `file`, with what stands under other names and on later lines (`alias`, `stray`, `strayClient`); `beside`: what the server reads before and after it; `Truncate`, `WriteOut`, `SaveFails`: os.WriteFile; `ServerReads`, `Loaded`: both readers. |
| `Gate` | the middleware chain | a request `at` each stage, `inflight`, the windows of each limiter by shard, and the time a request read (`came`, in `AskLimiter`) before it takes the shard's lock (`Allow`); `Screen`, `ApplyRule`, `Query`, `Rate`, `Enter`, `Refuse`, `Handled`. |
| `AdminAuth` | the admin guard | the table of failures; `Look` (isLocked), `Reject` (recordFailure), `Accept` (recordSuccess). |
| `Submissions` | POST of lyrics, the Lyrics+ source, the shutdown | `row`, the memo, the queue of saves, `drive`, `copy`; one action per call to the store or the Drive. |
| `ServerLife` | main, Server and Dumper | `main`, the serving goroutine, the dumper, requests by number, a dump in steps. |
| `Accounts` | AccountManager and the retry loops | one call followed through (`Probe`, `Seek`, `Store`, `AccountAnswers`); all others are `Others`, which stores any index and rests any account at any time. |
| `Tokens` | the credential of an account, in five styles | `cred`, the flight, each user's place; a fetch answered (`TokenGranted`), refused (`Denied`) or garbled. |
| `Fetch` | one FetchLyrics of each provider | the list of searches to make, what they answered (`misread`: an error taken for an empty answer, `ReadAsEmpty`), and the result. |
| `Qaple` | the composed source | its two goroutines, its collector and what it reports to breakers; `login`: the cooldown that a broken login of a line source leaves for other calls (`NextCall`, `OtherCall`, `CoolsDown`). |
| `Service` | requests for one song | the steps of FetchLyrics and FetchRaw by `pc`; `memory`: the three entries; `flight`: the race of each preference; `toMark`, `marks`, `saving`, `rows`: a save on its way. |
| `MC*` | instances | definitions that a .cfg cannot state |
| `*Proofs` | theorems (section 4) | |

Where modules meet, the user sees the used part by what it promises: Race leaves the breaker's
and limiter's answers open and records what it owes them (one report per admitted call, one
release per permit; `Breaker` and `Limiter` take just that for granted); Dedup's race returns
any outcome at any time; Service's race finds any subset of the finders, and its saves get
through or are given up. `Qaple` records what it owes the breakers of its two sides, and
`ServerLife` counts the requests that `Gate` follows one by one.

Operators that begin with the comment "Mutant" are plausible mistakes in the definition that
follows them. They are in no specification. With one of them in its definition's place the
property it is listed with in `PROJECT.json` fails, which shows that the property depends on
that piece of the code.

## 3. What the runs show

| Run | Instance | States | Shows |
|---|---|---|---|
| `breaker` | 3 callers, threshold 2, cooldown 4 to 7, probe timeout 3, calls up to 2 ticks | 22,077 | `SingleProbe`, `OnlyProbesExtend`; a provider that recovers is served (`RecoversWhenHealthy`) |
| `race` | 1 source in lap 1, 2 in lap 2, one of them line-only | 1,020,357 | `ResultIsBest`, `NoEarlyMiss`, `NegativeIsHonestUnlessGone`, `SiblingsGetGrace`, and that all of it ends (`Quiesces`) |
| `dedup` | 3 callers, each any number of times | 36,257 | that it implements SharedFetch (`ImplementsShared`); `NoOrphan`, `EveryGetReturns` |
| `limiter` | 5 callers, 2 sources, limits 2 and 2 | 89,912 | `PermitsExact`, `WaitersServed` |
| `write_queue` | 4 submitters, 2 workers, capacity 2 | 27,801 | `JobsAccounted`, `NoSendOnClosed`, `CloseEnds` |
| `storage` | the parts below | 2,937,332 | `UndisturbedWriteIsSeen` (Store), `OwnKeysAgree` (Rows), `CacheAccounted` (MemCache), `MergedIsKept` and `IndexedWhenDone` (Merger), `OverwriteLeavesOne` and `SearchesAreFresh` (Drive), `FullPassIsComplete` (DriveSync), `SavedIsRead` (AccountFile) |
| `store_stale_content` | 1 lookup, 1 writer | violated | section 5 |
| `store_hidden_row` | 4 requests, 5 lookups, 2 rows | violated | section 5 |
| `service` | 1 request after another, 3 sources (Spotify, which is shown as musixmatch; musixmatch; its word lyrics) of which 2 find lyrics, 2 preferences, lyrics and raw text, forced and from caches only | 4,007,194 | `HonoursPreference`, `FoundIsKept` |
| `service_recovers` | 2 requests, 1 source | 116,641 | `SavedInTheEnd`, `ServedInTheEnd` |
| `server` | the parts below | 2,306,434 | `InflightExact` and `SpanBounded` (Gate), `LockoutHolds` (AdminAuth), `StoreAgreesWithDrive`, `FirstSubmissionStays` and `ShutdownWaitsForUploads` (Submissions), `EndsInOrder` (ServerLife), `GivesUpAfterAll` (Accounts), `GoodTokenKept` (Tokens), `AbsentWasAnswered` (Fetch), `CancelIsBlamedBriefly` (Qaple) |
| `sync_interrupt` | 3 files on 2 pages, 1 worker, a queue of 1 | violated | section 5 |

The parts of `storage` and of `server` share no variable, so that interleaving them would only
multiply their states. `MCStorage` and `MCServer` explore each part by itself: the variable
`part` is chosen at the start, the others' variables rest in an initial state, and the states
of a run are the sum of its parts'. Every property speaks of one part, and holds of the others
at rest.

### Bounds

* *Breaker.* Three callers make a probe, a straggler and a refused caller meet. Threshold 2
  tells a count from a flag; the cooldown doubles once and is then clamped (4, 7), after
  which more trips change nothing (`MaxTripsAssumption` says so). The ticks keep the order of
  the deployed settings: a call (6 s) ends before a probe is given up (12 s) and before a
  cooldown is over (25 s and more).
* *Race.* The second lap needs two sources, one that the upgrade skips. A second source in
  lap 1 adds no new kind of step: siblings are met in lap 2.
* *Dedup.* Three callers: one that starts a flight, one that shares it, one that comes after.
* *Limiter.* Five callers over two sources fill both limits and both kinds of queue.
* *Write queue.* Four jobs for a channel of two and two workers: the queue is full with
  submitters left over, and two of them shed at the same time.
* *Store.* Two writes begun (`MaxWrites`) give an old and a new content and a row that is
  deleted and inserted again; two writers cross each other and the lookup. Readers are alike,
  and so are writers, which is what the symmetry uses.
* *Service.* The sources are two that find lyrics and match under another name than their own
  (Spotify, whose display name leads to `SpotifyShownAs`, and musixmatch's word lyrics), and the
  one they match as; the preferences, any and that one. One request at a time is enough for the
  safety properties, which relate a request to what earlier ones left behind; the proofs cover
  any number. The liveness run has two that share a race, and a source whose raw text may be
  passed over (apple).

* *Rows.* Four kinds of requests: two titles of which one begins with the other, one ISRC with
  two platform ids, a request without ISRC and one without any id; five lookups, two rows and
  three versions (`MaxIDs`, `MaxVersions`): a row can be renamed over another's keys.
* *MemCache.* Three keys for two slots, sizes 0, 1, 2 and 4 for 3 bytes with a largest body of
  4: each reason to evict, refuse and outgrow occurs; a clock of 4 (`CacheEnd`) outlives both
  lifetimes and the shedding's cooldown of 2.
* *Merger.* Two sources (`MaxSources`), a song that all have in versions whose ranks the two
  strategies order differently, and one that only one has.
* *Drive.* Two callers of three operations over two folders, one account, a circuit that opens
  at 2 errors, and two files ever made (`MaxFiles`), which is enough for a double name.
* *DriveSync.* Three files on two pages, two workers and a queue of one: the loop waits for
  room, a checkpoint is ahead of saves, and a run can begin at page 2.
* *AccountFile.* Two accounts (`MaxAccountsInFile`): none, one and several are the cases the
  code tells apart. Every kind of provider begins in either form, with a list or single keys or
  neither, with or without an older list, single key and client under names that no save
  writes, and with or without accounts in what the server reads before and after the file.
* *Gate.* Two connections, three addresses in one shard, limits of 2 per window and 1 at a
  time, a clock of 5 (`GateEnd`): two windows of 2 and the tick that prunes, in which a request
  can also stand at a lock for more than a window. Rules: one that marks and throttles, then
  one that blocks.
* *AdminAuth.* Two attempts from two addresses, a lock after 2 failures, a minute of 2 ticks,
  4 ticks (`AuthEnd`), a table that is swept above 1 entry.
* *Submissions.* Two submitters and one fetcher, with a payload that is first, forced, shorter,
  and incomplete, each once; one caller each is enough to cross.
* *ServerLife*, *Accounts*, *Tokens*. Two requests and two dumps; three accounts and one
  retry (so that a loop may end before or after the accounts do); three users and three
  tokens (`MaxTokens`).
* *Qaple*: a cooldown of two ticks (`CoolTime`), which tells one that runs out from one that is
  drawn out or begun again. *Fetch* has no bounds: its state is finite.

Symmetry: submitters and connections in `server`, readers and writers in `storage`, are alike.

Deadlock is checked except where the system stops: in `race`, `write_queue` (a store closes),
`storage`, `server` and `sync_interrupt` (clocks end, files are full, tools and servers stop).

### Fairness

* *Breaker*: time passes, admitted calls end (their context has a deadline), refused callers
  go on with other work, and requests keep coming. Nothing is assumed of what calls bring.
* *Race*: goroutines that can run do, a lap's context expires (`context.WithTimeout`).
  Providers answer or are cut off by it. Callers need not leave.
* *Dedup*: the callers' and the flight's goroutines run, and Race returns (that is `Quiesces`).
* *Limiter*: callers go on and calls end. Timeouts need not fire, although they do.
* *Write queue*: submitters inside Submit go on (the pause is 2 ms), Close goes on, and the
  5 s timer of CloseWithin fires. Workers are fair only as a premise of `CloseEnds`.
* *DriveSync* (`SyncSpec`): the importer's goroutines run and their downloads and searches end;
  interrupts and new runs need not come. `Exit`, which kills the process, is left out.
* *Service*: handlers run, races end by their timeout, saves and writes by theirs, and
  entries by their time to live. `GoodTimes` is the premise of both liveness properties: from
  some time on no save fails, races find something, and plain requests keep coming.
  `ServedInTheEnd` assumes besides that from some time on those who wait for a race stay.
  Without it neither would hold, and none of it is promised by the code.

## 4. What is proved

All proofs hold for every value of the constants that meets the module's named assumptions,
which say what the constructors guarantee (positive limits, a maximum not below its base) and
that sets of callers are finite where they are counted.

* **`BreakerProofs`.** `TypeCorrect` and `StaysClosedBelowThreshold` without hypothesis.
  `AtMostOneProbe`, `SlotIsExact`, `NoStragglers` and `StragglersAreIgnored` under `Timely`:
  a call is shorter than the probe timeout and than the base cooldown. That is true of the
  defaults but not enforced (the call timeout has no upper bound,
  `internal/config/config.go:1267`). *Inductive invariant* `SlotInv`: the probe's age is that
  of the slot, and a straggler's age plus the cooldown that is left is at least the base
  cooldown, so no straggler outlives it.
* **`DedupProofs`.** Types, `CountIsExact`, `AbandonedRaceStops`, `CancelIsCurrent`,
  `CancelNeedsNobody`, and the refinement `DedupImplementsShared`. `FlightInv` adds `Armed`: a
  running flight that is live has a registered cancel, without which NoOrphan does not survive
  the last Leave; `Decided` and `Told`: a race that returned has an answer, and so has who
  leaves. Each step of Dedup is mapped to a step of SharedFetch or to a stutter by a lemma;
  that only the last one to leave stops a search rests on the exact count of waiters.
* **`WriteQueueProofs`.** Types with the channel's capacity, `EveryJobAccounted`,
  `ClosedChannelIsQuiet`, `CloseDrains`. `QueueInv` adds that workers leave only an empty
  closed channel, that Close is done only when all have left, and that it closes once.
* **`LimiterProofs`.** Types, `NoPermitLeaks`, `LimitsHold`, `NobodyWaitsIdly`. `LimiterInv`
  adds `QueueExact` (a caller is in the queue its place says, once) and `Filled` (a queue
  means a full semaphore): the release that hands permits to the head of a queue needs both.
* **`RaceProofs`.** Types, `MissIsComplete`, `BestIsReturned`, `MissIsHonest`, `SiblingsAreSpared`,
  and `NothingIsLeftBehind`: a permit is held exactly from the launch to the verdict and what a
  goroutine found is saved when it ends, also after the collector has left. `RaceInv` says of each
  source where its outcome is (`Untouched`, `Recorded`, `Skipped`, `Arrived`), that a cancellation
  on record while the caller waits was another race's, of the winner so far that nothing received is
  better (`KeptBest`), and of a caller who waits that nothing is cancelled before a lap is received
  in full or has lyrics.
* **`ServiceProofs`.** Types, `PreferenceHonoured`, `FoundKept`. `ServiceInv` adds that a request
  about to save holds a source's lyrics and that a race has lyrics only of sources it asks.
  `ShownMatches`: the name that lyrics are kept under in memory leads back to their own source, but
  for Spotify, which the property lets pass. `KeptInv` adds that what is marked is in the database,
  on its way, or was given up: otherwise the offer of marked lyrics, which does nothing, could lose
  them.
* **`StoreProofs`**, of the parts of the run `storage`, one section each:
  * `Store`: types, `UndisturbedWritesHeal`, `AwakensClean`. `StoreInv` says how far an
    undisturbed writer has brought the caches at each of its places (`OnItsWay`), and that an
    undisturbed writer is alone (`AloneInv`).
  * `Rows`: `OwnKeysForget`. `RowsInv` adds that a row's file is named after its title and ids,
    so that an upsert on the file's name replaces a row whose keys it forgets.
  * `MemCache`: `CacheCountsExactly`. `CacheInv` adds that a key is held once. With it the bytes
    of what stays and of what goes add up, and forcing the count to zero never changes it.
  * `Merger`: `MergedStays`, `DoneIsIndexed`. `TxHolds`: an open transaction is as good as every
    source merged so far, and as the part of its own source it has done, but for the rows that
    were counted as errors (`Passed`). `Index`: the rows a
    full-text search lacks were all inserted without the trigger, none was there before.
  * `Drive`: `OverwriteLeavesOneFile`, `SearchesStayFresh`. `Knows`: what an undisturbed
    overwrite knows of its folder at each place. `FreshInv`: whoever changed the set of files
    comes by the purge.
  * `DriveSync`: `FirstPassIsWhole`. Each file the pages have listed is stored, in the writer's
    hands, queued, in work or among the failed (`Pending`).
  * `AccountFile`: `SavedAccountsStay`, whatever the number of accounts and whatever order the
    server visits the keys of a file in. `Settled`: nothing that a save reaches contradicts the
    list; `Known`: whatever a reader finds is on it or stands out of reach of a save.
* **`ServerProofs`**, of the parts of the run `server`, likewise:
  * `Gate`: `LimiterCountsExactly`, inductive with the type of `at` (`CountInv`).
    `SpansStayBounded`: an entry knows of every grant in the span (`KnowsSpan`), also after its
    window was started anew and after the shard was pruned, and whoever takes the lock with an
    older time than the one before. The premise `~stalled` says that nobody stood there for more
    than a window.
  * `AdminAuth`: `LockoutLasts`. `CountedFor`: what a record tells of the failures of the last
    minute, for those in its window and for those after a lock, with one more for each request
    that is past the check.
  * `Submissions`: `UploadsAreWaitedFor` (the background count is the uploads, and no handler is
    left when the server waits for them); `NothingComesBack` and `FirstReplacesNobody` from
    `VersionInv`: while nothing crosses a submission it is alone, and the queue, the copies and
    those about to save hold what the Drive has or will have when its upload is done.
  * `ServerLife`: `StoreIsClosedLast`, for any number of requests and dumps.
  * `Accounts`: `GivesUpAtTheEnd`. `Trail`: the accounts a call met and did not ask twice lie in a
    row that ends where it stands, however often the shared index is moved under it.
  * `Tokens`: `AskedOnlyForNeed`, `CooldownSparesGoodTokens`. A refusal writes the cooldown
    whatever the cache holds; what saves a good token is that whoever asks leads
    (`FetcherLeads`) and that nothing is cached while the leader asks (`AskedForNeed`), which
    rests on the second look inside the flight.
  * `Fetch`: `NoAnswerIsNoAbsence`. A fetch that goes on without having heard an answer, or what
    it took for one (`Heard`), remembers that something failed or still has something to ask
    (`AnswerInv`).
  * `Qaple`: `NobodyIsBlamedForLong`. A provider words a cancellation only after there was one,
    and what is left of a cooldown and what has passed of it make no more than the whole
    (`LoginInv`): a refusal never starts it anew.

The assumptions these proofs need beyond positive limits: the sets of submitters, connections and
login attempts are finite (they are counted), the rows of a merge have times that are natural
numbers, the importer has at least one worker, a login's cooldown is not zero, a rule's limit and
window are integers, a lookup of `Rows` by ids has one and a title finds itself in the full-text
index (both are early returns of the lookups), and at most 50 files are ever made in the Drive, as
many as the one page shows that an overwrite's search for a name reads (`MaxFiles`). TLC evaluates
all of them. Where an invariant is about how much of something there is, the models hold it as a set
whose size is taken: the grants and failures of the last while are numbered events, the bytes of an
entry its key with each number up to its size.

Every invariant and every action property of a passing run is now a theorem. Only
model-checked: the liveness properties (`RecoversWhenHealthy`, `Quiesces`, `EveryGetReturns`,
`WaitersServed`, `CloseEnds`, `SavedInTheEnd`, `ServedInTheEnd`), which need fairness and
ENABLED and are beyond the prover, and the violations, which are counterexamples. The theorems
that name no property of a run (types, limits, counts) are what the others rest on.

## 5. Where code and text disagree

* `store_stale_content`: `stor/pool_test.go:170` forbids stale content after an update. A
  lookup that read a row before a save and caches it after the save brings it back, and it
  stays (`stor/store.go:745`).
* `store_hidden_row`: `stor/pool_test.go:131` forbids that a remembered miss hides a row after
  its save. A miss under an ISRC and a platform id stays when a row is saved that has only one
  of the two (`stor/store.go:1020`), although the query would find it by that one.
  `OwnKeysAgree` holds: under the row's own keys nothing is hidden.
* `sync_interrupt`: the importer announces that it flushes and saves a checkpoint at an
  interrupt (`cmd/gdrive_sync/main.go:141`). When its workers have left and the queue is full,
  the main loop waits in a plain send (383) for good, and the signal is not read again.

More are stated in the modules and not checked by a run; each is violated within a minute
when it is put into the .cfg of the instance named, as an `INVARIANT` (`LocksAMinute`: a
`PROPERTY`).

* `Race!NegativeIsHonest` (First = {a}, Rest = {b}): a failing provider must be flagged so that
  a miss is not remembered (`orch/race_breaker_test.go:25`). Status and flag are written in two
  critical sections (`orch/race.go:220,227`); when the caller's context ends in between, the
  result has the status without the flag. While it is alive it is as the test says
  (`NegativeIsHonestUnlessGone`).
* `Dedup!NoWaiterOfCancelledRace` (2 callers): no waiter is to see its race cancelled
  (`orch/limiter_test.go:119`). One that joins after the last of the others left, and before
  the cancelled race has returned, does (`orch/singleflight.go:47-57`). SharedFetch says what
  is left of the promise: its action `Share` joins an abandoned search.
* `Service!ForcedIsFresh` (2 requests, 1 source, plain or forced): `docs/endpoints.md:32` says
  that forceReload races the providers fresh. A forced request joins a race that is already
  running (`orch/singleflight.go:97`).
* `Service!PreferenceIsStrict` (the run `service`): the sources a request names are its "provider
  preference" (`docs/endpoints.md:31`), by which the answers of other sources are turned down.
  Lyrics of Spotify keep the name of the company that provided them as their source
  (`parsers/spotify.go:64`, `providers/spotify.go:279`; the service sets its own name only where
  there is none, `service.go:245,560`). A memory entry is matched by that name (374), and one that
  no source has leads to `lyricsplus` (969): so they are served to requests that name another
  source, and not to those that name Spotify.
* `Gate!SlidingWindow` (the run `server`): `README.md:54`, `docs/architecture.md:36` and
  `docs/endpoints.md:12` call the rate limit a sliding window. The windows are fixed
  (`middleware.go:360`): where two meet, `2 * max - 1` requests of one address are let in within the
  time of one, and two more things come on top. A request that reads the clock (337) and waits for
  the lock (340) is judged by its old time: those that asked before the span and are let in during
  it are one for each connection, and one that stood there for longer than a window may have its
  entry pruned while it counts. `SpanBounded` is what is left of the promise.
* `AdminAuth!MaxStrikesAMinute` (the run `server`): "max 5 failed attempts per IP within 1 minute
  window" (`admin_auth.go:15`). Two windows meet here too, and requests that looked before the lock
  was set are judged after it. `LockoutHolds` has the bound that remains.
* `AdminAuth!LocksAMinute` (the run `server`): "Lock out for 1 minute" (`admin_auth.go:74`, and the
  message at 113). A request that looked before the lock ends it early, by a success, which deletes
  the entry, or by a failure after the window, which begins a fresh one.
* `Fetch!AbsentIsCertain` (the run `server`): a failing provider must not be taken for one without
  lyrics (`orch/race_breaker_test.go:25`). Deezer reads any body of its GraphQL answer, whatever the
  status, and returns nothing and no error when it is not JSON (`deezer.go:513-542`); QQ takes the
  body of an answer with an error code as good (`qqmusic.go:762`) and drops the error of parsing it
  (343); Musixmatch and Spotify pass over some failed answers as empty (`musixmatch.go:1139`,
  `spotify.go:256,264`).
* `Qaple!CancelIsNotBlamed` (the run `server`): a call that its caller cancels "says nothing about
  provider health" (`orch/breaker.go:152`). When one side of the composed source comes back empty it
  cancels the other (`qaple.go:191`), perhaps in the middle of a login. The login then rests as
  after a failure of the provider (`musixmatch.go:452`, `apple.go:588`), and the calls that are
  refused meanwhile are health failures: "cooldown" is a marker of one (`orch/breaker.go:186`).
  `musixmatch-word`, which logs in with the same state, and calls that wait for Apple's login get it
  at once. `CancelIsBlamedBriefly` says that it ends with that cooldown.

Also met, without a text that says otherwise: an update by an administrator keeps the row's creation
time and with it the parsed lyrics of the old content (`service.go:490`); the mark of a recent save
stays when the save is shed (`store.go:951`), so a song may be unsaved for five minutes; the mark of
a miss is shared by requests with other preferences (`service.go:166`); a checkpoint of the importer
counts files that are not saved yet (`cmd/gdrive_sync/main.go:389`), so a run that goes on from it
may lack them; callers that fetch Musixmatch's web token for themselves overwrite a token by a
cooldown (`musixmatch.go:429`); Musixmatch takes a failed lookup of an ISRC for "no lyrics" when it
has nothing else (`musixmatch.go:275`); Shutdown drops the error of its wait for uploads
(`server.go:271`); a crash while the file of accounts is written loses it (`account_store.go:368`);
a failed search makes the Drive client upload a second file of the same name (`gdrive.go:667`); a
request to the Drive that is refused with a word of its quota goes on to the next folder, also when
it was the token's (`gdrive.go:258`); a cancellation that a race gets through a shared login of
Spotify is filed as its own (`race.go:213`, `spotify.go:346,457`); the merger by quality counts rows
that it cannot read or write, and those after a read that broke off are not even counted, and
commits (`merger.go:843-867`); errors of restoring the indexes are dropped (429-444); a dump that
fails leaves a part of its temporary file (`dumper.go:105`). The server takes accounts from places
that the tool neither loads nor clears, so that a removed one may come back: `spotify_dc_cookie`
(`config.go:697`), keys spelled in another case (644), `installed` and `web` wrappers (425),
`accounts_raw` (594), later lines of a .env file with the same key (`account_store.go:579`), and the
files and the environment it reads besides (`config.go:371-390`), among them the .env file that a
conversion to JSON leaves behind.

## 6. What is left out

Statistics, logs and the counts of refusals; the done callback of a queued job, which Submit
never sets; the decoration of answers. In more detail:

* `Race`: names of sources are distinct and known to the Racer or not in the order at all.
* `Breaker`: health is a choice of the caller here and `Unhealthy` in `Race`.
* `Store`: one song with one row; the caches by id and by full text are used and emptied like
  the one by title and artist; an update leaves the song's keys alone; `invalidate` is one
  step; two saves never fall into the same millisecond; the count of errors is capped at the
  threshold, past which nothing depends on it.
* `Service`: one song, that is one ContentKey, so requests that differ in the song do not
  meet. Which of several matching rows is best is not told apart. The queue between the mark
  and the write is one state (`WriteQueue` has the rest). `MarkRecentSave` is atomic: two
  saves that pass its check together write the same row twice. What sources find after their
  race has returned is folded into its return.
* `Rows`: albums and durations, which are part of a file's name; calls are atomic (see `Store`).
* `Merger`: chunks are rows; titles and counts are not kept. A merge that is killed, and not
  interrupted, is not followed.
* `Drive`: a request includes its token's; contents are who wrote them. The remaining quota of
  an account is a refusal like others.
* `AccountFile`: the drive's keys of the root in another case, which both readers find; a JSON file
  that is a bare list, and lists of drives with `|` between them, which the tool does not
  write; a tool that edits a file the server does not read.
* `Gate`: the query's values are within or over their limits, addresses are what ClientIP reads.
  Counters never reach the width of their type within a window.
* `AdminAuth`, `Submissions`: credentials and proofs are good or not; how they are computed is
  left out.
* `Accounts`, `Tokens`, `Fetch`, `Qaple`: what providers send is an answer, a refusal or a
  failure. Scores of candidates and the alignment of lines are abstracted to a choice. Calls of
  `Qaple` come one after another; one that overlaps appears as `OtherCall`, by what it does to
  the logins. The breakers of its sources are a choice of admitting or not.

Not modelled: the parsers and `similarity` (pure conversions and scores of strings,
character by character or in floating point: nothing in them interleaves or fails part way, and
a model would be their transliteration); the DNS cache (a lookup shared by a singleflight
group: the style `flight` of `Tokens`); the request signatures and response formats of
providers and the Drive; logs, metrics, statistics, the API description, the load generator.

## 7. The plan

Every component with state of its own that several goroutines share, or that has to survive a
fault, is modelled. What would add most from here, in this order:

1. A second abstract specification: a cell with caches that are eventually right, for `Store`
   to implement where no write is crossed.
2. What the modules promise each other as one specification each, and proofs that they keep
   it: a pool of permits for `Limiter`, a bag of jobs for `WriteQueue`. Compositions: Dedup with
   Race, Store with WriteQueue.
3. The timing arithmetic of the parsers (TTML clock values, KPOE end times) as operators over
   bounded inputs.

## 8. Running it

    tlc -workers 2 -config MCStorage.cfg MCStorage  # a run of section 3
    tlapm StoreProofs.tla                           # the proofs of a component

`PROJECT.json` gives the module and the .cfg of each run. All runs end within
three minutes, all proofs together in about a quarter of an hour.
