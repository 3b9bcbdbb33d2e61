----------------------------- MODULE Submissions -----------------------------
(***************************************************************************)
(* User lyrics of one track: submitted with a proof of work (internal/api/ *)
(* handlers/pow.go), kept in the store and in a Drive file, and fetched by *)
(* the Lyrics+ source (internal/providers/lyricsplus.go), which copies the *)
(* Drive's version back into the store; and the shutdown that waits for    *)
(* uploads (internal/api/server.go).                                       *)
(*                                                                         *)
(* The store is its row, the memo of misses and the queue of its one       *)
(* writer; its other caches are Store's.  The Drive is the file and the    *)
(* client's cache of its content; its requests are Drive's.                *)
(***************************************************************************)
EXTENDS Integers, Sequences, FiniteSets

CONSTANTS
  Submitters,   \* requests to POST the lyrics, one each
  Fetchers,     \* calls of LyricsPlusProvider.FetchLyrics, one each
  Payloads,     \* what may be submitted: [lyrics, force, complete, proof]
  OnDrive,      \* the lyrics in the Drive's file at the start
  AcceptVandal,
  Faults        \* whether the store may rest and the Drive may fail

ASSUME SubmissionsAssumption ==
  /\ AcceptVandal \in BOOLEAN /\ Faults \in BOOLEAN
  /\ IsFiniteSet(Submitters)

VARIABLES
  row,        \* the lyrics of the store's row
  missed,     \* the miss memo holds the track
  queue,      \* the writes before the worker: [lyrics, why]
  writing,    \* the worker has written and not yet invalidated
  drive,      \* the lyrics of the Drive's file
  copy,       \* GDriveClient.fileCache for that file
  sub,        \* each submission: [pc, lyrics, force, existing]
  fetch,      \* each fetch: [pc, known, got]
  background, \* Pow.background
  server,     \* "up", "draining", "waiting", "down" or "late"
  crossed     \* history: a submission overlapped something, or something failed

subVars == <<row, missed, queue, writing, drive, copy, sub, fetch, background,
             server, crossed>>

NoLyrics == [by |-> "nobody", sync |-> 0, text |-> "none", negative |-> FALSE]

\* getSyncPriority: 3 word, 2 line, 1 neither, 0 no lyrics.
HasWordSync(l) == l.sync = 3

\* A text is "none", "short" or "long": long has 100 letters and over, short
\* less than a fifth of that.
IsVandalismUpdate(prev, next) ==
  \/ next.sync = 0
  \/ next.negative
  \/ next.text = "none"
  \/ prev.text = "long" /\ next.text = "short"

\* Verify: a challenge of the Issuer that is signed and young, and a nonce that
\* solves it.  Nothing remembers a token: it is good until it expires.
Verified(p) == p.proof = "solved"

IdleSub == [pc |-> "idle", lyrics |-> NoLyrics, force |-> FALSE, existing |-> NoLyrics]
IdleFetch == [pc |-> "idle", known |-> NoLyrics, got |-> NoLyrics]
EndedFetch == [IdleFetch EXCEPT !.pc = "ended"]

SubInit ==
  /\ row = NoLyrics /\ missed = FALSE /\ queue = <<>> /\ writing = FALSE
  /\ drive = OnDrive /\ copy \in {NoLyrics, OnDrive} \* it may have been fetched before
  /\ sub = [s \in Submitters |-> IdleSub]
  /\ fetch = [f \in Fetchers |-> IdleFetch]
  /\ background = 0 /\ server = "up" /\ crossed = FALSE

-----------------------------------------------------------------------------
SameStore == UNCHANGED <<row, missed, queue, writing>>
SameDrive == UNCHANGED <<drive, copy>>

SubsRest == \A s \in Submitters : sub[s].pc \in {"idle", "ended"}
WritesRest == queue = <<>> /\ ~writing
FetchesRest == \A f \in Fetchers : fetch[f].pc \in {"idle", "ended"}

SubStep(s, pc) == sub' = [sub EXCEPT ![s].pc = pc]
EndSub(s) == sub' = [sub EXCEPT ![s] = [IdleSub EXCEPT !.pc = "ended"]]
FetchStep(f, r) == fetch' = [fetch EXCEPT ![f] = r]

\* GetUserLyrics: what the memo or the row answers, or nothing when the store
\* rests or the query fails.
Seen == IF missed THEN NoLyrics ELSE row
MaySee == {Seen} \cup (IF Faults THEN {NoLyrics} ELSE {})
Missed(seen) == seen = NoLyrics /\ ~missed /\ row = NoLyrics

\* SaveUserLyricsAsync, which does nothing when the store rests.
SaveUser(l, why) ==
  \/ queue' = Append(queue, [lyrics |-> l, why |-> why]) /\ UNCHANGED crossed
  \/ Faults /\ UNCHANGED queue /\ crossed' = TRUE

-----------------------------------------------------------------------------
(* Submit *)

\* What is refused before the lookup, and the rest.
Submit(s, p) ==
  /\ sub[s].pc = "idle" /\ server = "up"
  /\ IF Verified(p) /\ p.complete
     THEN sub' = [sub EXCEPT ![s] = [IdleSub EXCEPT !.pc = "look", !.lyrics = p.lyrics,
                                                    !.force = p.force]]
     ELSE EndSub(s)
  /\ crossed' = (crossed \/ ~SubsRest \/ ~WritesRest \/ ~FetchesRest)
  /\ SameStore /\ SameDrive
  /\ UNCHANGED <<fetch, background, server>>

\* findExistingLyricsPlus.  A miss is noted after the query.
LookUp(s) ==
  /\ sub[s].pc = "look"
  /\ \E seen \in MaySee :
       /\ sub' = [sub EXCEPT ![s].pc = IF Missed(seen) THEN "note" ELSE "judge",
                             ![s].existing = seen]
       /\ crossed' = (crossed \/ seen # Seen)
  /\ SameStore /\ SameDrive
  /\ UNCHANGED <<fetch, background, server>>

NoteMiss(s) ==
  /\ sub[s].pc = "note"
  /\ missed' = TRUE /\ crossed' = (crossed \/ row # NoLyrics)
  /\ SubStep(s, "judge")
  /\ SameDrive
  /\ UNCHANGED <<row, queue, writing, fetch, background, server>>

Accepted(s) ==
  /\ sub[s].existing = NoLyrics \/ sub[s].force
  /\ AcceptVandal \/ ~IsVandalismUpdate(sub[s].existing, sub[s].lyrics)

\* Mutant: the count goes up in the goroutine, when it runs.
CountLater == UNCHANGED background

Count == background' = background + 1

\* The answer, after the save and the start of the upload's goroutine.
Judge(s) ==
  /\ sub[s].pc = "judge"
  /\ IF Accepted(s)
     THEN /\ SaveUser(sub[s].lyrics, IF sub[s].force THEN "forced" ELSE "first")
          /\ Count
          /\ SubStep(s, "upload")
     ELSE EndSub(s) /\ UNCHANGED <<queue, background, crossed>>
  /\ SameDrive
  /\ UNCHANGED <<row, missed, writing, fetch, server>>

\* UploadUserLyrics.  A failed upload is only logged; its request may have
\* been served all the same.
Upload(s) ==
  /\ sub[s].pc = "upload"
  /\ \/ /\ drive' = sub[s].lyrics
        /\ SubStep(s, "uploaded")
        /\ UNCHANGED <<background, crossed>>
     \/ /\ Faults
        /\ drive' \in {drive, sub[s].lyrics}
        /\ EndSub(s)
        /\ background' = background - 1 /\ crossed' = TRUE
  /\ SameStore
  /\ UNCHANGED <<copy, fetch, server>>

\* Mutant: the content cache keeps the content that was replaced.
KeepCopy == UNCHANGED copy

DropCopy == copy' = NoLyrics

\* The end of doUpdateMultipart, and of the goroutine.
Uploaded(s) ==
  /\ sub[s].pc = "uploaded"
  /\ DropCopy
  /\ background' = background - 1
  /\ EndSub(s)
  /\ SameStore
  /\ UNCHANGED <<drive, fetch, server, crossed>>

-----------------------------------------------------------------------------
(* The store's writer *)

\* A job that finds the store resting, or the database busy, writes nothing.
WriteUser ==
  /\ queue # <<>> /\ ~writing
  /\ queue' = Tail(queue)
  /\ \/ row' = Head(queue).lyrics /\ writing' = TRUE /\ UNCHANGED crossed
     \/ Faults /\ crossed' = TRUE /\ UNCHANGED <<row, writing>>
  /\ SameDrive
  /\ UNCHANGED <<missed, sub, fetch, background, server>>

\* Mutant: the memo of misses is left alone.
LeaveMemo == UNCHANGED missed

ForgetMiss == missed' = FALSE

Invalidate ==
  /\ writing
  /\ writing' = FALSE
  /\ ForgetMiss
  /\ SameDrive
  /\ UNCHANGED <<row, queue, sub, fetch, background, server, crossed>>

\* The memo's entry expires, or either cache is full.
Evict ==
  /\ missed' = FALSE /\ copy' \in {copy, NoLyrics}
  /\ <<missed, copy>> # <<missed', copy'>>
  /\ UNCHANGED <<row, queue, writing, drive, sub, fetch, background, server, crossed>>

-----------------------------------------------------------------------------
(* FetchLyrics *)

\* The store first, unless the caller forces a reload (and then no Drive
\* either); word-synced lyrics end the fetch.
FetchStore(f) ==
  /\ fetch[f].pc = "idle" /\ server = "up"
  /\ crossed' = (crossed \/ ~SubsRest \/ ~WritesRest)
  /\ \E seen \in MaySee :
       /\ ~HasWordSync(seen)
       /\ FetchStep(f, [pc |-> IF Missed(seen) THEN "note" ELSE "drive",
                        known |-> seen, got |-> NoLyrics])
  /\ SameStore /\ SameDrive
  /\ UNCHANGED <<sub, background, server>>

NoteFetchMiss(f) ==
  /\ fetch[f].pc = "note"
  /\ missed' = TRUE /\ crossed' = (crossed \/ row # NoLyrics)
  /\ FetchStep(f, [fetch[f] EXCEPT !.pc = "drive"])
  /\ SameDrive
  /\ UNCHANGED <<row, queue, writing, sub, background, server>>

\* FetchFile: the cached content, or a request and then the cache.  The search
\* may find no file, the request fail, or the Drive's budget end.
FetchFile(f) ==
  /\ fetch[f].pc = "drive"
  /\ \/ FetchStep(f, [fetch[f] EXCEPT !.pc = "qaple"])
     \/ copy # NoLyrics /\ FetchStep(f, [fetch[f] EXCEPT !.pc = "keep", !.got = copy])
     \/ /\ copy = NoLyrics /\ drive # NoLyrics
        /\ FetchStep(f, [fetch[f] EXCEPT !.pc = "fill", !.got = drive])
  /\ SameStore /\ SameDrive
  /\ UNCHANGED <<sub, background, server, crossed>>

FillCopy(f) ==
  /\ fetch[f].pc = "fill"
  /\ copy' = fetch[f].got
  /\ FetchStep(f, [fetch[f] EXCEPT !.pc = "keep"])
  /\ SameStore
  /\ UNCHANGED <<drive, sub, background, server, crossed>>

\* The Drive's lyrics replace what the store had, for this answer and in the
\* store; word-synced ones end the fetch.
KeepFetched(f) ==
  /\ fetch[f].pc = "keep"
  /\ SaveUser(fetch[f].got, "drive")
  /\ FetchStep(f, IF HasWordSync(fetch[f].got) THEN EndedFetch
                  ELSE [pc |-> "qaple", known |-> fetch[f].got, got |-> NoLyrics])
  /\ SameDrive
  /\ UNCHANGED <<row, missed, writing, sub, background, server>>

\* Qaple's lyrics are the answer when nothing is known or their sync is better;
\* nothing is stored.
Qaple(f) ==
  /\ fetch[f].pc = "qaple"
  /\ FetchStep(f, EndedFetch)
  /\ SameStore /\ SameDrive
  /\ UNCHANGED <<sub, background, server, crossed>>

-----------------------------------------------------------------------------
(* Server.Shutdown *)

Handling(s) == sub[s].pc \in {"look", "note", "judge"}

\* The listener closes; then the handlers are waited for, then the uploads,
\* each until the one context of the shutdown ends.
Shutdown ==
  /\ \/ server = "up" /\ server' = "draining"
     \/ /\ server = "draining" /\ \A s \in Submitters : ~Handling(s)
        /\ server' = "waiting"
     \/ server = "waiting" /\ background = 0 /\ server' = "down"
     \/ server \in {"draining", "waiting"} /\ server' = "late"
  /\ SameStore /\ SameDrive
  /\ UNCHANGED <<sub, fetch, background, crossed>>

SubNext ==
  \/ \E s \in Submitters :
       \/ \E p \in Payloads : Submit(s, p)
       \/ LookUp(s) \/ NoteMiss(s) \/ Judge(s) \/ Upload(s) \/ Uploaded(s)
  \/ \E f \in Fetchers :
       \/ FetchStore(f) \/ NoteFetchMiss(f) \/ FetchFile(f)
       \/ FillCopy(f) \/ KeepFetched(f) \/ Qaple(f)
  \/ WriteUser \/ Invalidate \/ Evict \/ Shutdown

SubSpec == SubInit /\ [][SubNext]_subVars

-----------------------------------------------------------------------------
\* When nothing is under way, and no submission overlapped anything and nothing
\* failed, the store has the lyrics of the Drive's file or none: no cache
\* brings lyrics back that were replaced (lyricsplus.go:173-229, pow.go:148-176).
StoreAgreesWithDrive ==
  SubsRest /\ WritesRest /\ FetchesRest /\ ~crossed => row \in {drive, NoLyrics}

\* A submission without force never replaces somebody's lyrics in the store,
\* unless it overlapped something or a lookup or save failed
\* (pow.go:148-161): a miss that was noted earlier does not hide them.
FirstSubmissionStays ==
  [][WriteUser /\ Head(queue).why = "first" /\ row' # row => crossed \/ row = NoLyrics]_subVars

\* A shutdown that was not out of time has waited for every upload, those of
\* the requests it found in their handlers included (server.go:262-274).
ShutdownWaitsForUploads ==
  server = "down" =>
    \A s \in Submitters : sub[s].pc \in {"idle", "ended"}
=============================================================================
