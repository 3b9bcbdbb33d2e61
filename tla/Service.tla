------------------------------- MODULE Service -------------------------------
(***************************************************************************)
(* Answering requests for one song (internal/service/service.go): the      *)
(* negative mark, the lyrics and the raw text in memory, the store, the    *)
(* shared race, and the background saving of what a race finds.            *)
(*                                                                         *)
(* One song means one ContentKey: the three memory entries are shared by   *)
(* requests with different preferred sources, the races are not (their key *)
(* holds the preference).  Lyrics are known by their source.  Race, Dedup, *)
(* WriteQueue and Store have modules of their own and appear here by what  *)
(* a request sees of them.                                                 *)
(***************************************************************************)
EXTENDS Sequences, Functions, Integers

CONSTANTS
  Requests,  \* requests being served
  Sources,   \* the providers' names
  Finders,   \* those that have lyrics of the song
  Prefs,     \* the preferred sources of a request, in order; << >> for none
  Calls,     \* [kind, mode]: what a request asks for and how
  SpotifyShownAs  \* the source that Spotify's display name leads back to

Kinds == {"lyrics", "raw"}
Modes == {"plain", "forced", "cacheOnly"}

ASSUME ServiceAssumption ==
  /\ "none" \notin Sources /\ Finders \subseteq Sources
  /\ Prefs \subseteq Seq(Sources) /\ Prefs # {}
  /\ Calls \subseteq [kind : Kinds, mode : Modes]
  /\ "musixmatch-word" \in Sources => "musixmatch" \in Sources
  /\ "spotify" \in Sources => SpotifyShownAs \in Sources

VARIABLES
  req,      \* each request: its place, what it asks for and what it has
  memory,   \* the memory cache: the source the lyrics are of, the source the raw
            \* text is of and the one it is kept as, and the mark of a miss
  flight,   \* the race of each preference, and which sources found lyrics
  toMark,   \* sources whose goroutine is about to call SaveResultAsync
  marks,    \* recentSave
  saving,   \* marked, and on the way through the write queue
  rows,     \* rows in the database
  found,    \* history: sources that ever found lyrics
  lost      \* history: sources whose last save to end was given up

saves == <<toMark, marks, saving, rows, found, lost>>
vars == <<req, memory, flight, saves>>

None == "none"
Name == Sources \cup {None}

Places ==
  {"done", "negative", "memory", "store", "join", "wait", "save", "keep", "keepRaw", "negate"}
Request ==
  [pc : Places, pref : Prefs, kind : Kinds, mode : Modes, hand : Name,
   via : {None, "memory", "store", "race"}, late : BOOLEAN]
Flight == [on : BOOLEAN, got : SUBSET Sources]
RawText == [of : Name, as : Name]

TypeOK ==
  /\ req \in [Requests -> Request]
  /\ memory \in [lyrics : Name, raw : RawText, miss : BOOLEAN]
  /\ flight \in [Prefs -> Flight]
  /\ {toMark, marks, saving, rows, found, lost} \subseteq SUBSET Sources

NoRequest ==
  [pc |-> "done", pref |-> CHOOSE p \in Prefs : TRUE, kind |-> "lyrics",
   mode |-> "plain", hand |-> None, via |-> None, late |-> FALSE]
NoFlight == [on |-> FALSE, got |-> {}]
NoRaw == [of |-> None, as |-> None]

Init ==
  /\ req = [r \in Requests |-> NoRequest]
  /\ memory = [lyrics |-> None, raw |-> NoRaw, miss |-> FALSE]
  /\ flight = [p \in Prefs |-> NoFlight]
  /\ toMark = {} /\ marks = {} /\ saving = {} /\ rows = {}
  /\ found = {} /\ lost = {}

At(r, place) == req[r].pc = place
Goes(r, place) == req' = [req EXCEPT ![r].pc = place]
Fails(r) == req' = [req EXCEPT ![r] = NoRequest]

-----------------------------------------------------------------------------
(* Sources and preferences *)

\* The source that the name shown with a result leads back to.  Musixmatch's
\* word and line lyrics carry one name.  Spotify's carry the name of whoever
\* provided them, which may be another source's.
Shown(s) ==
  CASE s = "musixmatch-word" -> "musixmatch"
    [] s = "spotify" -> SpotifyShownAs
    [] OTHER -> s

\* sourcePriority: where in the preference a source matches.
AllChoices(s, p) ==
  {i \in DOMAIN p : p[i] = s \/ (p[i] = "musixmatch" /\ s = "musixmatch-word")}
Matches(s, p) == p = << >> \/ AllChoices(s, p) # {}
FirstChoice(s, p) == p = << >> \/ 1 \in AllChoices(s, p)

\* The sources a race asks: SourceOrder.
Asked(p) == IF p = << >> THEN Sources ELSE Range(p)

-----------------------------------------------------------------------------
(* The request: FetchLyrics and FetchRaw *)

\* Only what is cached is served to cache-only requests, also forced ones.
Arrive(r) ==
  /\ At(r, "done")
  /\ \E p \in Prefs, c \in Calls :
       req' = [req EXCEPT ![r] =
         [pc |-> IF c.mode = "forced" THEN "join" ELSE "negative",
          pref |-> p, kind |-> c.kind, mode |-> c.mode, hand |-> None, via |-> None,
          late |-> c.mode = "forced" /\ flight[p].on]]
  /\ UNCHANGED <<memory, flight, saves>>

Negative(r) ==
  /\ At(r, "negative")
  /\ IF memory.miss THEN Fails(r) ELSE Goes(r, "memory")
  /\ UNCHANGED <<memory, flight, saves>>

\* What is in memory: the source it is of, and the one it passes for.
InMemory(kind) == IF kind = "lyrics" THEN memory.lyrics ELSE memory.raw.of
PassesFor(kind) == IF kind = "lyrics" THEN Shown(memory.lyrics) ELSE memory.raw.as

MemoryHit(r) ==
  /\ At(r, "memory")
  /\ InMemory(req[r].kind) # None /\ Matches(PassesFor(req[r].kind), req[r].pref)
  /\ req' = [req EXCEPT ![r].pc = "done", ![r].hand = InMemory(req[r].kind),
                        ![r].via = "memory"]
  /\ UNCHANGED <<memory, flight, saves>>

\* Apple's raw text is passed over when it is not the original one.
MemoryMiss(r) ==
  /\ At(r, "memory")
  /\ \/ InMemory(req[r].kind) = None \/ ~Matches(PassesFor(req[r].kind), req[r].pref)
     \/ req[r].kind = "raw" /\ memory.raw.as = "apple"
  /\ Goes(r, "store")
  /\ UNCHANGED <<memory, flight, saves>>

\* Mutant: the source of the row that was read is not checked again.
ServableUnchecked(p) == IF \E s \in rows : FirstChoice(s, p) THEN rows ELSE {}

\* The rows a lookup may end with.  It goes on only with a row of the first
\* choice, but where that cannot be read it takes another row of the song.
Servable(p) ==
  IF \E s \in rows : FirstChoice(s, p) THEN {s \in rows : FirstChoice(s, p)} ELSE {}

\* fromStore; the store may rest and its queries may fail.  Lyrics go on to
\* the memory cache.
StoreHit(r) ==
  /\ At(r, "store")
  /\ \E s \in Servable(req[r].pref) :
       req' = [req EXCEPT ![r].pc = IF req[r].kind = "lyrics" THEN "keep" ELSE "done",
                          ![r].hand = s, ![r].via = "store"]
  /\ UNCHANGED <<memory, flight, saves>>

StoreMiss(r) ==
  /\ At(r, "store")
  /\ IF req[r].mode = "cacheOnly" THEN Fails(r) ELSE Goes(r, "join")
  /\ UNCHANGED <<memory, flight, saves>>

\* Dedup.Get: join the race of the same preference, or start one.
Join(r) ==
  /\ At(r, "join")
  /\ LET p == req[r].pref IN
     flight' = [flight EXCEPT ![p].on = TRUE]
  /\ Goes(r, "wait")
  /\ UNCHANGED <<memory, saves>>

GiveUp(r) ==
  /\ At(r, "wait")
  /\ Fails(r)
  /\ UNCHANGED <<memory, flight, saves>>

\* cacheNegative
Negate(r) ==
  /\ At(r, "negate")
  /\ memory' = [memory EXCEPT !.miss = TRUE]
  /\ Fails(r)
  /\ UNCHANGED <<flight, saves>>

\* cacheResponse: lyrics and raw text are two entries.
Keep(r) ==
  /\ At(r, "keep")
  /\ memory' = [memory EXCEPT !.lyrics = req[r].hand]
  /\ Goes(r, "keepRaw")
  /\ UNCHANGED <<flight, saves>>

\* The raw text of a row is kept as what its lyrics are shown as.
KeptAs(r) == IF req[r].via = "store" THEN Shown(req[r].hand) ELSE req[r].hand

\* There may be no raw text: nothing is cached, and a request for it fails.
KeepRaw(r) ==
  /\ At(r, "keepRaw")
  /\ \/ /\ memory' = [memory EXCEPT !.raw = [of |-> req[r].hand, as |-> KeptAs(r)]]
        /\ Goes(r, "done")
     \/ /\ IF req[r].kind = "raw" THEN Fails(r) ELSE Goes(r, "done")
        /\ UNCHANGED memory
  /\ UNCHANGED <<flight, saves>>

-----------------------------------------------------------------------------
(* The race of a preference *)

\* A source finds lyrics, which its goroutine hands to the saver.
Find(p, s) ==
  /\ flight[p].on
  /\ s \in (Asked(p) \cap Finders) \ flight[p].got
  /\ flight' = [flight EXCEPT ![p].got = @ \cup {s}]
  /\ toMark' = toMark \cup {s}
  /\ found' = found \cup {s}
  /\ UNCHANGED <<req, memory, marks, saving, rows, lost>>

\* The race of p returns to those who wait for it.  Sources still out may find
\* lyrics afterwards, and hand them to the saver all the same.
Land(p, place, s) ==
  /\ flight[p].on
  /\ flight' = [flight EXCEPT ![p] = NoFlight]
  /\ req' = [r \in Requests |->
       IF req[r].pref # p THEN req[r]
       ELSE IF ~At(r, "wait") THEN [req[r] EXCEPT !.late = FALSE]
       ELSE IF place = "done" THEN NoRequest
       ELSE [req[r] EXCEPT !.pc = IF place = "save" /\ req[r].kind = "raw" THEN "keepRaw" ELSE place,
                           !.hand = s, !.via = "race", !.late = FALSE]]
  /\ \E after \in SUBSET ((Asked(p) \cap Finders) \ flight[p].got) :
       toMark' = toMark \cup after /\ found' = found \cup after
  /\ UNCHANGED <<memory, marks, saving, rows, lost>>

LandWithLyrics(p) == \E s \in flight[p].got : Land(p, "save", s)

\* Nothing was found, or the race ended before it took what was found: the
\* miss is remembered when it looks honest (shouldCacheNegativeResult).
LandEmpty(p) == \E place \in {"negate", "done"} : Land(p, place, None)

-----------------------------------------------------------------------------
(* Saving: SaveResultAsync, called by the source's goroutine and by requests *)

\* Mutant: one mark for all sources of the song.
MarkedAtAll(s) == marks # {}

\* MarkRecentSave
Marked(s) == s \in marks

\* A save ends without a row: the store rests, the queue is full or closed,
\* or the write fails.
GiveUpSave(s) == lost' = lost \cup {s}

\* What is marked is not saved again.
Offer(s) ==
  IF Marked(s)
    THEN UNCHANGED <<marks, saving>>
    ELSE marks' = marks \cup {s} /\ saving' = saving \cup {s}

SaverOffers(s) ==
  /\ s \in toMark
  /\ toMark' = toMark \ {s}
  /\ Offer(s)
  /\ UNCHANGED <<req, memory, flight, rows, found, lost>>

Save(r) ==
  /\ At(r, "save")
  /\ Goes(r, "keep")
  /\ Offer(req[r].hand)
  /\ UNCHANGED <<memory, flight, toMark, rows, found, lost>>

Write(s) ==
  /\ s \in saving
  /\ saving' = saving \ {s}
  /\ rows' = rows \cup {s}
  /\ lost' = lost \ {s}
  /\ UNCHANGED <<req, memory, flight, toMark, marks, found>>

\* The store rests before the save is marked, or the save fails later: then
\* its mark stays.
SaveFails ==
  \/ \E s \in toMark :
       /\ toMark' = toMark \ {s} /\ GiveUpSave(s)
       /\ UNCHANGED <<req, memory, flight, marks, saving, rows, found>>
  \/ \E r \in Requests :
       /\ At(r, "save") /\ Goes(r, "keep") /\ GiveUpSave(req[r].hand)
       /\ UNCHANGED <<memory, flight, toMark, marks, saving, rows, found>>
  \/ \E s \in saving :
       /\ saving' = saving \ {s} /\ GiveUpSave(s)
       /\ UNCHANGED <<req, memory, flight, toMark, marks, rows, found>>

-----------------------------------------------------------------------------
(* Time, eviction and memory pressure take entries away *)

\* Mutant: marks are kept for good.
NoMarkExpires(s) == FALSE /\ UNCHANGED vars

MarkExpires(s) ==
  /\ s \in marks
  /\ marks' = marks \ {s}
  /\ UNCHANGED <<req, memory, flight, toMark, saving, rows, found, lost>>

Forget(entry, nothing) ==
  /\ memory[entry] # nothing
  /\ memory' = [memory EXCEPT ![entry] = nothing]
  /\ UNCHANGED <<req, flight, saves>>

\* Mutant: the mark of a miss has no time to live.
NoMissForgotten == FALSE /\ UNCHANGED vars

LyricsForgotten == Forget("lyrics", None)
RawForgotten == Forget("raw", NoRaw)
MissForgotten == Forget("miss", FALSE)

-----------------------------------------------------------------------------
Fetch(r) ==
  \/ Negative(r) \/ MemoryHit(r) \/ MemoryMiss(r) \/ StoreHit(r) \/ StoreMiss(r)
  \/ Join(r) \/ Save(r) \/ Keep(r) \/ KeepRaw(r) \/ Negate(r)

Landing(p) == LandWithLyrics(p) \/ LandEmpty(p)

Next ==
  \/ \E r \in Requests : Arrive(r) \/ GiveUp(r) \/ Fetch(r)
  \/ \E p \in Prefs : Landing(p) \/ \E s \in Sources : Find(p, s)
  \/ \E s \in Sources : SaverOffers(s) \/ Write(s) \/ MarkExpires(s)
  \/ SaveFails
  \/ LyricsForgotten \/ RawForgotten \/ MissForgotten

Spec == Init /\ [][Next]_vars

\* Handlers run, races end by their timeout, saves and writes end by theirs,
\* and each entry ends by its time to live.
Fairness ==
  /\ \A r \in Requests : WF_vars(Fetch(r))
  /\ \A p \in Prefs : WF_vars(Landing(p))
  /\ \A s \in Sources :
       WF_vars(SaverOffers(s)) /\ WF_vars(Write(s)) /\ WF_vars(MarkExpires(s))
  /\ WF_vars(LyricsForgotten) /\ WF_vars(MissForgotten)

FairSpec == Spec /\ Fairness

-----------------------------------------------------------------------------
(* Properties *)

\* An answer is of a source the request named, and one from the store of the
\* source it named first, although the caches and the rows were filled for
\* requests with other preferences (TestFromStoreSourceFiltering).  What is of
\* Spotify may come from memory in the name it is shown with: see the README,
\* section 5.
HonoursPreference ==
  \A r \in Requests :
    LET q == req[r] IN
    q.hand # None =>
      CASE q.via = "store" -> FirstChoice(q.hand, q.pref)
        [] q.via = "race" -> Matches(q.hand, q.pref)
        [] q.via = "memory" ->
             \/ Matches(q.hand, q.pref)
             \/ q.hand = "spotify" /\ Matches(SpotifyShownAs, q.pref)

\* The same without Spotify's exemption.  It does not hold: see the README,
\* section 5.
PreferenceIsStrict ==
  \A r \in Requests : req[r].hand # None => Matches(req[r].hand, req[r].pref)

\* On its way to the database.
Underway ==
  toMark \cup saving \cup {req[r].hand : r \in {x \in Requests : At(x, "save")}}

\* Lyrics that a source ever found are in the database or on their way there,
\* unless a save of them was given up: neither a request that leaves, nor a
\* race that is over, nor the mark of an earlier save drops them silently.
FoundIsKept == found \subseteq rows \cup Underway \cup lost

\* From now on no save is given up, every race finds something, and requests
\* that may ask the sources keep coming.  (Two steps are alike where nothing
\* tells them apart, and stay allowed: giving up again what is marked and was
\* given up, and offering what is marked; a race ends for nobody with lyrics or
\* without.  A write is never like a failed one: only that adds to "lost".)
GoodTimes ==
  /\ <>[][SaveFails => (\E s \in Sources : SaverOffers(s)) \/ (\E r \in Requests : Save(r))]_vars
  /\ <>[][\A p \in Prefs : LandEmpty(p) => LandWithLyrics(p)]_vars
  /\ []<>(\E r \in Requests : req[r].pc = "negative" /\ req[r].mode = "plain")

\* However many saves were given up before, a song that is still asked for and
\* found reaches the database: no stale mark keeps it out for good.
SavedInTheEnd == GoodTimes => <>(rows # {})

\* However many misses were remembered before, requests are answered with
\* lyrics again, when those that wait for a race do not all leave it.
ServedInTheEnd ==
  GoodTimes /\ <>[][\A r \in Requests : ~GiveUp(r)]_vars =>
    []<>(\E r \in Requests : req[r].pc = "done" /\ req[r].hand # None)

\* forceReload "bypasses every cache layer and races providers fresh"
\* (docs/endpoints.md:32): a forced request waits for no race that was under
\* way before it came.  It does not hold: see the README, section 5.
ForcedIsFresh == \A r \in Requests : At(r, "wait") => ~req[r].late
=============================================================================
