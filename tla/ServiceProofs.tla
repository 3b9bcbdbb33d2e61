---------------------------- MODULE ServiceProofs ----------------------------
(***************************************************************************)
(* Proofs about the service: types, preferences, and the saving of what    *)
(* races find, for any requests, sources and preferences.                  *)
(***************************************************************************)
EXTENDS Service, TLAPS

(***************************************************************************)
(* Helpers                                                                 *)
(***************************************************************************)

\* What a source is shown as is a source.
LEMMA ShownIsName ==
  ASSUME NEW s \in Name
  PROVE  Shown(s) \in Name
<1>1. CASE s = "musixmatch-word"
  BY <1>1, ServiceAssumption DEF ServiceAssumption, Shown, Name, None
<1>2. CASE s = "spotify"
  BY <1>2, ServiceAssumption DEF ServiceAssumption, Shown, Name, None
<1>3. CASE s # "musixmatch-word" /\ s # "spotify"
  BY <1>3 DEF Shown
<1> QED
  BY <1>1, <1>2, <1>3

LEMMA NoRequestIsOne == NoRequest \in Request
<1>1. (CHOOSE p \in Prefs : TRUE) \in Prefs
  BY ServiceAssumption DEF ServiceAssumption
<1> QED
  BY <1>1 DEF NoRequest, Request, Places, Kinds, Modes, Name, None

LEMMA InitTypes == Init => TypeOK
  BY NoRequestIsOne DEF Init, TypeOK, NoFlight, Flight, NoRaw, RawText, Name

\* A request goes on, ends without an answer, or takes lyrics along.
LEMMA GoesTypes ==
  ASSUME TypeOK, NEW r \in Requests, NEW place \in Places, Goes(r, place)
  PROVE  req' \in [Requests -> Request]
  BY DEF TypeOK, Goes, Request

LEMMA FailsTypes ==
  ASSUME TypeOK, NEW r \in Requests, Fails(r)
  PROVE  req' \in [Requests -> Request]
  BY NoRequestIsOne DEF TypeOK, Fails

LEMMA TakesTypes ==
  ASSUME TypeOK, NEW r \in Requests, NEW place \in Places, NEW s \in Name,
         NEW v \in {None, "memory", "store", "race"},
         req' = [req EXCEPT ![r].pc = place, ![r].hand = s, ![r].via = v]
  PROVE  req' \in [Requests -> Request]
<1>1. req \in [Requests -> Request]
  BY DEF TypeOK
<1>2. req[r] \in Request
  BY <1>1
<1>3. [req[r] EXCEPT !.pc = place, !.hand = s, !.via = v] \in Request
  BY <1>2 DEF Request
<1>4. \A x \in Requests :
        req'[x] = IF x = r
          THEN [req[r] EXCEPT !.pc = place, !.hand = s, !.via = v] ELSE req[x]
  BY <1>1
<1>5. \A x \in Requests : req'[x] \in Request
  BY <1>1, <1>3, <1>4
<1>6. req' = [x \in Requests |-> req'[x]]
  BY <1>1
<1> QED
  BY <1>5, <1>6

LEMMA ArriveTypes ==
  ASSUME TypeOK, NEW r \in Requests, Arrive(r)
  PROVE  TypeOK'
<1>1. PICK p \in Prefs, c \in Calls :
        req' = [req EXCEPT ![r] =
          [pc |-> IF c.mode = "forced" THEN "join" ELSE "negative",
           pref |-> p, kind |-> c.kind, mode |-> c.mode, hand |-> None, via |-> None,
           late |-> c.mode = "forced" /\ flight[p].on]]
  BY DEF Arrive
<1>2. c.kind \in Kinds /\ c.mode \in Modes
  BY ServiceAssumption DEF ServiceAssumption
<1>3. [pc |-> IF c.mode = "forced" THEN "join" ELSE "negative",
       pref |-> p, kind |-> c.kind, mode |-> c.mode, hand |-> None, via |-> None,
       late |-> c.mode = "forced" /\ flight[p].on] \in Request
  BY <1>2 DEF Request, Places, Name
<1>4. req' \in [Requests -> Request]
  BY <1>1, <1>3 DEF TypeOK
<1> QED
  BY <1>4 DEF Arrive, saves, TypeOK

LEMMA NegativeTypes ==
  ASSUME TypeOK, NEW r \in Requests, Negative(r)
  PROVE  TypeOK'
<1>1. "memory" \in Places
  BY DEF Places
<1>2. req' \in [Requests -> Request]
  BY <1>1, GoesTypes, FailsTypes DEF Negative
<1> QED
  BY <1>2 DEF Negative, saves, TypeOK

LEMMA MemoryTypes ==
  ASSUME TypeOK, NEW r \in Requests, MemoryHit(r) \/ MemoryMiss(r)
  PROVE  TypeOK'
<1>1. InMemory(req[r].kind) \in Name
  BY DEF TypeOK, InMemory, RawText
<1>2. "done" \in Places /\ "store" \in Places
  BY DEF Places
<1>3. req' \in [Requests -> Request]
  <2>1. CASE MemoryHit(r)
    BY <2>1, <1>1, <1>2, TakesTypes DEF MemoryHit
  <2>2. CASE MemoryMiss(r)
    BY <2>2, <1>2, GoesTypes DEF MemoryMiss
  <2> QED
    BY <2>1, <2>2
<1> QED
  BY <1>3 DEF MemoryHit, MemoryMiss, saves, TypeOK

LEMMA StoreTypes ==
  ASSUME TypeOK, NEW r \in Requests, StoreHit(r) \/ StoreMiss(r)
  PROVE  TypeOK'
<1>1. "done" \in Places /\ "keep" \in Places /\ "join" \in Places
  BY DEF Places
<1>2. req' \in [Requests -> Request]
  <2>1. CASE StoreHit(r)
    <3>1. PICK s \in Servable(req[r].pref) :
            req' = [req EXCEPT ![r].pc = IF req[r].kind = "lyrics" THEN "keep" ELSE "done",
                               ![r].hand = s, ![r].via = "store"]
      BY <2>1 DEF StoreHit
    <3>2. s \in Name
      BY <3>1 DEF Servable, TypeOK, Name
    <3>3. CASE req[r].kind = "lyrics"
      BY <3>1, <3>2, <3>3, <1>1, TakesTypes
    <3>4. CASE req[r].kind # "lyrics"
      BY <3>1, <3>2, <3>4, <1>1, TakesTypes
    <3> QED
      BY <3>3, <3>4
  <2>2. CASE StoreMiss(r)
    BY <2>2, <1>1, GoesTypes, FailsTypes DEF StoreMiss
  <2> QED
    BY <2>1, <2>2
<1> QED
  BY <1>2 DEF StoreHit, StoreMiss, saves, TypeOK

LEMMA WaitTypes ==
  ASSUME TypeOK, NEW r \in Requests, Join(r) \/ GiveUp(r)
  PROVE  TypeOK'
<1>1. "wait" \in Places
  BY DEF Places
<1>2. req' \in [Requests -> Request]
  BY <1>1, GoesTypes, FailsTypes DEF Join, GiveUp
<1>3. req[r].pref \in Prefs
  BY DEF TypeOK, Request
<1>4. flight' \in [Prefs -> Flight]
  <2>1. CASE flight' = flight
    BY <2>1 DEF TypeOK
  <2>2. CASE Join(r)
    <3>1. flight \in [Prefs -> Flight] /\ flight[req[r].pref] \in Flight
      BY <1>3 DEF TypeOK
    <3>2. [flight[req[r].pref] EXCEPT !.on = TRUE] \in Flight
      BY <3>1 DEF Flight
    <3>3. flight' = [flight EXCEPT ![req[r].pref] = [flight[req[r].pref] EXCEPT !.on = TRUE]]
      BY <2>2 DEF Join
    <3> QED
      BY <1>3, <3>1, <3>2, <3>3
  <2> QED
    BY <2>1, <2>2 DEF GiveUp
<1> QED
  BY <1>2, <1>4 DEF Join, GiveUp, saves, TypeOK

LEMMA CacheTypes ==
  ASSUME TypeOK, NEW r \in Requests, Negate(r) \/ Keep(r) \/ KeepRaw(r)
  PROVE  TypeOK'
<1>1. "done" \in Places /\ "keepRaw" \in Places
  BY DEF Places
<1>2. req[r].hand \in Name
  BY DEF TypeOK, Request
<1>3. Shown(req[r].hand) \in Name
  BY <1>2, ShownIsName
<1>4. req' \in [Requests -> Request]
  BY <1>1, GoesTypes, FailsTypes DEF Negate, Keep, KeepRaw
<1>5. memory' \in [lyrics : Name, raw : RawText, miss : BOOLEAN]
  <2>1. [of |-> req[r].hand, as |-> KeptAs(r)] \in RawText
    BY <1>2, <1>3 DEF KeptAs, RawText
  <2>2. CASE Negate(r)
    BY <2>2 DEF Negate, TypeOK
  <2>3. CASE Keep(r)
    BY <1>2, <2>3 DEF Keep, TypeOK
  <2>4. CASE KeepRaw(r)
    <3> DEFINE new == [of |-> req[r].hand, as |-> KeptAs(r)]
    <3>1. new \in RawText
      BY <2>1
    <3>2. memory' = memory \/ memory' = [memory EXCEPT !.raw = new]
      BY <2>4 DEF KeepRaw
    <3> HIDE DEF new
    <3> QED
      BY <3>1, <3>2 DEF TypeOK
  <2> QED
    BY <2>2, <2>3, <2>4
<1> QED
  BY <1>4, <1>5 DEF Negate, Keep, KeepRaw, saves, TypeOK

\* What the background does to the sets and to the races.
LEMMA FindTypes ==
  ASSUME TypeOK, NEW p \in Prefs, NEW s \in Sources, Find(p, s)
  PROVE  TypeOK'
<1>1. flight' \in [Prefs -> Flight]
  <2>1. [flight[p] EXCEPT !.got = flight[p].got \cup {s}] \in Flight
    BY DEF TypeOK, Flight
  <2>2. flight' = [flight EXCEPT ![p] = [flight[p] EXCEPT !.got = flight[p].got \cup {s}]]
    BY DEF Find, TypeOK, Flight
  <2> QED
    BY <2>1, <2>2 DEF TypeOK
<1> QED
  BY <1>1 DEF Find, TypeOK

LEMMA LandTypes ==
  ASSUME TypeOK, NEW p \in Prefs, NEW place \in {"save", "negate", "done"},
         NEW s \in Name, Land(p, place, s)
  PROVE  TypeOK'
<1>1. flight' \in [Prefs -> Flight]
  BY DEF Land, TypeOK, NoFlight, Flight
<1>2. \A q \in Request, at \in Places :
        [q EXCEPT !.pc = at, !.hand = s, !.via = "race", !.late = FALSE] \in Request
  BY DEF Request
<1>3. \A q \in Request : [q EXCEPT !.late = FALSE] \in Request
  BY DEF Request
<1>4. \A r \in Requests : req[r] \in Request
  BY DEF TypeOK
<1>5. place \in Places /\ "keepRaw" \in Places
  BY DEF Places
<1>6. req' \in [Requests -> Request]
  BY <1>2, <1>3, <1>4, <1>5, NoRequestIsOne DEF Land
<1>7. toMark' \subseteq Sources /\ found' \subseteq Sources
  BY ServiceAssumption DEF ServiceAssumption, Land, TypeOK
<1> QED
  BY <1>1, <1>6, <1>7 DEF Land, TypeOK

LEMMA LandingTypes ==
  ASSUME TypeOK, NEW p \in Prefs, Landing(p)
  PROVE  TypeOK'
<1>1. flight[p].got \subseteq Name /\ None \in Name
  BY DEF TypeOK, Flight, Name
<1> QED
  BY <1>1, LandTypes DEF Landing, LandWithLyrics, LandEmpty

LEMMA OfferTypes ==
  ASSUME TypeOK, NEW s \in Sources, Offer(s)
  PROVE  marks' \subseteq Sources /\ saving' \subseteq Sources
  BY DEF TypeOK, Offer

(***************************************************************************)
(* The invariant behind the types and the preferences: a request that is   *)
(* about to save holds a source's lyrics, and a race has lyrics only of    *)
(* sources it asks.                                                        *)
(***************************************************************************)

SaverHasLyrics == \A r \in Requests : At(r, "save") => req[r].hand \in Sources

GotWasAsked == \A p \in Prefs : flight[p].got \subseteq Asked(p)

\* The raw text in memory passes for what it is, or for what it is shown as.
PassesWell ==
  memory.raw.as = memory.raw.of \/ memory.raw.as = Shown(memory.raw.of)

\* What HonoursPreference says of one request.
Honours(q) ==
  q.hand # None =>
    CASE q.via = "store" -> FirstChoice(q.hand, q.pref)
      [] q.via = "race" -> Matches(q.hand, q.pref)
      [] q.via = "memory" ->
           \/ Matches(q.hand, q.pref)
           \/ q.hand = "spotify" /\ Matches(SpotifyShownAs, q.pref)

ServiceInv == TypeOK /\ SaverHasLyrics /\ GotWasAsked /\ PassesWell /\ HonoursPreference

\* A preference that matches what a source is shown as matches the source,
\* but for Spotify.
LEMMA ShownMatches ==
  ASSUME NEW s, NEW p, Matches(Shown(s), p)
  PROVE  Matches(s, p) \/ (s = "spotify" /\ Matches(SpotifyShownAs, p))
<1>1. CASE s = "musixmatch-word"
  <2>1. Shown(s) = "musixmatch"
    BY <1>1 DEF Shown
  <2> QED
    BY <1>1, <2>1 DEF Matches, AllChoices
<1>2. CASE s = "spotify"
  <2>1. Shown(s) = SpotifyShownAs
    BY <1>2 DEF Shown
  <2> QED
    BY <1>2, <2>1
<1>3. CASE s # "musixmatch-word" /\ s # "spotify"
  <2>1. Shown(s) = s
    BY <1>3 DEF Shown
  <2> QED
    BY <2>1
<1> QED
  BY <1>1, <1>2, <1>3

LEMMA GoesHonours ==
  ASSUME TypeOK, NEW r \in Requests, NEW place \in Places, place # "save",
         Goes(r, place), Honours(req[r])
  PROVE  /\ req'[r].pc # "save" /\ Honours(req'[r])
         /\ \A x \in Requests \ {r} : req'[x] = req[x]
<1>1. req' = [req EXCEPT ![r].pc = place] /\ req \in [Requests -> Request]
  BY DEF TypeOK, Goes
<1>2. req'[r].pc = place /\ req'[r].pref = req[r].pref
      /\ req'[r].hand = req[r].hand /\ req'[r].via = req[r].via
  BY <1>1 DEF Request
<1>3. \A x \in Requests \ {r} : req'[x] = req[x]
  BY <1>1
<1> QED
  BY <1>2, <1>3 DEF Honours

LEMMA FailsHonours ==
  ASSUME TypeOK, NEW r \in Requests, Fails(r)
  PROVE  /\ req'[r].pc # "save" /\ Honours(req'[r])
         /\ \A x \in Requests \ {r} : req'[x] = req[x]
<1>1. req' = [req EXCEPT ![r] = NoRequest] /\ req \in [Requests -> Request]
  BY DEF TypeOK, Fails
<1>2. req'[r] = NoRequest /\ \A x \in Requests \ {r} : req'[x] = req[x]
  BY <1>1
<1> QED
  BY <1>2 DEF Honours, NoRequest

LEMMA TakesHonours ==
  ASSUME TypeOK, NEW r \in Requests, NEW place \in Places, place # "save",
         NEW s \in Name, NEW v \in {"memory", "store"},
         req' = [req EXCEPT ![r].pc = place, ![r].hand = s, ![r].via = v],
         v = "memory" =>
           (Matches(s, req[r].pref) \/ (s = "spotify" /\ Matches(SpotifyShownAs, req[r].pref))),
         v = "store" => FirstChoice(s, req[r].pref)
  PROVE  /\ req'[r].pc # "save" /\ Honours(req'[r])
         /\ \A x \in Requests \ {r} : req'[x] = req[x]
<1>1. req \in [Requests -> Request] /\ req[r].pref \in Prefs
  BY DEF TypeOK, Request
<1>2. req'[r].pc = place /\ req'[r].pref = req[r].pref /\ req'[r].hand = s /\ req'[r].via = v
  BY <1>1 DEF Request
<1>3. \A x \in Requests \ {r} : req'[x] = req[x]
  BY <1>1
<1>4. Honours(req'[r])
  <2>1. CASE v = "memory"
    BY <1>2, <2>1 DEF Honours
  <2>2. CASE v = "store"
    BY <1>2, <2>2 DEF Honours
  <2> QED
    BY <2>1, <2>2
<1> QED
  BY <1>2, <1>3, <1>4

\* A request's own step neither takes it to "save", where only the end of a
\* race does, nor gives it an answer it did not ask for.
LEMMA RequestSteps ==
  ASSUME TypeOK, PassesWell, NEW r \in Requests, Arrive(r) \/ GiveUp(r) \/ Fetch(r),
         Honours(req[r])
  PROVE  /\ req'[r].pc # "save" /\ Honours(req'[r])
         /\ \A x \in Requests \ {r} : req'[x] = req[x]
<1> DEFINE Goal == /\ req'[r].pc # "save" /\ Honours(req'[r])
                   /\ \A x \in Requests \ {r} : req'[x] = req[x]
<1>a. {"memory", "store", "join", "wait", "keep", "keepRaw", "done"} \subseteq Places
  BY DEF Places
<1>1. CASE Arrive(r)
  <2>1. PICK p \in Prefs, c \in Calls :
          req' = [req EXCEPT ![r] =
            [pc |-> IF c.mode = "forced" THEN "join" ELSE "negative",
             pref |-> p, kind |-> c.kind, mode |-> c.mode, hand |-> None, via |-> None,
             late |-> c.mode = "forced" /\ flight[p].on]]
    BY <1>1 DEF Arrive
  <2>2. req \in [Requests -> Request]
    BY DEF TypeOK
  <2>3. req'[r].pc # "save" /\ req'[r].hand = None
    BY <2>1, <2>2
  <2>4. \A x \in Requests \ {r} : req'[x] = req[x]
    BY <2>1, <2>2
  <2> QED
    BY <2>3, <2>4 DEF Honours
<1>2. CASE Negative(r)
  <2>1. Fails(r) \/ Goes(r, "memory")
    BY <1>2 DEF Negative
  <2> QED
    BY <1>a, <2>1, FailsHonours, GoesHonours
<1>3. CASE MemoryHit(r)
  <2> DEFINE s == InMemory(req[r].kind)
  <2>1. s \in Name
    BY DEF TypeOK, InMemory, RawText
  <2>2. PassesFor(req[r].kind) = s \/ PassesFor(req[r].kind) = Shown(s)
    BY DEF PassesFor, InMemory, PassesWell
  <2>3. \/ Matches(s, req[r].pref)
        \/ s = "spotify" /\ Matches(SpotifyShownAs, req[r].pref)
    BY <1>3, <2>2, ShownMatches DEF MemoryHit
  <2>4. req' = [req EXCEPT ![r].pc = "done", ![r].hand = s, ![r].via = "memory"]
    BY <1>3 DEF MemoryHit
  <2> HIDE DEF s
  <2> QED
    BY <1>a, <2>1, <2>3, <2>4, TakesHonours
<1>4. CASE MemoryMiss(r)
  BY <1>a, <1>4, GoesHonours DEF MemoryMiss
<1>5. CASE StoreHit(r)
  <2>1. PICK s \in Servable(req[r].pref) :
          req' = [req EXCEPT ![r].pc = IF req[r].kind = "lyrics" THEN "keep" ELSE "done",
                             ![r].hand = s, ![r].via = "store"]
    BY <1>5 DEF StoreHit
  <2>2. s \in Name /\ FirstChoice(s, req[r].pref)
    BY <2>1 DEF Servable, TypeOK, Name
  <2>3. CASE req[r].kind = "lyrics"
    BY <1>a, <2>1, <2>2, <2>3, TakesHonours
  <2>4. CASE req[r].kind # "lyrics"
    BY <1>a, <2>1, <2>2, <2>4, TakesHonours
  <2> QED
    BY <2>3, <2>4
<1>6. CASE StoreMiss(r)
  <2>1. Fails(r) \/ Goes(r, "join")
    BY <1>6 DEF StoreMiss
  <2> QED
    BY <1>a, <2>1, FailsHonours, GoesHonours
<1>7. CASE Join(r)
  BY <1>a, <1>7, GoesHonours DEF Join
<1>8. CASE Save(r)
  BY <1>a, <1>8, GoesHonours DEF Save
<1>9. CASE Keep(r)
  BY <1>a, <1>9, GoesHonours DEF Keep
<1>10. CASE KeepRaw(r)
  <2>1. Fails(r) \/ Goes(r, "done")
    BY <1>10 DEF KeepRaw
  <2> QED
    BY <1>a, <2>1, FailsHonours, GoesHonours
<1>11. CASE Negate(r) \/ GiveUp(r)
  <2>1. Fails(r)
    BY <1>11 DEF Negate, GiveUp
  <2> QED
    BY <2>1, FailsHonours
<1> QED
  BY <1>1, <1>2, <1>3, <1>4, <1>5, <1>6, <1>7, <1>8, <1>9, <1>10, <1>11 DEF Fetch

LEMMA SaveTypes ==
  ASSUME TypeOK, SaverHasLyrics, NEW r \in Requests, Save(r)
  PROVE  TypeOK'
<1>1. req[r].hand \in Sources
  BY DEF Save, SaverHasLyrics
<1>2. marks' \subseteq Sources /\ saving' \subseteq Sources
  BY <1>1, OfferTypes DEF Save
<1>3. "keep" \in Places
  BY DEF Places
<1>4. req' \in [Requests -> Request]
  BY <1>3, GoesTypes DEF Save
<1> QED
  BY <1>2, <1>4 DEF Save, TypeOK

LEMMA SaveFailsTypes ==
  ASSUME TypeOK, SaverHasLyrics, SaveFails
  PROVE  TypeOK'
<1>1. CASE \E s \in toMark :
         /\ toMark' = toMark \ {s} /\ GiveUpSave(s)
         /\ UNCHANGED <<req, memory, flight, marks, saving, rows, found>>
  BY <1>1 DEF GiveUpSave, TypeOK
<1>2. CASE \E r \in Requests :
         /\ At(r, "save") /\ Goes(r, "keep") /\ GiveUpSave(req[r].hand)
         /\ UNCHANGED <<memory, flight, toMark, marks, saving, rows, found>>
  <2>1. PICK r \in Requests :
         /\ At(r, "save") /\ Goes(r, "keep") /\ GiveUpSave(req[r].hand)
         /\ UNCHANGED <<memory, flight, toMark, marks, saving, rows, found>>
    BY <1>2
  <2>2. lost' \subseteq Sources
    BY <2>1 DEF SaverHasLyrics, GiveUpSave, TypeOK
  <2>3. "keep" \in Places
    BY DEF Places
  <2>4. req' \in [Requests -> Request]
    BY <2>1, <2>3, GoesTypes
  <2> QED
    BY <2>1, <2>2, <2>4 DEF TypeOK
<1>3. CASE \E s \in saving :
         /\ saving' = saving \ {s} /\ GiveUpSave(s)
         /\ UNCHANGED <<req, memory, flight, toMark, marks, rows, found>>
  BY <1>3 DEF GiveUpSave, TypeOK
<1> QED
  BY <1>1, <1>2, <1>3 DEF SaveFails

LEMMA FetchTypes ==
  ASSUME TypeOK, SaverHasLyrics, NEW r \in Requests, Arrive(r) \/ GiveUp(r) \/ Fetch(r)
  PROVE  TypeOK'
  BY ArriveTypes, NegativeTypes, MemoryTypes, StoreTypes, WaitTypes, CacheTypes, SaveTypes
     DEF Fetch

\* Saving in the background and forgetting: requests and races are left alone.
Background ==
  \/ \E s \in Sources : SaverOffers(s) \/ Write(s) \/ MarkExpires(s)
  \/ LyricsForgotten \/ RawForgotten \/ MissForgotten

LEMMA BackgroundTypes ==
  ASSUME TypeOK, Background
  PROVE  TypeOK' /\ req' = req /\ flight' = flight
<1>1. ASSUME NEW s \in Sources, SaverOffers(s)
      PROVE  TypeOK' /\ req' = req /\ flight' = flight
  BY <1>1, OfferTypes DEF SaverOffers, TypeOK
<1>2. ASSUME NEW s \in Sources, Write(s) \/ MarkExpires(s)
      PROVE  TypeOK' /\ req' = req /\ flight' = flight
  BY <1>2 DEF Write, MarkExpires, TypeOK
<1>3. ASSUME LyricsForgotten \/ RawForgotten \/ MissForgotten
      PROVE  TypeOK' /\ req' = req /\ flight' = flight
  <2>1. memory' \in [lyrics : Name, raw : RawText, miss : BOOLEAN]
    <3>1. NoRaw \in RawText /\ None \in Name
      BY DEF NoRaw, RawText, Name
    <3> QED
      BY <1>3, <3>1 DEF LyricsForgotten, RawForgotten, MissForgotten, Forget, TypeOK
  <2> QED
    BY <1>3, <2>1 DEF LyricsForgotten, RawForgotten, MissForgotten, Forget, saves, TypeOK
<1> QED
  BY <1>1, <1>2, <1>3 DEF Background

\* Requests and races that are left alone keep the invariant.
LEMMA LeftAlone ==
  ASSUME ServiceInv, TypeOK', PassesWell', req' = req, flight' = flight
  PROVE  ServiceInv'
  BY DEF ServiceInv, SaverHasLyrics, GotWasAsked, HonoursPreference, At

\* Raw text is kept as what it is or as what it is shown as, by whatever step.
LEMMA PassesStill ==
  ASSUME ServiceInv, [Next]_vars
  PROVE  PassesWell'
<1>1. CASE memory'.raw = memory.raw
  BY <1>1 DEF ServiceInv, PassesWell
<1>2. CASE \E r \in Requests : KeepRaw(r)
  <2>1. PICK r \in Requests : KeepRaw(r)
    BY <1>2
  <2>2. CASE memory' = memory
    BY <1>1, <2>2
  <2>3. CASE memory' = [memory EXCEPT !.raw = [of |-> req[r].hand, as |-> KeptAs(r)]]
    BY <2>3 DEF ServiceInv, TypeOK, PassesWell, KeptAs
  <2> QED
    BY <2>1, <2>2, <2>3 DEF KeepRaw
<1>3. CASE RawForgotten
  BY <1>3 DEF RawForgotten, Forget, NoRaw, PassesWell, ServiceInv, TypeOK
<1>4. CASE LyricsForgotten \/ MissForgotten
  BY <1>1, <1>4 DEF LyricsForgotten, MissForgotten, Forget, ServiceInv, TypeOK
<1>5. CASE \E r \in Requests : Keep(r) \/ Negate(r)
  BY <1>1, <1>5 DEF Keep, Negate, ServiceInv, TypeOK
<1>6. CASE UNCHANGED memory
  BY <1>1, <1>6
<1>7. ASSUME NEW r \in Requests, Arrive(r) \/ GiveUp(r) \/ Fetch(r), ~Keep(r), ~Negate(r),
             ~KeepRaw(r)
      PROVE  UNCHANGED memory
  BY <1>7 DEF Arrive, GiveUp, Fetch, Negative, MemoryHit, MemoryMiss, StoreHit, StoreMiss,
     Join, Save
<1>8. ASSUME NEW p \in Prefs, Landing(p) \/ \E s \in Sources : Find(p, s)
      PROVE  UNCHANGED memory
  BY <1>8 DEF Landing, LandWithLyrics, LandEmpty, Land, Find
<1>9. ASSUME \E s \in Sources : SaverOffers(s) \/ Write(s) \/ MarkExpires(s)
      PROVE  UNCHANGED memory
  BY <1>9 DEF SaverOffers, Write, MarkExpires
<1>10. SaveFails => UNCHANGED memory
  BY DEF SaveFails
<1>11. UNCHANGED vars => UNCHANGED memory
  BY DEF vars
<1> QED
  BY <1>2, <1>3, <1>4, <1>5, <1>6, <1>7, <1>8, <1>9, <1>10, <1>11 DEF Next

LEMMA HonoursAll == HonoursPreference <=> \A r \in Requests : Honours(req[r])
  BY DEF HonoursPreference, Honours

LEMMA HonoursAllNext == HonoursPreference' <=> \A r \in Requests : Honours(req'[r])
  BY DEF HonoursPreference, Honours

LEMMA RequestInv ==
  ASSUME ServiceInv, PassesWell', NEW r \in Requests, Arrive(r) \/ GiveUp(r) \/ Fetch(r)
  PROVE  ServiceInv'
<1>1. /\ TypeOK /\ SaverHasLyrics /\ GotWasAsked /\ PassesWell
      /\ \A x \in Requests : Honours(req[x])
  BY HonoursAll DEF ServiceInv
<1>2. TypeOK'
  BY <1>1, FetchTypes
<1>3. /\ req'[r].pc # "save" /\ Honours(req'[r])
      /\ \A x \in Requests \ {r} : req'[x] = req[x]
  BY <1>1, RequestSteps
<1>4. SaverHasLyrics'
  BY <1>1, <1>3 DEF SaverHasLyrics, At
<1>5. \A p \in Prefs : flight'[p].got = flight[p].got
  <2>1. CASE flight' = flight
    BY <2>1
  <2>2. CASE Join(r)
    BY <1>1, <2>2 DEF Join, TypeOK, Flight
  <2> QED
    BY <2>1, <2>2 DEF Fetch, Arrive, GiveUp, Negative, MemoryHit, MemoryMiss, StoreHit,
       StoreMiss, Save, Keep, KeepRaw, Negate
<1>6. GotWasAsked'
  BY <1>1, <1>5 DEF GotWasAsked, Asked
<1>7. HonoursPreference'
  BY <1>1, <1>3, HonoursAllNext
<1> QED
  BY <1>2, <1>4, <1>6, <1>7 DEF ServiceInv

LEMMA FindInv ==
  ASSUME ServiceInv, PassesWell', NEW p \in Prefs, NEW s \in Sources, Find(p, s)
  PROVE  ServiceInv'
<1>1. TypeOK' /\ req' = req
  BY FindTypes DEF ServiceInv, Find
<1>2. GotWasAsked'
  BY DEF ServiceInv, GotWasAsked, Find, TypeOK, Flight
<1> QED
  BY <1>1, <1>2 DEF ServiceInv, SaverHasLyrics, HonoursPreference, At

LEMMA SaveFailsInv ==
  ASSUME ServiceInv, PassesWell', SaveFails
  PROVE  ServiceInv'
<1>1. TypeOK /\ SaverHasLyrics /\ GotWasAsked /\ \A x \in Requests : Honours(req[x])
  BY HonoursAll DEF ServiceInv
<1>2. TypeOK' /\ flight' = flight
  BY <1>1, SaveFailsTypes DEF SaveFails
<1>3. CASE req' = req
  BY <1>2, <1>3, LeftAlone
<1>4. CASE \E r \in Requests : At(r, "save") /\ Goes(r, "keep")
  <2>1. PICK r \in Requests : Goes(r, "keep")
    BY <1>4
  <2>2. "keep" \in Places
    BY DEF Places
  <2>3. /\ req'[r].pc # "save" /\ Honours(req'[r])
        /\ \A x \in Requests \ {r} : req'[x] = req[x]
    BY <1>1, <2>1, <2>2, GoesHonours
  <2>4. SaverHasLyrics' /\ HonoursPreference'
    BY <1>1, <2>3, HonoursAllNext DEF SaverHasLyrics, At
  <2> QED
    BY <1>1, <1>2, <2>4 DEF ServiceInv, GotWasAsked
<1> QED
  BY <1>3, <1>4 DEF SaveFails

\* What waits for a race gets lyrics of a source the race asked.
LEMMA LandInv ==
  ASSUME ServiceInv, PassesWell', NEW p \in Prefs, NEW place \in {"save", "negate", "done"},
         NEW s \in Name, Land(p, place, s),
         place = "save" => s \in flight[p].got, place # "save" => s = None
  PROVE  ServiceInv'
<1>1. TypeOK /\ SaverHasLyrics /\ GotWasAsked /\ \A x \in Requests : Honours(req[x])
  BY HonoursAll DEF ServiceInv
<1>2. TypeOK'
  BY <1>1, LandTypes
<1>3. GotWasAsked'
  BY <1>1 DEF Land, GotWasAsked, NoFlight, TypeOK
<1>4. place = "save" => s \in Sources /\ s \in Asked(p)
  BY <1>1 DEF GotWasAsked, TypeOK, Flight
<1>5. ASSUME NEW x \in Requests
      PROVE  Honours(req'[x]) /\ (req'[x].pc = "save" => req'[x].hand \in Sources)
  <2>1. req'[x] = IF req[x].pref # p THEN req[x]
          ELSE IF req[x].pc # "wait" THEN [req[x] EXCEPT !.late = FALSE]
          ELSE IF place = "done" THEN NoRequest
          ELSE [req[x] EXCEPT !.pc = IF place = "save" /\ req[x].kind = "raw" THEN "keepRaw" ELSE place,
                              !.hand = s, !.via = "race", !.late = FALSE]
    BY DEF Land, At
  <2>2. req[x] \in Request
    BY <1>1 DEF TypeOK
  <2>3. CASE req[x].pref # p
    BY <1>1, <2>1, <2>3 DEF SaverHasLyrics, At
  <2>4. CASE req[x].pref = p /\ req[x].pc # "wait"
    <3>1. /\ req'[x].pc = req[x].pc /\ req'[x].pref = req[x].pref
          /\ req'[x].hand = req[x].hand /\ req'[x].via = req[x].via
      BY <2>1, <2>2, <2>4 DEF Request
    <3> QED
      BY <1>1, <3>1 DEF SaverHasLyrics, At, Honours
  <2>5. CASE req[x].pref = p /\ req[x].pc = "wait" /\ place = "done"
    BY <2>1, <2>5 DEF NoRequest, Honours
  <2>6. CASE req[x].pref = p /\ req[x].pc = "wait" /\ place # "done"
    <3>1. /\ req'[x].pc = (IF place = "save" /\ req[x].kind = "raw" THEN "keepRaw" ELSE place)
          /\ req'[x].pref = p /\ req'[x].hand = s /\ req'[x].via = "race"
      BY <2>1, <2>2, <2>6 DEF Request
    <3>2. CASE place = "save"
      <4>1. Matches(s, p)
        BY <1>4, <3>2 DEF Asked, Range, Matches, AllChoices
      <4>2. Honours(req'[x])
        BY <3>1, <4>1 DEF Honours
      <4> QED
        BY <1>4, <3>1, <3>2, <4>2
    <3>3. CASE place # "save"
      BY <3>1, <3>3 DEF Honours
    <3> QED
      BY <3>2, <3>3
  <2> QED
    BY <2>3, <2>4, <2>5, <2>6
<1>6. SaverHasLyrics' /\ HonoursPreference'
  BY <1>5, HonoursAllNext DEF SaverHasLyrics, At
<1> QED
  BY <1>2, <1>3, <1>6 DEF ServiceInv

LEMMA LandingInv ==
  ASSUME ServiceInv, PassesWell', NEW p \in Prefs, Landing(p)
  PROVE  ServiceInv'
<1>1. flight[p].got \subseteq Name /\ None \in Name
  BY DEF ServiceInv, TypeOK, Flight, Name
<1> QED
  BY <1>1, LandInv DEF Landing, LandWithLyrics, LandEmpty

LEMMA NextCases ==
  ASSUME Next
  PROVE  \/ \E r \in Requests : Arrive(r) \/ GiveUp(r) \/ Fetch(r)
         \/ \E p \in Prefs : Landing(p)
         \/ \E p \in Prefs, s \in Sources : Find(p, s)
         \/ SaveFails
         \/ Background
  BY DEF Next, Background

LEMMA InitInv == Init => ServiceInv
<1> SUFFICES ASSUME Init PROVE ServiceInv
  OBVIOUS
<1>1. TypeOK
  BY InitTypes
<1>2. SaverHasLyrics /\ HonoursPreference
  BY DEF Init, SaverHasLyrics, HonoursPreference, At, NoRequest
<1>3. GotWasAsked /\ PassesWell
  BY DEF Init, GotWasAsked, NoFlight, PassesWell, NoRaw
<1> QED
  BY <1>1, <1>2, <1>3 DEF ServiceInv

LEMMA StepInv == ServiceInv /\ [Next]_vars => ServiceInv'
<1> SUFFICES ASSUME ServiceInv, [Next]_vars PROVE ServiceInv'
  OBVIOUS
<1>1. CASE UNCHANGED vars
  BY <1>1 DEF vars, saves, ServiceInv, TypeOK, SaverHasLyrics, GotWasAsked, PassesWell,
     HonoursPreference, At
<1>2. PassesWell'
  BY PassesStill
<1>3. CASE Background
  BY <1>2, <1>3, BackgroundTypes, LeftAlone DEF ServiceInv
<1> QED
  BY <1>1, <1>2, <1>3, NextCases, RequestInv, LandingInv, FindInv, SaveFailsInv

LEMMA InvHolds == Spec => []ServiceInv
  BY InitInv, StepInv, PTL DEF Spec

\* Everything keeps its type, whatever the requests, sources and preferences
\* are: what is saved in the background is always a source's lyrics.
THEOREM TypeCorrect == Spec => []TypeOK
  BY InvHolds, PTL DEF ServiceInv

\* Every answer is of a source the request named, although the memory cache and
\* the store are shared by requests with different preferences: from the store
\* of the first one named, from memory with the exemption of what Spotify shows
\* under another source's name.
THEOREM PreferenceHonoured == Spec => []HonoursPreference
  BY InvHolds, PTL DEF ServiceInv

(***************************************************************************)
(* What is found is kept.  The mark of an earlier save may swallow a later *)
(* one only because that one is in the database, on its way, or was given  *)
(* up: without this the invariant would not survive the offer of lyrics    *)
(* that are marked.                                                        *)
(***************************************************************************)

MarkedIsSaved == marks \subseteq rows \cup saving \cup lost

KeptInv == FoundIsKept /\ MarkedIsSaved

\* The lyrics that requests are about to save.
AtSave == {req[r].hand : r \in {x \in Requests : At(x, "save")}}

\* Requests that move without saving keep what they are about to save.
LEMMA NoSaveLeaves ==
  ASSUME TypeOK, NEW r \in Requests, ~At(r, "save"),
         \A x \in Requests \ {r} : req'[x] = req[x]
  PROVE  AtSave \subseteq AtSave'
  BY DEF AtSave, At

\* Everything that was kept is kept still, and so is what is found now.
LEMMA KeptGrows ==
  ASSUME KeptInv,
         found' \subseteq found \cup toMark',
         rows \cup Underway \cup lost \subseteq rows' \cup Underway' \cup lost',
         marks' \subseteq rows' \cup saving' \cup lost'
  PROVE  KeptInv'
  BY DEF KeptInv, FoundIsKept, MarkedIsSaved, Underway

\* Lyrics that are offered go on their way, or are marked and need not.
LEMMA OfferKeeps ==
  ASSUME MarkedIsSaved, NEW s \in Sources, Offer(s)
  PROVE  /\ s \in rows \cup saving' \cup lost
         /\ saving \subseteq saving'
         /\ marks' \subseteq rows \cup saving' \cup lost
  BY DEF MarkedIsSaved, Offer, Marked

\* A request leaves the place where it saves only by saving.
LEMMA RequestKeeps ==
  ASSUME ServiceInv, KeptInv, NEW r \in Requests, Arrive(r) \/ GiveUp(r) \/ Fetch(r)
  PROVE  KeptInv'
<1>1. TypeOK /\ SaverHasLyrics /\ PassesWell /\ \A x \in Requests : Honours(req[x])
  BY HonoursAll DEF ServiceInv
<1>2. \A x \in Requests \ {r} : req'[x] = req[x]
  BY <1>1, RequestSteps
<1>3. CASE Save(r)
  <2>1. req[r].hand \in Sources
    BY <1>1, <1>3 DEF Save, SaverHasLyrics
  <2>2. /\ req[r].hand \in rows \cup saving' \cup lost
        /\ saving \subseteq saving'
        /\ marks' \subseteq rows \cup saving' \cup lost
    BY <1>3, <2>1, OfferKeeps DEF Save, KeptInv
  <2>3. AtSave \subseteq AtSave' \cup {req[r].hand}
    BY <1>2 DEF AtSave, At
  <2>4. toMark' = toMark /\ rows' = rows /\ found' = found /\ lost' = lost
    BY <1>3 DEF Save
  <2> QED
    BY <2>2, <2>3, <2>4, KeptGrows DEF Underway, AtSave
<1>4. CASE ~Save(r)
  <2>1. ~At(r, "save") /\ UNCHANGED saves
    BY <1>4 DEF Fetch, Arrive, GiveUp, Negative, MemoryHit, MemoryMiss, StoreHit,
       StoreMiss, Join, Keep, KeepRaw, Negate, At
  <2>2. AtSave \subseteq AtSave'
    BY <1>1, <1>2, <2>1, NoSaveLeaves
  <2> QED
    BY <2>1, <2>2, KeptGrows DEF Underway, AtSave, saves, KeptInv, MarkedIsSaved
<1> QED
  BY <1>3, <1>4

LEMMA LandKeeps ==
  ASSUME ServiceInv, KeptInv, NEW p \in Prefs, NEW place \in {"save", "negate", "done"},
         NEW s \in Name, Land(p, place, s)
  PROVE  KeptInv'
<1>1. req \in [Requests -> Request]
  BY DEF ServiceInv, TypeOK
<1>2. \A x \in Requests : At(x, "save") => req'[x].pc = "save" /\ req'[x].hand = req[x].hand
  <2>1. TAKE x \in Requests
  <2>2. HAVE At(x, "save")
  <2>3. req[x] \in Request
    BY <1>1
  <2>4. req'[x] = req[x] \/ req'[x] = [req[x] EXCEPT !.late = FALSE]
    BY <2>2 DEF Land, At
  <2> QED
    BY <2>2, <2>3, <2>4 DEF At, Request
<1>3. AtSave \subseteq AtSave'
  BY <1>2 DEF AtSave, At
<1>4. /\ toMark \subseteq toMark' /\ found' \subseteq found \cup toMark'
      /\ rows' = rows /\ saving' = saving /\ lost' = lost /\ marks' = marks
  BY DEF Land
<1> QED
  BY <1>3, <1>4, KeptGrows DEF Underway, AtSave, KeptInv, MarkedIsSaved

LEMMA LandingKeeps ==
  ASSUME ServiceInv, KeptInv, NEW p \in Prefs, Landing(p)
  PROVE  KeptInv'
<1>1. flight[p].got \subseteq Name /\ None \in Name
  BY DEF ServiceInv, TypeOK, Flight, Name
<1> QED
  BY <1>1, LandKeeps DEF Landing, LandWithLyrics, LandEmpty

LEMMA FindKeeps ==
  ASSUME KeptInv, NEW p \in Prefs, NEW s \in Sources, Find(p, s)
  PROVE  KeptInv'
  BY KeptGrows DEF Find, Underway, At, KeptInv, MarkedIsSaved

LEMMA SaveFailsKeeps ==
  ASSUME ServiceInv, KeptInv, SaveFails
  PROVE  KeptInv'
<1>1. CASE \E s \in toMark :
         /\ toMark' = toMark \ {s} /\ GiveUpSave(s)
         /\ UNCHANGED <<req, memory, flight, marks, saving, rows, found>>
  BY <1>1 DEF GiveUpSave, KeptInv, FoundIsKept, MarkedIsSaved, Underway, At
<1>2. CASE \E r \in Requests :
         /\ At(r, "save") /\ Goes(r, "keep") /\ GiveUpSave(req[r].hand)
         /\ UNCHANGED <<memory, flight, toMark, marks, saving, rows, found>>
  <2>1. PICK r \in Requests :
         /\ At(r, "save") /\ Goes(r, "keep") /\ GiveUpSave(req[r].hand)
         /\ UNCHANGED <<memory, flight, toMark, marks, saving, rows, found>>
    BY <1>2
  <2>2. \A x \in Requests \ {r} : req'[x] = req[x]
    BY <2>1 DEF ServiceInv, TypeOK, Goes
  <2>3. AtSave \subseteq AtSave' \cup {req[r].hand}
    BY <2>2 DEF AtSave, At
  <2> QED
    BY <2>1, <2>3 DEF GiveUpSave, KeptInv, FoundIsKept, MarkedIsSaved, Underway, AtSave
<1>3. CASE \E s \in saving :
         /\ saving' = saving \ {s} /\ GiveUpSave(s)
         /\ UNCHANGED <<req, memory, flight, toMark, marks, rows, found>>
  BY <1>3 DEF GiveUpSave, KeptInv, FoundIsKept, MarkedIsSaved, Underway, At
<1> QED
  BY <1>1, <1>2, <1>3 DEF SaveFails

LEMMA BackgroundKeeps ==
  ASSUME ServiceInv, KeptInv, Background
  PROVE  KeptInv'
<1>1. ASSUME NEW s \in Sources, SaverOffers(s)
      PROVE  KeptInv'
  <2>1. /\ s \in rows \cup saving' \cup lost
        /\ saving \subseteq saving'
        /\ marks' \subseteq rows \cup saving' \cup lost
    BY <1>1, OfferKeeps DEF SaverOffers, KeptInv
  <2> QED
    BY <1>1, <2>1 DEF SaverOffers, KeptInv, FoundIsKept, MarkedIsSaved, Underway, At
<1>2. ASSUME NEW s \in Sources, Write(s) \/ MarkExpires(s)
      PROVE  KeptInv'
  BY <1>2 DEF Write, MarkExpires, KeptInv, FoundIsKept, MarkedIsSaved, Underway, At
<1>3. ASSUME LyricsForgotten \/ RawForgotten \/ MissForgotten
      PROVE  KeptInv'
  BY <1>3 DEF LyricsForgotten, RawForgotten, MissForgotten, Forget, saves,
     KeptInv, FoundIsKept, MarkedIsSaved, Underway, At
<1> QED
  BY <1>1, <1>2, <1>3 DEF Background

LEMMA StepKeeps == ServiceInv /\ KeptInv /\ [Next]_vars => KeptInv'
<1> SUFFICES ASSUME ServiceInv, KeptInv, [Next]_vars PROVE KeptInv'
  OBVIOUS
<1>1. CASE UNCHANGED vars
  BY <1>1 DEF vars, saves, KeptInv, FoundIsKept, MarkedIsSaved, Underway, At
<1> QED
  BY <1>1, NextCases, RequestKeeps, LandingKeeps, FindKeeps, SaveFailsKeeps, BackgroundKeeps

\* Lyrics that any race ever found are in the database or on their way, unless
\* a save of them was given up, for any number of requests and sources.
THEOREM FoundKept == Spec => []FoundIsKept
<1>1. Init => KeptInv
  BY DEF Init, KeptInv, FoundIsKept, MarkedIsSaved
<1> QED
  BY <1>1, StepKeeps, InvHolds, PTL DEF Spec, KeptInv
=============================================================================
