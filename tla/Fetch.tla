---- MODULE Fetch ----
(***************************************************************************)
(* One fetch of lyrics from a provider: the searches that look for the     *)
(* song, the request for its lyrics, and what becomes of each failure on   *)
(* the way (FetchLyrics of apple.go, spotify.go, deezer.go, musixmatch.go  *)
(* and qqmusic.go in internal/providers).                                  *)
(*                                                                         *)
(* The answer matters to the race: an error is tried again soon, while no  *)
(* lyrics and no error is remembered as "this source has none".            *)
(* The rotation over accounts below a request is module Accounts; a result *)
(* out of a provider's own cache is the answer it was made from.           *)
(***************************************************************************)
EXTENDS Naturals, Sequences

VARIABLES
  source,     \* the provider; mxm-word is Musixmatch asked for word sync only
  query,      \* what the caller knows of the song
  todo,       \* the searches and requests still to make
  tried,      \* TRUE when some request was made
  answered,   \* TRUE when one of them got an answer
  misread,    \* TRUE when one of them failed and passed for an empty answer
  blamed,     \* lastSearchErr: an error to report if nothing is found
  fault,      \* lastErr of Apple's SearchBestMatch
  candidates, \* TRUE when a search by text returned songs
  result      \* "none" until the fetch is over

fetchVars ==
  <<source, query, todo, tried, answered, misread, blamed, fault, candidates, result>>

FetchSources == {"apple", "spotify", "deezer", "qq", "mxm", "mxm-word"}

\* A platform id, an ISRC, and the number of search terms the text makes.
Queries == [id : BOOLEAN, isrc : BOOLEAN, terms : 0..2]
IDOnly(q) == q.terms = 0

If(c, stage) == IF c THEN <<stage>> ELSE <<>>
Each(n, stage) == [i \in 1..n |-> stage]

\* The lyrics' own requests, once the song is known: a song of QQ has one of
\* its two ids or both.
LyricsOf(s) ==
  CASE s = "qq" -> {<<"by mid">>, <<"by id">>, <<"by mid", "by id">>}
    [] s = "mxm" -> {<<"richsync", "subtitle">>}
    [] s = "mxm-word" -> {<<"richsync">>}
    [] OTHER -> {<<"lyrics">>}

\* Apple tries each term as a suggestion, then as a search; Musixmatch and QQ
\* have two terms, Spotify and Deezer one.
Searches(s, q) ==
  CASE s = "apple" -> If(q.id, "id") \o If(q.isrc, "isrc")
                        \o Each(q.terms, "suggest") \o Each(q.terms, "search")
    [] s = "spotify" -> If(q.isrc, "isrc") \o If(~IDOnly(q), "text")
    [] s = "deezer" -> If(~IDOnly(q), "text")
    [] s = "qq" -> Each(q.terms, "text")
    [] OTHER -> If(q.isrc, "isrc") \o Each(q.terms, "text")

\* A platform id is the song for Spotify, Deezer and QQ, and unknown to Musixmatch.
Known(s, q) == q.id /\ s \in {"spotify", "deezer", "qq"}

FetchInit ==
  /\ source \in FetchSources
  /\ query \in {q \in Queries : ~(IDOnly(q) /\ ~q.id /\ ~q.isrc)}
  /\ todo \in IF Known(source, query) THEN LyricsOf(source) ELSE {Searches(source, query)}
  /\ tried = FALSE /\ answered = FALSE /\ misread = FALSE
  /\ blamed = FALSE /\ fault = FALSE /\ candidates = FALSE
  /\ result = "none"

FetchOver == result # "none"
Stage == Head(todo)
Searching == ~FetchOver /\ todo # <<>> /\ Stage \in {"id", "isrc", "suggest", "search", "text"}
LastSearch == Len(todo) = 1
End(r) == result' = r /\ todo' = <<>>
FetchRests == todo' = Tail(todo) /\ result' = result
ByText == Stage \in {"suggest", "search", "text"}

\* Apple cannot tell the account's storefront.
NoStorefront ==
  /\ ~FetchOver /\ source = "apple" /\ ~tried
  /\ tried' = TRUE
  /\ End("failed")
  /\ UNCHANGED <<source, query, answered, misread, blamed, fault, candidates>>

\* A search answers with the song: its lyrics come next.
Match ==
  /\ Searching
  /\ tried' = TRUE /\ answered' = TRUE
  /\ blamed' = FALSE /\ fault' = FALSE
  /\ \/ todo' \in LyricsOf(source) /\ result' = result
     \/ source = "apple" /\ End("absent")            \* hasLyrics is false
  /\ UNCHANGED <<source, query, misread, candidates>>

\* What a fetch reports when no search found the song: with candidates that do
\* not match, Apple's text searches have not failed.
Verdict == IF blamed' \/ (fault' /\ ~candidates') THEN "failed" ELSE "absent"
NextSearch == IF LastSearch THEN End(Verdict) ELSE FetchRests

\* A search answers with other songs, or none.  Spotify's candidates decide at once.
NoMatch ==
  /\ Searching
  /\ tried' = TRUE /\ answered' = TRUE
  /\ blamed' = blamed /\ fault' = fault
  /\ \E some \in IF ByText \/ source = "spotify" THEN BOOLEAN ELSE {FALSE} :
       /\ candidates' = (candidates \/ some)
       /\ IF source = "spotify" /\ some THEN End("absent") ELSE NextSearch
  /\ UNCHANGED <<source, query, misread>>

\* Which failed searches end the fetch: Deezer's and Spotify's text, and
\* Musixmatch's while it has no candidate.
Ends == \/ source \in {"deezer", "spotify"} /\ Stage = "text"
        \/ source \in {"mxm", "mxm-word"} /\ Stage = "text" /\ ~candidates

\* Mutant: no error of a search is ever reported.
AllForgotten == TRUE

\* Musixmatch forgets the failed search by ISRC, and that of a second term.
Forgotten == source \in {"mxm", "mxm-word"}

\* A search fails.
SearchFails ==
  /\ Searching
  /\ tried' = TRUE
  /\ LET inner == source = "apple" /\ ByText
     IN /\ blamed' = (blamed \/ (~Forgotten /\ ~inner /\ ~Ends))
        /\ fault' = (fault \/ (~Forgotten /\ inner))
  /\ candidates' = candidates
  /\ IF Ends THEN End("failed") ELSE NextSearch
  /\ UNCHANGED <<source, query, answered, misread>>

\* Nothing to search with: an ISRC alone, for Deezer and QQ, or Musixmatch's
\* ignorance of other platforms' ids.
NothingToAsk ==
  /\ ~FetchOver /\ todo = <<>>
  /\ End("absent")
  /\ UNCHANGED <<source, query, tried, answered, misread, blamed, fault, candidates>>

Requesting == ~FetchOver /\ todo # <<>> /\ ~Searching

\* The lyrics come; parsed they are delivered, or dropped: empty, not in the
\* format, a decoy, or not in the sync that was asked for.
Lyrics ==
  /\ Requesting
  /\ tried' = TRUE /\ answered' = TRUE
  /\ \E r \in {"ok", "absent"} : End(r)
  /\ UNCHANGED <<source, query, misread, blamed, fault, candidates>>

\* The song has no lyrics here: 404, null, or an empty body.
NoLyricsThere ==
  /\ Requesting
  /\ tried' = TRUE /\ answered' = TRUE
  /\ UNCHANGED <<source, query, misread, blamed, fault, candidates>>
  /\ IF LastSearch THEN End(IF blamed THEN "failed" ELSE "absent") ELSE FetchRests

\* The request fails and the provider sees it: QQ tries the song's other id,
\* Musixmatch the subtitle.
RequestFails ==
  /\ Requesting
  /\ tried' = TRUE
  /\ blamed' = (blamed \/ source = "qq")
  /\ IF LastSearch THEN End("failed") ELSE FetchRests
  /\ UNCHANGED <<source, query, answered, misread, fault, candidates>>

\* Where a failed answer can pass for an empty one.  Deezer's lyrics take any
\* status and any body, and its search a list of errors; QQ takes the body of an
\* answer with an error code, and drops what its second search says; Musixmatch
\* takes what follows a login as it comes; Spotify drops lyrics it cannot parse.
Misreads == source \in {"deezer", "qq", "mxm", "mxm-word"} \/ (source = "spotify" /\ ~Searching)

\* An error status, an error code or a broken body is read as "nothing there".
ReadAsEmpty ==
  /\ ~FetchOver /\ todo # <<>> /\ Misreads
  /\ tried' = TRUE /\ misread' = TRUE
  /\ UNCHANGED <<source, query, answered, blamed, fault, candidates>>
  /\ NextSearch

FetchNext ==
  \/ NoStorefront \/ Match \/ NoMatch \/ SearchFails \/ NothingToAsk
  \/ Lyrics \/ NoLyricsThere \/ RequestFails \/ ReadAsEmpty

FetchSpec == FetchInit /\ [][FetchNext]_fetchVars

-----------------------------------------------------------------------------
\* A source says it has no lyrics only if somebody answered it, it had nothing
\* to ask, or it took a failed answer for an empty one: a failure that it saw
\* never becomes a "no", whatever else failed beside it.  (Musixmatch knowing
\* only an ISRC is the exception: it forgets the failed lookup.)
AbsentWasAnswered ==
  result = "absent" /\ tried =>
    answered \/ misread \/ (source \in {"mxm", "mxm-word"} /\ IDOnly(query))

\* The same of what the providers' servers really said.  It does not hold: see
\* the README, section 5.
AbsentIsCertain == result = "absent" /\ tried => answered
====
