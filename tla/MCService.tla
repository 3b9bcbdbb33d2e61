------------------------------ MODULE MCService ------------------------------
(* Instances of Service for TLC. *)
EXTENDS Service

\* Requests come without a preference or prefer the source that Musixmatch's
\* word lyrics match, and that Spotify's are shown as.
AnyOrMusixmatch == {<< >>, <<"musixmatch">>}
Any == {<< >>}

Lyrics == [kind |-> "lyrics", mode |-> "plain"]
ForcedLyrics == [kind |-> "lyrics", mode |-> "forced"]
CachedLyrics == [kind |-> "lyrics", mode |-> "cacheOnly"]
Raw == [kind |-> "raw", mode |-> "plain"]

AllWays == {ForcedLyrics, CachedLyrics, Raw}
PlainOrCachedRaw == {Lyrics, [kind |-> "raw", mode |-> "cacheOnly"]}
=============================================================================
