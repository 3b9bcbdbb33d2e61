------------------------------- MODULE MCRows -------------------------------
(* Instances of Rows for TLC. *)
EXTENDS Rows

\* Two titles one of which is the beginning of the other, one ISRC with two
\* platform ids.
Keyed(title, isrc, plat, source) ==
  [title |-> title, isrc |-> isrc, plat |-> plat, source |-> source]
MCRequests == {Keyed("a", "i", "p", "lyricsplus"), Keyed("ab", "i", "q", "apple"),
               Keyed("a", "", "p", "apple"), Keyed("", "", "", "apple")}
MCLookups == {<<"exact", "i", "p">>, <<"exact", "i", "q">>, <<"user", "i", "">>,
              <<"title", "a", "">>, <<"fts", "a", "">>}
MCFound == [t \in {"", "a", "ab"} |-> IF t = "a" THEN {"a", "ab"} ELSE {t}]
=============================================================================
