----------------------------- MODULE SharedFetch -----------------------------
(***************************************************************************)
(* What Dedup.Get promises to those who ask for one song at the same time  *)
(* (internal/orchestrator/singleflight.go), without the tracker, its count *)
(* and its cancels, and without the goroutine of the flight:               *)
(*                                                                         *)
(*   - at most one search for the song is under way;                       *)
(*   - those who share a search all get its one answer, unless their own   *)
(*     patience ended first;                                               *)
(*   - a search is given up only when nobody is left who asked for it, or  *)
(*     when its time is up, and only then may it answer without having     *)
(*     heard every source.                                                 *)
(*                                                                         *)
(* Dedup implements it: Dedup!ImplementsShared.                            *)
(***************************************************************************)
CONSTANT Callers  \* requests for the song

VARIABLES
  place,   \* where each caller is: "out", "asking", "sharing"
  answer,  \* what it was told
  search   \* "none", under way ("running", "abandoned", "expired"), or its answer

sharedVars == <<place, answer, search>>

Answers == {"lyrics", "miss", "aborted"}

Init ==
  /\ place = [c \in Callers |-> "out"]
  /\ answer = [c \in Callers |-> "none"]
  /\ search = "none"

\* A search nobody asked for any more may be given up.
Unwatched == search' \in IF search = "running" THEN {"running", "abandoned"}
                                               ELSE {search}

Ask(c) ==
  /\ place[c] = "out"
  /\ place' = [place EXCEPT ![c] = "asking"]
  /\ answer' = [answer EXCEPT ![c] = "none"]
  /\ UNCHANGED search

\* The caller shares the search that is there, or starts one.
Share(c) ==
  /\ place[c] = "asking"
  /\ place' = [place EXCEPT ![c] = "sharing"]
  /\ search' = IF search = "none" THEN "running" ELSE search
  /\ UNCHANGED answer

GiveUp(c) ==
  /\ place[c] = "sharing"
  /\ answer' = [answer EXCEPT ![c] = "ctxErr"]
  /\ UNCHANGED <<place, search>>

\* Nobody returns without an answer; the last one may stop the search.
Return(c) ==
  /\ place[c] = "sharing"
  /\ answer[c] # "none"
  /\ place' = [place EXCEPT ![c] = "out"]
  /\ IF \A d \in Callers : place'[d] = "out" THEN Unwatched
                                             ELSE UNCHANGED search
  /\ UNCHANGED answer

Abandon ==
  /\ search = "running"
  /\ \A c \in Callers : place[c] = "out"
  /\ search' = "abandoned"
  /\ UNCHANGED <<place, answer>>

Expire ==
  /\ search = "running"
  /\ search' = "expired"
  /\ UNCHANGED <<place, answer>>

\* Only a search that was stopped may leave sources unheard.
Decide ==
  /\ search \in {"running", "abandoned", "expired"}
  /\ search' \in IF search = "running" THEN Answers \ {"aborted"} ELSE Answers
  /\ UNCHANGED <<place, answer>>

\* Everybody who shares the search is told the same answer, at once.
Deliver ==
  /\ search \in Answers
  /\ search' = "none"
  /\ answer' = [c \in Callers |->
       IF place[c] = "sharing" /\ answer[c] = "none" THEN search ELSE answer[c]]
  /\ UNCHANGED place

Next ==
  \/ \E c \in Callers : Ask(c) \/ Share(c) \/ GiveUp(c) \/ Return(c)
  \/ Abandon \/ Expire \/ Decide \/ Deliver

Spec == Init /\ [][Next]_sharedVars
=============================================================================
