------------------------------ MODULE MemCache ------------------------------
(***************************************************************************)
(* The memory cache of answers and the watchdog that sheds it              *)
(* (internal/storage/memcache.go, watchdog.go): least recently used        *)
(* entries, bounded in number and in bytes, each with a lifetime.          *)
(***************************************************************************)
EXTENDS Integers, FiniteSets

CONSTANTS CacheKeys, Sizes, Lifetimes,   \* of the entries that are set
          MaxKeys, MaxBytes, MaxBody,    \* the cache's limits
          ShedCooldown,                  \* seconds between two sheds
          CacheEnd                       \* bound of the clock

ASSUME MemCacheAssumption ==
  /\ Sizes \subseteq Nat /\ Lifetimes \subseteq Nat /\ 0 \notin Lifetimes
  /\ MaxKeys \in Nat \ {0} /\ MaxBytes \in Nat \ {0} /\ MaxBody \in Nat \ {0}
  /\ ShedCooldown \in Nat /\ CacheEnd \in Nat

VARIABLES
  entries,    \* key, size, and the time it is good for yet
  older,      \* pairs of keys: the first was used before the second
  bytes,      \* the count the cache keeps
  cooldown,       \* time until the watchdog may shed again
  elapsed     \* the clock

memCacheVars == <<entries, older, bytes, cooldown, elapsed>>

MemCacheInit == entries = {} /\ older = {} /\ bytes = 0 /\ cooldown = 0 /\ elapsed = 0

KeysIn(E) == {e.key : e \in E}

\* The bytes of E, each its key and its number in the body.
Bytes(E) == UNION {{e.key} \X (1..e.size) : e \in E}
Size(E) == Cardinality(Bytes(E))

\* What the cache counts when `gone` has left it.
CountWithout(gone) == bytes - Size(gone)
AtLeastZero(n) == IF n < 0 THEN 0 ELSE n

\* What may be left of E when the oldest go.
Newest(E) == {T \in SUBSET E : \A stays \in T, goes \in E \ T : <<goes.key, stays.key>> \in older}

Among(E) == older \cap (KeysIn(E) \X KeysIn(E))
UsedLast(E, k) == Among({e \in E : e.key # k}) \cup ((KeysIn(E) \ {k}) \X {k})

\* An entry that is read is the newest; one that outlived its time is taken out
\* by the reader that finds it.
GetEntry(k) ==
  /\ \E e \in entries :
       /\ e.key = k
       /\ \/ /\ e.left >= 0
             /\ older' = UsedLast(entries, k)
             /\ UNCHANGED <<entries, bytes>>
          \/ /\ e.left < 0
             /\ entries' = entries \ {e}
             /\ older' = Among(entries')
             /\ bytes' = AtLeastZero(CountWithout({e}))
  /\ UNCHANGED <<cooldown, elapsed>>

\* The oldest go until the new entry fits in bytes, or nothing is left; then one
\* more if all places are taken.
Fits(T, size) == CountWithout(entries \ T) + size <= MaxBytes
MakeRoom(others, size) ==
  {T \in Newest(others) :
     /\ Fits(T, size) \/ T = {}
     /\ \A U \in Newest(others) : T \subseteq U /\ T # U => ~Fits(U, size)}
MakeSlot(T) ==
  {V \in Newest(T) :
     Cardinality(V) = Cardinality(T) - (IF Cardinality(T) >= MaxKeys THEN 1 ELSE 0)}

\* Mutant: an entry that is replaced is counted on.
SetTwice(k, size, left) ==
  /\ size <= MaxBody
  /\ LET others == {e \in entries : e.key # k} IN
       \E T \in MakeRoom(others, size) : \E V \in MakeSlot(T) :
         /\ entries' = V \cup {[key |-> k, size |-> size, left |-> left]}
         /\ older' = UsedLast(entries', k)
         /\ bytes' = AtLeastZero(CountWithout(others \ V)) + size
  /\ UNCHANGED <<cooldown, elapsed>>

\* An entry of the same key is taken out first.
SetEntry(k, size, left) ==
  /\ size <= MaxBody
  /\ LET others == {e \in entries : e.key # k} IN
       \E T \in MakeRoom(others, size) : \E V \in MakeSlot(T) :
         /\ entries' = V \cup {[key |-> k, size |-> size, left |-> left]}
         /\ older' = UsedLast(entries', k)
         /\ bytes' = AtLeastZero(CountWithout(entries \ V)) + size
  /\ UNCHANGED <<cooldown, elapsed>>

\* The watchdog finds too much memory in use: what outlived its time goes, and
\* half of the rest, or its only entry.
Shed ==
  /\ cooldown = 0
  /\ LET good == {e \in entries : e.left >= 0}
         half == Cardinality(good) \div 2 IN
       \E V \in Newest(good) :
         /\ Cardinality(V) = IF half = 0 THEN 0 ELSE Cardinality(good) - half
         /\ entries' = V
         /\ older' = Among(V)
         /\ bytes' = AtLeastZero(CountWithout(entries \ V))
  /\ cooldown' = ShedCooldown
  /\ UNCHANGED elapsed

CacheTick ==
  /\ elapsed < CacheEnd
  /\ elapsed' = elapsed + 1
  /\ entries' = {[key |-> e.key, size |-> e.size,
                  left |-> IF e.left >= 0 THEN e.left - 1 ELSE e.left] : e \in entries}
  /\ cooldown' = IF cooldown > 0 THEN cooldown - 1 ELSE 0
  /\ UNCHANGED <<older, bytes>>

MemCacheNext ==
  \/ \E k \in CacheKeys : GetEntry(k)
  \/ \E k \in CacheKeys, size \in Sizes, left \in Lifetimes : SetEntry(k, size, left)
  \/ Shed
  \/ CacheTick

MemCacheSpec == MemCacheInit /\ [][MemCacheNext]_memCacheVars

-----------------------------------------------------------------------------
\* The count is the bytes held, whatever was replaced, evicted, outlived or
\* shed (memcache.go:65-146).  The code keeps it at zero or more by force, so
\* that a wrong count would not show; it would admit too much, or throw away
\* entries for nothing.  And the limits hold: only an entry larger than the
\* whole cache, which the limit of one body may let in, is kept alone.
CacheAccounted ==
  /\ bytes = Size(entries)
  /\ Cardinality(entries) <= MaxKeys
  /\ bytes <= MaxBytes \/ Cardinality(entries) = 1
=============================================================================
