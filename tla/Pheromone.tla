------------------------------ MODULE Pheromone ------------------------------
(***************************************************************************)
(* The fixed-size LRU cache (crate uluru, `LRUCache<T, N>`) behind both    *)
(* halves of a link's `Blooms` (copernica-broker/src/bloom_filter.rs) and  *)
(* behind the broker's `ResponseStore`.  A cache is the sequence of its    *)
(* entries, most recently used first.  The crate is outside the            *)
(* repository; it is modelled by the two operations the code calls.        *)
(***************************************************************************)
EXTENDS Naturals, Sequences, SequencesExt

\* `contains_*_request` without its side effect: some entry equals e.
Holds(cache, e) == e \in ToSet(cache)

\* Mutant of Inserted: a full cache keeps its oldest entries.
InsertedLast(cache, e, size) ==
  LET longer == cache \o <<e>>
  IN  IF Len(longer) <= size THEN longer ELSE SubSeq(longer, 1, size)

\* `insert`: the entry goes to the front.  Equal entries are not looked for,
\* so an entry may occur twice; when the cache is full the last one leaves.
Inserted(cache, e, size) ==
  LET longer == <<e>> \o cache
  IN  IF Len(longer) <= size THEN longer ELSE SubSeq(longer, 1, size)

\* `touch` (and `find`): the first entry equal to e, if any, moves to the front.
Touched(cache, e) ==
  IF Holds(cache, e) THEN <<e>> \o RemoveFirst(cache, e) ELSE cache
=============================================================================
