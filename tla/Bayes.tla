-------------------------------- MODULE Bayes --------------------------------
(***************************************************************************)
(* The naive Bayes classifier by which the router ranks its links for a    *)
(* name (copernica-broker/src/bayes.rs).  Its model is two tables:         *)
(*                                                                         *)
(*   count[id]    - `Links::count`, how often the link was trained;        *)
(*   freq[n][id]  - `BFIs::bfis`, how often it was trained for name n.     *)
(*                                                                         *)
(* A HashMap entry is created by `or_insert(0)` and incremented at once,   *)
(* so an absent entry is a zero here.  A name stands for the `BFIS` its    *)
(* `to_bfis` returns, the hashes of the very fields HBFIExcludeFrame       *)
(* compares.  `log_classify` and its helpers have no caller and are left   *)
(* out.                                                                    *)
(***************************************************************************)
EXTENDS Naturals, Sequences, FiniteSets, SequencesExt

CONSTANTS
  Link,          \* the LinkId values a broker may meet (LinkId::Identity)
  Choke,         \* LinkId::Choke, the class of requests that are not answered
  Name,          \* HBFIs without their frame
  InvMinProb     \* 1 / min_prob: 10^9 in the code

ASSUME LinkIsFinite == IsFiniteSet(Link)
ASSUME ChokeIsNoLink == Choke \notin Link
ASSUME InvMinProbAssumption == InvMinProb \in Nat \ {0, 1}

Class == Link \cup {Choke}

\* `Links::get_total`.
Total(count) == SumFunctionOnSet(count, Class)

\* `Model::train` and `Model::super_train`: both tables gain `by`.
TrainedCount(count, id, by) == [count EXCEPT ![id] = @ + by]
TrainedFreq(freq, n, id, by) == [freq EXCEPT ![n][id] = @ + by]

\* `get_frequency` returns (_, true): some link was trained for this name.
KnownName(freq, n) == \E id \in Class : freq[n][id] > 0

(***************************************************************************)
(* The weight `classify` gives a link, scaled by InvMinProb * Total so     *)
(* that it is a whole number.  The prior is count / total; the likelihood  *)
(* is freq / count for a link trained for the name, min_prob for one that  *)
(* was not, and nothing at all (a factor of 1) when no link was.           *)
(***************************************************************************)
Score(count, freq, n, id) ==
  CASE freq[n][id] > 0                        -> freq[n][id] * InvMinProb
    [] freq[n][id] = 0 /\ KnownName(freq, n)  -> count[id]
    [] OTHER                                  -> count[id] * InvMinProb

\* The link is in the first place of a ranking, perhaps tied for it.
\* Only links that were trained are ranked (`get_linkids`).
RanksFirst(count, freq, n, id) ==
  /\ count[id] > 0
  /\ \A other \in Class :
        Score(count, freq, n, id) >= Score(count, freq, n, other)

\* Mutant of Rankings: the `reverse` after the ascending sort is forgotten.
RankingsAscending(count, freq, n, ids) ==
  {order \in SetToSeqs(ids) :
     \A i, j \in DOMAIN order :
        i < j => Score(count, freq, n, order[i]) <= Score(count, freq, n, order[j])}

(***************************************************************************)
(* The orders in which a set of ranked links may appear in the result of   *)
(* `classify`: by descending weight.  The links come out of a HashSet, so  *)
(* equal weights are in any order.                                         *)
(***************************************************************************)
Rankings(count, freq, n, ids) ==
  {order \in SetToSeqs(ids) :
     \A i, j \in DOMAIN order :
        i < j => Score(count, freq, n, order[i]) >= Score(count, freq, n, order[j])}
=============================================================================
