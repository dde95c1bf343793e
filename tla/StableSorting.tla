---------------------------- MODULE StableSorting ----------------------------
(*************************************************************************)
(* Array.prototype.sort, as the wallet's builder and the policy's        *)
(* canonical form use it: stable, over a comparison of two elements.     *)
(*************************************************************************)
EXTENDS Naturals, FiniteSets, SequencesExt

\* The comparison is the set of the pairs <<a, b>> where a comes first.  An
\* element's place is the number of those before it, and elements the comparison
\* does not tell apart keep their order.
StableSort(s, less) ==
  LET before(i, j) ==
        \/ <<s[i], s[j]>> \in less
        \/ <<s[j], s[i]>> \notin less /\ i < j
      rank == [j \in DOMAIN s |-> Cardinality({i \in DOMAIN s : before(i, j)})]
  IN  [k \in DOMAIN s |-> s[CHOOSE j \in DOMAIN s : rank[j] = k - 1]]

PairsOf(s) == ToSet(s) \X ToSet(s)

=============================================================================
