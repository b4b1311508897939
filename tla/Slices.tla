-------------------------------- MODULE Slices --------------------------------
(***************************************************************************)
(* What the program does with Go slices beyond append: the two functions   *)
(* of package slices that service_regisry.go calls, and the slice of the   *)
(* elements that a loop picks (diff of orchestrator.go).                   *)
(***************************************************************************)
EXTENDS Integers, Sequences, SequencesExt

\* slices.Sort, which rearranges the elements.
Sort(s) ==
    LET order == CHOOSE p \in Bijection(DOMAIN s, DOMAIN s) :
                    \A i, j \in DOMAIN s : i < j => s[p[i]] <= s[p[j]]
    IN  [i \in DOMAIN s |-> s[order[i]]]

\* The elements of s at the positions in I, in the order they have in s.
Subsequence(s, I) ==
    LET rank(i) == Cardinality({j \in I : j <= i})
    IN  [k \in 1..Cardinality(I) |-> s[CHOOSE i \in I : rank(i) = k]]

\* slices.Compact: of a run of equal neighbours the first one stays.
Compact(s) == Subsequence(s, {i \in DOMAIN s : i = 1 \/ s[i] # s[i - 1]})
=============================================================================
