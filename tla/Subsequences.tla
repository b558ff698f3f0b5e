---------------------------- MODULE Subsequences ----------------------------
(***************************************************************************)
(* What a filter leaves of a sequence, told by the positions it keeps.      *)
(***************************************************************************)
EXTENDS Integers, FiniteSets, Sequences

\* The position that has k of the positions of I up to and including it.
Nth(I, k) == CHOOSE i \in I : Cardinality({j \in I : j <= i}) = k

\* The elements of s at the positions of I, in the order of s.
Picked(s, I) == [k \in 1..Cardinality(I) |-> s[Nth(I, k)]]

\* s is what is left of t when some of its elements are taken out.
Subsequence(s, t) ==
    \E f \in [DOMAIN s -> DOMAIN t] :
        /\ \A i, j \in DOMAIN s : i < j => f[i] < f[j]
        /\ \A i \in DOMAIN s : s[i] = t[f[i]]

=============================================================================
