-------------------------------- MODULE Lists --------------------------------
(***************************************************************************)
(* The loops over slices that the modules share, as operators whose           *)
(* parameters are sets, so that ListProofs can reason about them.               *)
(***************************************************************************)
EXTENDS Naturals, Sequences

\* The elements of s that are in S, in the order of s.
Within(s, S) ==
    LET kept[n \in 0..Len(s)] ==
            IF n = 0 THEN <<>>
            ELSE IF s[n] \in S THEN Append(kept[n - 1], s[n])
            ELSE kept[n - 1]
    IN  kept[Len(s)]

\* The positions in P of elements of s, in order.
Positions(s, P) == Within([n \in 1..Len(s) |-> n], P)

\* The elements of s at those positions.
At(s, P) == [k \in DOMAIN Positions(s, P) |-> s[Positions(s, P)[k]]]

\* A mutant: repetitions are kept.
DistinctNot(s) == s

\* The first occurrence of each element of s.
Distinct(s) == At(s, {n \in 1..Len(s) : \A m \in 1..(n - 1) : s[m] # s[n]})

\* The sum of the numbers in s.
Total(s) ==
    LET sum[n \in 0..Len(s)] == IF n = 0 THEN 0 ELSE sum[n - 1] + s[n]
    IN  sum[Len(s)]
==============================================================================
