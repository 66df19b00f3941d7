----------------------------- MODULE Selection -----------------------------
(***************************************************************************)
(* Array.filter, for a test that is membership in a set.  SelectSeq of the  *)
(* Sequences module takes the test as an operator, which nothing can be     *)
(* proved about; Only is a recursive function, which can be unfolded.       *)
(***************************************************************************)
EXTENDS Naturals, Sequences

\* What of the first i elements of s is in S, for each i.
OnlyUpTo(s, S) ==
    LET only[i \in 0..Len(s)] ==
            IF i = 0 THEN <<>>
            ELSE IF s[i] \in S THEN Append(only[i - 1], s[i]) ELSE only[i - 1]
    IN only

\* The elements of s that are in S, in their order.
Only(s, S) == OnlyUpTo(s, S)[Len(s)]
=============================================================================
