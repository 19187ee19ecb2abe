------------------------------- MODULE Filter -------------------------------
(***************************************************************************)
(* std::erase_if on a vector, which keeps the order of what it leaves.     *)
(* SelectSeq with a set for the test, as a recursive function.             *)
(***************************************************************************)
EXTENDS Naturals, Sequences

\* The elements of s that are in S.
Only(s, S) ==
  LET only[n \in 0 .. Len(s)] ==
        IF n = 0 THEN <<>>
        ELSE IF s[n] \in S THEN Append(only[n - 1], s[n]) ELSE only[n - 1]
  IN  only[Len(s)]
=============================================================================
