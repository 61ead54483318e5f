------------------------------- MODULE Filter -------------------------------
(***************************************************************************)
(* Iterator::filter and retain of the standard library.                    *)
(***************************************************************************)
EXTENDS Naturals, Sequences

\* The elements of s that are not in S, in their order.
Without(s, S) ==
  LET kept[i \in 0..Len(s)] ==
        IF i = 0 THEN <<>>
        ELSE IF s[i] \in S THEN kept[i - 1]
        ELSE Append(kept[i - 1], s[i])
  IN  kept[Len(s)]
=============================================================================
