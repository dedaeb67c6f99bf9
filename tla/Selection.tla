------------------------------ MODULE Selection ------------------------------
(***************************************************************************)
(* The loops that build a list from the elements of another that are to    *)
(* stay, in their order (filterOutClientConn, parseHints).  SelectSeq says *)
(* the same with a test of an element; here the positions to keep are      *)
(* given, and the recursion is a function's.                               *)
(***************************************************************************)
EXTENDS Naturals, Sequences

\* What is left of s at the positions in keep: part[n] is what the loop has after n
\* turns.
Selected(s, keep) ==
    LET part[n \in 0..Len(s)] == IF n = 0 THEN <<>>
                                 ELSE IF n \in keep THEN Append(part[n - 1], s[n])
                                 ELSE part[n - 1]
    IN part[Len(s)]
=============================================================================
