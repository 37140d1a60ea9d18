------------------------------ MODULE Selection ------------------------------
(***************************************************************************)
(* Parts and sums of sequences.                                            *)
(***************************************************************************)
EXTENDS Integers, SequencesExt

\* The elements of s that are in S: SelectSeq, as a function that can be reasoned about.
Selected(s, S) ==
    LET first[n \in 0 .. Len(s)] == IF n = 0 THEN <<>>
                                    ELSE IF s[n] \in S THEN Append(first[n - 1], s[n])
                                    ELSE first[n - 1]
    IN  first[Len(s)]

Plus(m, n) == m + n
Total(s)   == FoldLeft(Plus, 0, s)
=============================================================================
