------------------------------- MODULE Selection -------------------------------
(* A loop over a list that appends what it lets through to another one.     *)
EXTENDS Naturals, Sequences

\* The elements of s at the places in I, in their order.  (SelectSeq would say
\* it by a test, but has no definition that a prover could use.)
Selected(s, I) ==
    LET upTo[n \in 0 .. Len(s)] ==
            IF n = 0 THEN <<>>
            ELSE IF n \in I THEN Append(upTo[n - 1], s[n]) ELSE upTo[n - 1]
    IN  upTo[Len(s)]

=============================================================================
