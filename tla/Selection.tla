------------------------------ MODULE Selection ------------------------------
(***************************************************************************)
(* What a loop over an array leaves that copies some of the elements and   *)
(* skips the others: filters without a name, URIs without a path.          *)
(***************************************************************************)
EXTENDS Naturals, Sequences

(* What it has copied after n iterations, if it copies the elements at the *)
(* places in I.                                                            *)
ElementsUpTo(s, I) ==
  LET upTo[n \in 0 .. Len(s)] ==
        IF n = 0 THEN <<>>
        ELSE IF n \in I THEN Append(upTo[n - 1], s[n])
        ELSE upTo[n - 1]
  IN  upTo

ElementsAt(s, I) == ElementsUpTo(s, I)[Len(s)]

=============================================================================
