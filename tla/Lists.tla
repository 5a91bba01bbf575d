--------------------------------- MODULE Lists ---------------------------------
(***************************************************************************)
(* Sequences: the filters and loops of the code, written as recursive      *)
(* functions over positions, about which something can be proved (the      *)
(* provers know nothing of SelectSeq and of the folds).                    *)
(***************************************************************************)
EXTENDS Integers, Sequences

\* The elements of the sequence that are in the set, in their order.
Those(seq, set) ==
  LET upTo[n \in 0..Len(seq)] ==
        IF n = 0 THEN <<>>
        ELSE IF seq[n] \in set THEN Append(upTo[n - 1], seq[n]) ELSE upTo[n - 1]
  IN upTo[Len(seq)]
=============================================================================
