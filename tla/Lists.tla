-------------------------------- MODULE Lists --------------------------------
(***************************************************************************)
(* The list comprehensions of the program.                                 *)
(***************************************************************************)
EXTENDS SequencesExt

\* [x for x in s if x in S].  A fold, because the provers know nothing of
\* SelectSeq.
Keep(s, S) ==
  FoldLeft(LAMBDA kept, x : IF x \in S THEN Append(kept, x) ELSE kept, <<>>, s)
=============================================================================
