------------------------------ MODULE MCCache ------------------------------
(* Prompts for TLC, as the bag-of-words embedder sees them.  "transfer 1.5  *)
(* and 2" and "transfer 1 and 5.2" are twins: the same words to the         *)
(* embedder, since _tokens splits at the point, and other numerals.  A      *)
(* paraphrase of the first scores above the threshold against both, and a   *)
(* prompt without a Latin word or a digit has an empty vector.              *)
EXTENDS CacheUse, TLC

CONSTANTS ask, paraphrase, twin, wordless, s1, s2

MCPrompts == {ask, paraphrase, twin, wordless}
MCNumbers == [p \in MCPrompts |-> CASE p = twin -> {"1", "5.2"}
                                    [] p = wordless -> {}
                                    [] OTHER -> {"1.5", "2"}]
MCSimilarity ==
    [p \in MCPrompts |-> [q \in MCPrompts |->
        IF wordless \in {p, q} THEN 0
        ELSE IF p = q \/ {p, q} = {ask, twin} THEN 100
        ELSE 93]]

MCScopes == {s1, s2}
Symmetry == Permutations(MCScopes)
=============================================================================
