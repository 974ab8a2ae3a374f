------------------------------ MODULE MCForms ------------------------------
(***************************************************************************)
(* Instances of Forms for TLC.                                             *)
(***************************************************************************)
EXTENDS Forms, TLC

CONSTANTS l1, t1, t2, x1, x2

MCTabs == {t1, t2}
MCLinks == {l1}
MCTexts == {x1, x2}
Alike == Permutations(MCTabs) \cup Permutations(MCTexts)
=============================================================================
