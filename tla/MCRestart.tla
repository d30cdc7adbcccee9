----------------------------- MODULE MCRestart ------------------------------
(* Model values and bounds for checking Restart with TLC: one application  *)
(* with two processes; the first has two windows whose titles differ only  *)
(* in case.                                                                *)
EXTENDS Restart, TLC

CONSTANTS editor, doc, Doc, other

MCTitleKey == [t \in {doc, Doc, other} |-> IF t = Doc THEN doc ELSE t]

MCFocus == {[app |-> editor, pid |-> 1, win |-> 1, title |-> doc],
            [app |-> editor, pid |-> 1, win |-> 2, title |-> Doc],
            [app |-> editor, pid |-> 2, win |-> 3, title |-> NoTitle]}

RunSymmetry == Permutations(Run)
=============================================================================
