------------------------------ MODULE MCFocus -------------------------------
(* Model values and bounds for checking Focus with TLC: two applications  *)
(* and the login window; the first application has a window whose title   *)
(* changes, the second one's window has no id.                            *)
EXTENDS Focus

CONSTANTS mail, term, mailTitle, mailTitle2, termTitle

MCApp == {mail, term, Login}
MCTitle == {mailTitle, mailTitle2, termTitle}
MCWindow == {[app |-> mail, title |-> mailTitle, wid |-> 1],
             [app |-> mail, title |-> mailTitle2, wid |-> 1],
             [app |-> term, title |-> termTitle, wid |-> 0],
             [app |-> Login, title |-> LoginTitle, wid |-> 0]}
=============================================================================
