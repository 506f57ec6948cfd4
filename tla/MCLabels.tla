------------------------------ MODULE MCLabels -------------------------------
(***************************************************************************)
(* Labels on two organizations with one member each and one who is in      *)
(* both, a task of the first, and two requests in flight.                  *)
(***************************************************************************)
EXTENDS Labels

CONSTANTS u1, u2, o1, o2, t1

MCOrgOf == [t \in {t1} |-> o1]

\* u2 is in both, so that a member of the task's organization can ask for a
\* label of the other one.
MCMembersOf == [o \in {o1, o2} |-> IF o = o1 THEN {u1, u2} ELSE {u2}]
=============================================================================
