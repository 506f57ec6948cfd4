------------------------------ MODULE MCTenancy ------------------------------
(* Two users, two organizations, two requests in flight.                   *)
EXTENDS Tenancy, TLC

\* Ids and emails carry no order and no property names one.
Symmetry == Permutations(Requests) \cup Permutations(Users)
              \cup Permutations(Emails) \cup Permutations(Orgs)
=============================================================================
