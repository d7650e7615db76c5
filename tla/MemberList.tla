------------------------------ MODULE MemberList ------------------------------
(***************************************************************************)
(* What the status promises of the members of each role, to whoever looks  *)
(* at two versions of it: the first so many pods of the role are in        *)
(* service, others are on their way out.  Members come and go at the end;  *)
(* one that leaves does not come back; its name is given to a new member   *)
(* only when nobody of the role is leaving any more.                       *)
(***************************************************************************)
EXTENDS Integers

CONSTANTS Roles, MaxMembers

VARIABLES inService, leaving  \* the ordinals of each role's members

listVars == <<inService, leaving>>

First(n) == 0 .. (n - 1)

ListInit ==
  inService = [r \in Roles |-> {}] /\ leaving = [r \in Roles |-> {}]

Joins(r) ==
  /\ leaving[r] = {} /\ leaving'[r] = {}
  /\ inService[r] \subseteq inService'[r]

\* Members may leave, and some of those leaving be gone.
Leaves(r) ==
  /\ inService'[r] \subseteq inService[r]
  /\ leaving'[r] \subseteq leaving[r] \cup (inService[r] \ inService'[r])

\* One status write may be about several roles.
ListNext ==
  \A r \in Roles :
    /\ \E n \in 0 .. MaxMembers : inService'[r] = First(n)
    /\ Joins(r) \/ Leaves(r)

ListSpec == ListInit /\ [][ListNext]_listVars
=============================================================================
