---------------------------- MODULE MCReconciler ----------------------------
(***************************************************************************)
(* Instances of ClusterReconciler.tla for TLC: model values for the roles, *)
(* the member counts a cluster starts with and those it may move between.  *)
(* The two roles and the two members of a role are not symmetric (one role *)
(* may lack a setup package, ordinals are ordered): no symmetry is used.   *)
(***************************************************************************)
EXTENDS ClusterProperties, TLC

CONSTANTS a, b

AllEvents   == [r \in Roles |-> Events]
FewerEvents == (a :> {"configure", "addnodes"} @@ b :> {"addnodes"})

One      == (a :> 1)
Two      == (a :> 2)
OneNone  == (a :> 1 @@ b :> -1)

Growth   == {<<1, 2>>}
Resizing == {<<1, 2>>, <<2, 1>>}
ToZero   == Resizing \cup {<<1, 0>>, <<0, 1>>}
Roles01  == {<<-1, 1>>, <<1, 0>>, <<1, -1>>}
=============================================================================
