-------------------------------- MODULE MCIam --------------------------------
(* A small instance of Iam: an administrator, another user, and an old group *)
(* that confers the administrator's role.                                    *)
EXTENDS Iam, TLC

CONSTANTS root, user, admin, g0, staff

MCGroup == Req \cup {g0}
MCConfers == admin :> Permission
MCSeeded == {<<"user_role", root, admin>>, <<"group_role", g0, admin>>}
MCSeedGroups == [g \in Group |-> IF g = g0 THEN staff ELSE NoName]

Symmetry == Permutations(Req)
=============================================================================
