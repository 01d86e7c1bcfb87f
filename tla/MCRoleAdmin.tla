---------------------------- MODULE MCRoleAdmin ----------------------------
(* Instances of RoleAdmin for TLC.                                          *)
EXTENDS RoleAdmin, TLC

CONSTANTS u1, u2, u3, s1

Caps == {"ack_alert", ManageRoles, CreateUser}
Privileged == {ManageRoles, CreateUser}
Operator == {"control_room_operator"}

Acting == [role |-> SuperAdmin, active |-> TRUE]

\* One administrator, one account to be created.
OneAdmin == [u \in User |-> IF u = u1 THEN Acting ELSE None]

\* Two administrators, and an operator if there is a third account.
TwoAdmins ==
  [u \in User |-> IF u \in {u1, u2} THEN Acting
                  ELSE [role |-> "control_room_operator", active |-> TRUE]]

\* What any administrator may send about one custom role and the accounts.
EveryPayload ==
  [op : {"list"}]
  \cup [op : RoleOps, slug : Slug, caps : {{}, {"ack_alert", ManageRoles}}]
  \cup [op : {"create_user"}, user : User, role : Role]
  \cup [op : {"assign_user"}, user : User, role : Role \cup {None},
        active : BOOLEAN \cup {None}]

\* Requests that contend: for the custom role, and for an account's columns.
Contending ==
  [op : RoleOps, slug : Slug, caps : {{"ack_alert", ManageRoles}}]
  \cup [op : {"create_user", "create_account"}, user : {u2}, role : Slug]
  \cup [op : {"assign_user"}, user : {u2}, role : {SuperAdmin, None} \cup Slug,
        active : {FALSE, None}]

\* Two administrators turn on each other, or give and remove the role.
TurningOn ==
  [op : {"assign_user"}, user : {u1, u2}, role : {"control_room_operator", None},
   active : {FALSE, None}]
GiveAndRemove ==
  [op : {"create_role", "delete_role"}, slug : Slug, caps : {{}}]
  \cup [op : {"assign_user"}, user : {u2}, role : Slug, active : {None}]
=============================================================================
