------------------------------ MODULE MCAdmins ------------------------------
(* Model-checking instance of Admins; the .cfg files give the constants.   *)
EXTENDS Admins, TLC

Alike == Permutations(Users) \cup Permutations(RoleRequests)
=============================================================================
