---------------------------- MODULE MCAdminPage ----------------------------
(* TLC instance of AdminPage: two users on pages of one, two filters. *)
EXTENDS AdminPage

MCOrder == <<"other", "me">>
=============================================================================
