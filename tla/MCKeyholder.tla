---------------------------- MODULE MCKeyholder ----------------------------
(***************************************************************************)
(* A command of two calls, like send, and a call whose answer the          *)
(* keyholder does not hand on.                                             *)
(***************************************************************************)
EXTENDS Keyholder

MCCommand == {<<"get_tip_header", "push_representation">>, <<"get_imbalances">>}
=============================================================================
