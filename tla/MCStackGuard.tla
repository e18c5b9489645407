----------------------------- MODULE MCStackGuard ----------------------------
(***************************************************************************)
(* Two functions, each without a return, with one that is not the last     *)
(* instruction, or with two.                                               *)
(***************************************************************************)
EXTENDS StackGuard

CONSTANTS fun, gun, k, l

MCLayouts == {<<"other">>, <<"ret", "other">>, <<"ret", "other", "ret">>}
=============================================================================
