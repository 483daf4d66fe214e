------------------------------ MODULE MCAccounts ------------------------------
(***************************************************************************)
(* A small instance of Accounts: a renewal that names its user and a       *)
(* cancellation that does not.                                             *)
(***************************************************************************)
EXTENDS Accounts

MCNotices == {<<"active", TRUE>>, <<"lapsed", FALSE>>}
=============================================================================
