---------------------------- MODULE CredentialsMC ----------------------------
(* Small instances of Credentials. *)
EXTENDS Credentials, TLC

CONSTANTS c1, c2, c3
=============================================================================
