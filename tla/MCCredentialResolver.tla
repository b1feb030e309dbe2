------------------------ MODULE MCCredentialResolver ------------------------
(* A small instance of CredentialResolver: two callers.                     *)
EXTENDS CredentialResolver

CONSTANTS a, b
=============================================================================
