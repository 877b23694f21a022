-------------------------- MODULE MCCredentialGate --------------------------
(* CredentialGate with a handful of requests.                                *)
EXTENDS CredentialGate
=============================================================================
