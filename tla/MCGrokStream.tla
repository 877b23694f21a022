----------------------------- MODULE MCGrokStream -----------------------------
(* GrokStream on streams of a few events.                                      *)
EXTENDS GrokStream

=============================================================================
