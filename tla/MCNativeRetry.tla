---------------------------- MODULE MCNativeRetry ----------------------------
(* NativeRetry with the back-offs of the code and a short deadline.           *)
EXTENDS NativeRetry

Doubling == <<1, 2, 4>>

=============================================================================
