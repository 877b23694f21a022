--------------------------- MODULE MCCatalogSync ---------------------------
(* CatalogSync on small instances: one of the versions of the Native cache   *)
(* cannot be admitted.                                                       *)
EXTENDS CatalogSync

=============================================================================
