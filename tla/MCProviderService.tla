--------------------------- MODULE MCProviderService ---------------------------
(***************************************************************************)
(* A Profile with two tools for ProviderService.                           *)
(***************************************************************************)
EXTENDS ProviderService

MCTools == <<"read", "write">>
=============================================================================
