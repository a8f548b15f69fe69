-------------------------- MODULE MCPinciteService --------------------------
(***************************************************************************)
(* Model-checking instances of PinciteService.                             *)
(***************************************************************************)
EXTENDS PinciteService
====
