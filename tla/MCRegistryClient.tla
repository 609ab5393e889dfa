-------------------------- MODULE MCRegistryClient --------------------------
(* A small registry: five names, up to three changes while it is listed, so
   that a listing has up to five pages and a name may come, go and come again
   between them. *)
EXTENDS RegistryClient

MCName == 1..5
=============================================================================
