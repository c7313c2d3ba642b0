------------------------- MODULE MCProjectsService -------------------------
(* Small instances of ProjectsService. *)
EXTENDS ProjectsService

(* Run 2 is the older one, so that the order of the list is not the order of the identifiers. *)
MCUpdatedAt == [r \in Runs |-> IF r = 2 THEN 1 ELSE 2]
=============================================================================
