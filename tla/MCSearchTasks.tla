--------------------------- MODULE MCSearchTasks ---------------------------
(* Model-checking instances of SearchTasks.                                *)
EXTENDS SearchTasks
=============================================================================
