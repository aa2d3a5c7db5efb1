------------------------------ MODULE MCTrash ------------------------------
(* One work object, two runs that would pin it and two maintenance workers.  *)
EXTENDS Trash
=============================================================================
