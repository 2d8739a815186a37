------------------------------ MODULE MCIfQueue ------------------------------
(* All sockets serve one guest, as in the app; others send broadcasts' answers. *)
EXTENDS IfQueue
OneGuest == [s \in Sockets |-> CHOOSE g \in Guests : TRUE]
=============================================================================
