------------------------------ MODULE MCWebChat ------------------------------
(* Two messages of one client on one thread, and one upset. *)
EXTENDS WebChat
==============================================================================
