------------------------- MODULE MCSessionLifecycle -------------------------
(* Two users, one sign-in beside the session of an earlier process, one expiry *)
(* event, whose handler signs out as a user does, and one RPC.                 *)
EXTENDS SessionLifecycle
==============================================================================
