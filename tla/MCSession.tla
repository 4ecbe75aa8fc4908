----------------------------- MODULE MCSession -----------------------------
(***************************************************************************)
(* A window and its daemon on a small instance.                            *)
(***************************************************************************)
EXTENDS Session
=============================================================================
