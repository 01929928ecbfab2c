-------------------------- MODULE MCThreadLifecycle --------------------------
(* TLC instances of ThreadLifecycle. *)
EXTENDS ThreadLifecycle
=============================================================================
