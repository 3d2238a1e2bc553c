-------------------------- MODULE MCServerDispatch --------------------------
(* Model-checking instance of ServerDispatch. *)
EXTENDS ServerDispatch

=============================================================================
