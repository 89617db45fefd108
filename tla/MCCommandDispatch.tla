-------------------------- MODULE MCCommandDispatch --------------------------
(* CommandDispatch on a small instance: the bounds are in dispatch.cfg.    *)
EXTENDS CommandDispatch
=============================================================================
