-------------------------- MODULE MCCommandChannel --------------------------
(* CommandChannel with a few client threads, named in the cfg as model     *)
(* values.                                                                 *)
EXTENDS CommandChannel
=============================================================================
