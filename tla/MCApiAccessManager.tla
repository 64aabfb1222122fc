-------------------------- MODULE MCApiAccessManager --------------------------
(***************************************************************************)
(* ApiAccessManager on one polling group and one or two settable nodes.    *)
(***************************************************************************)
EXTENDS ApiAccessManager
=============================================================================
