--------------------------- MODULE MCSupervision ----------------------------
(***************************************************************************)
(* Small instances of Supervision.                                         *)
(***************************************************************************)
EXTENDS Supervision
=============================================================================
