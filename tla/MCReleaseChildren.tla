-------------------------- MODULE MCReleaseChildren -------------------------
(***************************************************************************)
(* ReleaseChildren on four hashes, two of them negative and one of them 0. *)
(***************************************************************************)
EXTENDS ReleaseChildren

MCHashMin == -2
=============================================================================
