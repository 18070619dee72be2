------------------------------- MODULE MCDrafts -------------------------------
(* A small instance of Drafts. *)
EXTENDS Drafts
=============================================================================
