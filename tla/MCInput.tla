------------------------------ MODULE MCInput ------------------------------
(* Small instance of Input: see MCInput.cfg. *)
EXTENDS Input
=============================================================================
