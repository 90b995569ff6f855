------------------------------ MODULE MCServer ------------------------------
(* Two descriptors that three connections share.                           *)
EXTENDS Server

=============================================================================
