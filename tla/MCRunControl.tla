------------------------------ MODULE MCRunControl ------------------------------
(* A small instance of RunControl for TLC: its constants are model values.  *)
EXTENDS RunControl
==============================================================================
