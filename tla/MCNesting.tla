------------------------------ MODULE MCNesting ------------------------------
(* Model-checking instances of Nesting.                                     *)
EXTENDS Nesting

MCWidths  == {1}
MCNoBom   == {0}
MCBom     == {0, 1}
MCNoFlaws == {FALSE}
MCPlain   == {"plain"}
==============================================================================
