---------------------------- MODULE MCTreeBuilder ----------------------------
(* Model-checking instances of TreeBuilder.                                 *)
EXTENDS TreeBuilder

MCTextWidths == {1, 2, 3}
MCBoms     == {0, 1}
MCNoBom    == {0}
MCNoFlaws  == {FALSE}
MCMarks    == {"plain", "open", "close"}
==============================================================================
