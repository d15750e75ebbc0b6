-------------------------- MODULE MCPlaceholderScan --------------------------
(* Model-checking instances of PlaceholderScan: all the texts of a few      *)
(* tokens: five with quotes or names in them, six with openers and a quote, *)
(* eight with openers nested deeper than the limit.                         *)
EXTENDS BracedGrammar, TLC

Quoting == {<<"$", "{">>, <<"#", "{">>, <<"{">>, <<"}">>, <<"'">>, <<"\"">>, <<"x">>}
Nesting == {<<"$", "{">>, <<"#", "{">>, <<"}">>, <<"'">>}
Naming  == {<<"$", "{">>, <<"#", "{">>, <<"}">>, <<" ">>, <<"x">>, <<"1">>, <<"$">>}
Deep    == {<<"$", "{">>, <<"}">>, <<"x">>}

MCTexts == {FlattenSeq(s) : s \in BoundedSeq(Quoting, 5) \cup BoundedSeq(Nesting, 7)
                                     \cup BoundedSeq(Naming, 5) \cup BoundedSeq(Deep, 8)}
==============================================================================
