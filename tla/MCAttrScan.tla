------------------------------ MODULE MCAttrScan ------------------------------
(* Model-checking instances of AttrScan: all the tags of a few tokens: four *)
(* of any kind, before or in a value, four of whole attributes, and five    *)
(* bytes of a value.                                                        *)
EXTENDS TagGrammar, SequencesExt

Loosely == {<<" ">>, <<"x">>, <<"=">>, <<"'">>, <<"\"">>, <<"/">>, <<"&">>, <<"<">>}
Wholly  == {<<" ", "x", "=", "'", "y", "'">>, <<" ", "y", " ", "=", " ", "\"", "&", "\"">>,
            <<" ", "x">>, <<"=", "\"", "$", "'", "\"">>, <<"/">>, <<"=", "y">>}
Valued  == {<<"&">>, <<";">>, <<"x">>, <<"$">>, <<" ">>}

MCResolvable == {<<"x">>, <<"x", "x">>, <<"x", "x", "x">>}

InTag   == <<"<", "x">>
InValue == <<"<", "x", " ", "y", "=", "'">>

MCTags ==
  {start \o FlattenSeq(s) \o <<">">> : start \in {InTag, InValue}, s \in BoundedSeq(Loosely, 4)}
    \cup {InTag \o FlattenSeq(s) \o <<">">> : s \in BoundedSeq(Wholly, 4)}
    \cup {InValue \o FlattenSeq(s) \o <<"'", ">">> : s \in BoundedSeq(Valued, 5)}
==============================================================================
