---------------------------- MODULE BracedGrammar ----------------------------
(***************************************************************************)
(* What PlaceholderScan computes with a counter, a stack and a cursor, as  *)
(* a grammar: the body of an expression is a series of quoted texts (in    *)
(* #{...} only), of expressions, of braced bodies and of other bytes.      *)
(* It knows no slices, hence no base either, and no limit of its own to    *)
(* how deep it looks.                                                      *)
(***************************************************************************)
EXTENDS PlaceholderScan, FiniteSetsExt, SequencesExt

Opens(i) == i < Len(text) /\ text[i] \in Sigil /\ text[i + 1] = "{"

(* Where the text quoted at i is over.                                      *)
QuoteEnd(i) ==
  LET ends == {k \in i + 1 .. Len(text) : text[k] = text[i]}
  IN IF ends = {} THEN Len(text) + 1 ELSE Min(ends) + 1

(* The position after the brace that ends the body that goes on at i, in    *)
(* an expression inside `outer` others; none if there is no such brace, or  *)
(* if it takes more open expressions than the limit to get there.           *)
RECURSIVE BodyEnd(_, _, _)
BodyEnd(i, aware, outer) ==
  CASE i > Len(text) -> {}
    [] Opens(i) ->
         IF outer = DepthLimit THEN {}
         ELSE UNION {BodyEnd(e, aware, outer) : e \in BodyEnd(i + 2, text[i] = "#", outer + 1)}
    [] ~Opens(i) /\ aware /\ text[i] \in Quote -> BodyEnd(QuoteEnd(i), aware, outer)
    [] text[i] = "{" -> UNION {BodyEnd(e, aware, outer) : e \in BodyEnd(i + 1, aware, outer)}
    [] text[i] = "}" -> {i + 1}
    [] OTHER -> BodyEnd(i + 1, aware, outer)

(* What is read of the text from i to `to`, inside `outer` expressions.     *)
RECURSIVE Expressions(_, _, _, _)
Expressions(i, to, aware, outer) ==
  CASE i >= to -> <<>>
    [] aware /\ text[i] \in Quote -> Expressions(QuoteEnd(i), to, aware, outer)
    [] Opens(i) ->
         LET hash == text[i] = "#"
         IN FlattenSeq(SetToSeq(
              {SetToSeq(Entry(i, e - 1)) \o Expressions(i + 2, e - 1, hash, outer + 1)
                                         \o Expressions(e, to, aware, outer)
                 : e \in BodyEnd(i + 2, hash, outer)}))
    [] OTHER -> Expressions(i + 1, to, aware, outer)

(* The harvest is the grammar's: every expression of the text, however it   *)
(* is nested, once, outer before inner and in the order of the text, and    *)
(* neither limit loses one that the other lets through.                     *)
HarvestIsComplete ==
  stage = "done" => found = Expressions(1, Len(text) + 1, FALSE, 0)
==============================================================================
