------------------------------- MODULE Elements -------------------------------
(* What the handlers of src/src/dispatch.rs, bean.rs, inject_value.rs and   *)
(* collection.rs read off one element: attributes by name, texts, lists of  *)
(* tokens, references and literals.                                         *)
(*                                                                          *)
(* A string is a sequence of tokens, and a token is one unit of source; an  *)
(* entity is two, for its semicolon separates the names of a list.  An      *)
(* attribute is its prefix, its local name without a final "-ref", whether  *)
(* it ends so, where it begins and its value; the names of one element      *)
(* differ.  An element has its namespace resolved; its content is its       *)
(* children and its runs of text, in order.                                 *)
EXTENDS Integers, Sequences, SequencesExt

Openers    == {"${", "#{"}
Blanks     == {" "}
Separators == Blanks \cup {",", ";"}
Entity     == <<"&amp", ";">>
Digits     == [d \in {"0", "1", "2", "9"} |->
                 CASE d = "0" -> 0 [] d = "1" -> 1 [] d = "2" -> 2 [] d = "9" -> 9]

Spanned(value, from, to) == [value |-> value, from |-> from, to |-> to]
SpanOf(x)                == [from |-> x.from, to |-> x.to]
Diag(code, span)         == <<[code |-> code, span |-> {span}]>>

(* What a handler returns, an option mostly, and the diagnostics it pushes. *)
Answer(got, told) == [got |-> got, told |-> told]
After(told, answer) == Answer(answer.got, told \o answer.told)
The(option)       == CHOOSE x \in option : TRUE

(* One thing after the other, each made of what the ones before have left.  *)
InOrder(Step(_, _), start, list) ==
  FoldLeft(LAMBDA sofar, x : The({Step(s, x) : s \in {sofar}}), start, list)
-----------------------------------------------------------------------------
NameLength(a) == (IF a.prefix = "" THEN 0 ELSE 2) + Len(a.local) + (IF a.ref THEN 1 ELSE 0)
ValueStart(a) == a.from + NameLength(a) + 2

SpannedAttr(a) == Spanned(a.value, ValueStart(a), ValueStart(a) + Len(a.value))
AttrSpan(a)    == [from |-> a.from, to |-> SpannedAttr(a).to + 1]

FindAttr(e, name) == {a \in ToSet(e.attrs) : a.prefix = "" /\ a.local = <<name>> /\ ~a.ref}
FindRef(e, name)  == {a \in ToSet(e.attrs) : a.prefix = "" /\ a.local = <<name>> /\ a.ref}

Written(e, name) == {SpannedAttr(a) : a \in FindAttr(e, name)}

FindBool(e, name) ==
  {v \in BOOLEAN : \E w \in Written(e, name) : w.value = <<IF v THEN "true" ELSE "false">>}

(* A required name that is missing is empty, at the element.                *)
OrEmpty(option, e) == IF option = {} THEN Spanned(<<>>, e.from, e.to) ELSE The(option)

(* class=, type= and value-type=: empty is as absent.                       *)
ClassRef(e, name) == {c \in Written(e, name) : c.value # <<>>}
-----------------------------------------------------------------------------
Children(e)     == SelectSeq(e.content, LAMBDA n : n.is = "element")
TextSegments(e) == SelectSeq(e.content, LAMBDA n : n.is = "text")

IsBeansNs(ns) == ns \in {"", "schema/beans"}
Is(e, local)  == IsBeansNs(e.ns) /\ e.local = local
ChildrenNamed(e, local) == SelectSeq(Children(e), LAMBDA c : Is(c, local))

Merged(segments, fallback) ==
  IF segments = <<>> THEN Spanned(<<>>, fallback.from, fallback.to)
  ELSE Spanned(FlattenSeq([i \in DOMAIN segments |-> segments[i].value]),
               Head(segments).from, Last(segments).to)

ElementText(e) == Merged(TextSegments(e), e)

(* Trimmed, and the span with it unless the runs had gaps between them.     *)
NonBlank(text)  == {i \in DOMAIN text.value : text.value[i] \notin Blanks}
Trimmed(text) ==
  LET first == CHOOSE i \in NonBlank(text) : \A j \in NonBlank(text) : i <= j
      last  == CHOOSE i \in NonBlank(text) : \A j \in NonBlank(text) : i >= j
      value == SubSeq(text.value, first, last)
  IN  IF text.to - text.from = Len(text.value)
      THEN Spanned(value, text.from + first - 1, text.from + last)
      ELSE Spanned(value, text.from, text.to)

(* Mutant of NonEmptyTrimmed: the span stays.                               *)
TrimmedOnly(text) == IF NonBlank(text) = {} THEN {}
                     ELSE {[text EXCEPT !.value = Trimmed(text).value]}

NonEmptyTrimmed(text) == IF NonBlank(text) = {} THEN {} ELSE {Trimmed(text)}
-----------------------------------------------------------------------------
(* split_name_tokens: one unit at a time, beginning a token or going on     *)
(* with the last.                                                           *)
Growing(tokens, at) == tokens # <<>> /\ Last(tokens).to = at

SplitNameTokens(text) ==
  InOrder(LAMBDA tokens, i :
             LET at == text.from + i - 1 IN
             CASE text.value[i] \in Separators -> tokens
               [] text.value[i] \notin Separators /\ Growing(tokens, at) ->
                    [tokens EXCEPT ![Len(tokens)].value = Append(@, text.value[i]),
                                   ![Len(tokens)].to    = at + 1]
               [] OTHER -> Append(tokens, Spanned(<<text.value[i]>>, at, at + 1)),
           <<>>, [i \in DOMAIN text.value |-> i])

(* split_comma_list: what is between two commas, trimmed, unless it is      *)
(* blank.                                                                   *)
Commas(text) ==
  <<0>> \o SelectSeq([i \in DOMAIN text.value |-> i], LAMBDA i : text.value[i] = ",")
    \o <<Len(text.value) + 1>>

Between(text, i, j) ==
  Spanned(SubSeq(text.value, i + 1, j - 1), text.from + i, text.from + j - 1)

(* Mutant of SplitCommaList: the last piece is forgotten.                   *)
SplitAtCommas(text) ==
  LET at == Commas(text) IN
  FlattenSeq([k \in 1 .. Len(at) - 2 |->
                SetToSeq(NonEmptyTrimmed(Between(text, at[k], at[k + 1])))])

SplitCommaList(text) ==
  LET at == Commas(text) IN
  FlattenSeq([k \in 1 .. Len(at) - 1 |->
                SetToSeq(NonEmptyTrimmed(Between(text, at[k], at[k + 1])))])
-----------------------------------------------------------------------------
(* coalesce_contiguous_segments: only runs with nothing between them.       *)
(* Mutant of Coalesced: runs with a gap between them, too.                  *)
CoalescedAcross(segments) ==
  IF segments = <<>> THEN <<>> ELSE <<Merged(segments, Head(segments))>>

Coalesced(segments) ==
  InOrder(LAMBDA runs, s :
             IF runs # <<>> /\ Last(runs).to = s.from
             THEN [runs EXCEPT ![Len(runs)].value = @ \o s.value, ![Len(runs)].to = s.to]
             ELSE Append(runs, Spanned(s.value, s.from, s.to)),
           <<>>, segments)

(* extract_from_slice on a text in which no expression is nested: module    *)
(* PlaceholderScan has the general case.  An opener without a brace to      *)
(* close it ends the harvest.                                               *)
Braces(t, i)  == {j \in DOMAIN t : j > i /\ t[j] \in Openers \cup {"}"}}
CloseOf(t, i) == {j \in Braces(t, i) : t[j] = "}" /\ \A k \in Braces(t, i) : j <= k}
Expressions(t, opener) ==
  SelectSeq([i \in DOMAIN t |-> i],
            LAMBDA i : t[i] = opener /\ \A k \in 1 .. i : t[k] \in Openers => CloseOf(t, k) # {})

(* leading_bean_ref_candidate *)
LeadingName(inner) ==
  LET first == CHOOSE i \in NonBlank(inner) : \A j \in NonBlank(inner) : i <= j IN
  IF NonBlank(inner) = {} \/ inner.value[first] \in DOMAIN Digits \cup {"&amp", ";", ","} THEN <<>>
  ELSE <<Spanned(<<inner.value[first]>>, inner.from + first - 1, inner.from + first)>>

BracedName(run, i, close) ==
  Spanned(SubSeq(run.value, i + 1, close - 1), run.from + i, run.from + close - 1)

EntryFor(inner, opener) ==
  CASE inner.value = <<>> -> <<>>
    [] inner.value # <<>> /\ opener = "${" -> <<inner>>
    [] OTHER -> LeadingName(inner)

Extracted(run, opener) ==
  LET at == Expressions(run.value, opener) IN
  FlattenSeq([k \in DOMAIN at |->
                EntryFor(BracedName(run, at[k], The(CloseOf(run.value, at[k]))), opener)])

Harvest(segments, opener) ==
  LET runs == Coalesced(segments) IN
  FlattenSeq([r \in DOMAIN runs |-> Extracted(runs[r], opener)])

(* build_value_lit_from_segments, and build_value_lit of one text.          *)
ValueLit(segments, text, span, type) ==
  [is |-> "value", span |-> SpanOf(span), text |-> text, value_type |-> type,
   placeholders |-> Harvest(segments, "${"), spel_refs |-> Harvest(segments, "#{")]

LitOfAttr(a) == LET text == SpannedAttr(a) IN ValueLit(<<text>>, text, text, {})
LitOfElement(e, type) == ValueLit(TextSegments(e), ElementText(e), e, type)
-----------------------------------------------------------------------------
BeanRef(text, kind) == [raw |-> text.value, kind |-> kind, from |-> text.from, to |-> text.to]

(* spanned_bean_ref, bean_ref_from_attr: never an empty reference.          *)
RefOfAttr(a, kind) ==
  IF a.value = <<>> THEN Answer({}, Diag("RefWithoutTarget", SpanOf(SpannedAttr(a))))
  ELSE Answer({BeanRef(SpannedAttr(a), kind)}, <<>>)

NoTarget(e) == Answer({}, Diag("RefWithoutTarget", SpanOf(e)))

OptionalRef(e, name) ==
  IF FindAttr(e, name) = {} THEN Answer({}, <<>>) ELSE RefOfAttr(The(FindAttr(e, name)), "bean")

RequiredRef(e, name) == IF FindAttr(e, name) = {} THEN NoTarget(e) ELSE OptionalRef(e, name)

(* ref_from_element, idref_from_element: the first that is there.           *)
RefOfElement(e) ==
  CASE FindAttr(e, "bean") # {} -> RefOfAttr(The(FindAttr(e, "bean")), "bean")
    [] FindAttr(e, "bean") = {} /\ FindAttr(e, "local") # {} ->
         RefOfAttr(The(FindAttr(e, "local")), "local")
    [] FindAttr(e, "bean") \cup FindAttr(e, "local") = {} /\ FindAttr(e, "parent") # {} ->
         RefOfAttr(The(FindAttr(e, "parent")), "parent_container")
    [] OTHER -> NoTarget(e)

IdrefOfElement(e) ==
  CASE FindAttr(e, "bean") # {} -> RefOfAttr(The(FindAttr(e, "bean")), "bean")
    [] FindAttr(e, "bean") = {} /\ FindAttr(e, "local") # {} ->
         RefOfAttr(The(FindAttr(e, "local")), "local")
    [] OTHER -> NoTarget(e)
=============================================================================
