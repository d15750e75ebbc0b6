------------------------------ MODULE TagGrammar ------------------------------
(***************************************************************************)
(* What AttrScan must come to, said without a cursor that is carried from  *)
(* attribute to attribute: the attributes XML itself would read.           *)
(***************************************************************************)
EXTENDS AttrScan

NameChar == {"x", "y"}

First(T) == CHOOSE k \in T : \A l \in T : k <= l

(* The first position from p on that is not in S.                           *)
After(p, S) == First({k \in p .. End : k = End \/ tag[k] \notin S})

(* The attribute XML reads at p, if there is one: a space, a name, =, and a *)
(* quoted value without <.                                                  *)
StrictAt(p) ==
  LET begin == After(p, {" "})
      eq    == After(After(begin, NameChar), {" "})
      quote == After(eq + 1, {" "})
      ends  == {k \in quote + 1 .. Len(tag) : tag[k] = tag[quote]}
  IN  IF /\ p < begin /\ Is(begin, NameChar)
         /\ Is(eq, {"="}) /\ Is(quote, Quote)
         /\ ends # {} /\ \A k \in quote .. First(ends) : tag[k] # "<"
      THEN {[name |-> At(begin, After(begin, NameChar)), value |-> At(quote + 1, First(ends))]}
      ELSE {}

(* Where a bare name that stands at p is over; none if there is none.       *)
BareEnd(p) ==
  LET begin == After(p, {" "})
      to    == After(begin, NameChar)
  IN  IF /\ p < begin /\ Is(begin, NameChar)
         /\ Is(to, {" "} \cup Stop) /\ ~Is(After(to, {" "}), {"="})
      THEN {to} ELSE {}

(* All the attributes, with bare names between them, up to the first fault, *)
(* and where that is.                                                       *)
StrictFrom[p \in 1 .. End] ==
  CASE StrictAt(p) # {} ->
         LET a    == CHOOSE a \in StrictAt(p) : TRUE
             rest == StrictFrom[a.value.to + 1]
         IN  [all |-> {a} \cup rest.all, to |-> rest.to]
    [] StrictAt(p) = {} /\ BareEnd(p) # {} -> StrictFrom[CHOOSE to \in BareEnd(p) : TRUE]
    [] OTHER -> [all |-> {}, to |-> p]

Begin  == After(IF Is(1, {"<"}) THEN 2 ELSE 1, NameChar)
Strict == StrictFrom[Begin]

Repeated(all, a) == \E b \in all : b.name.from < a.name.from /\ TextOf(b.name) = TextOf(a.name)
Firsts(all)      == {a \in all : ~Repeated(all, a)}
Repeats(all)     == {a.name : a \in {b \in all : Repeated(all, b)}}

KeptAttrs == {attrs[k] : k \in 1 .. Len(attrs)}
Doubled   == {n \in 1 .. Len(diags) : diags[n].code = "DuplicateAttribute"}
DoubledAt == {diags[n].at : n \in Doubled}

(* A fault loses nothing that stands before it, and a tag without one is    *)
(* read as XML reads it, bare names apart: up to the first fault there are  *)
(* the attributes that stand there, each once, and a diagnostic for each    *)
(* repetition; if the tag ends there, there is nothing else.  SpansApart    *)
(* has the attributes in the order of the tag; the diagnostics are, too.    *)
WellFormedIsKept ==
  stage = "done" =>
    /\ {a \in KeptAttrs : a.name.from < Strict.to} = Firsts(Strict.all)
    /\ {s \in DoubledAt : s.from < Strict.to} = Repeats(Strict.all)
    /\ Is(After(Strict.to, {" "}), Stop) => /\ KeptAttrs = Firsts(Strict.all)
                                           /\ DoubledAt = Repeats(Strict.all)
    /\ \A m, n \in Doubled : m < n => diags[m].at.to < diags[n].at.from
==============================================================================
