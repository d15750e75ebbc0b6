---------------------------- MODULE MCValueEngine ----------------------------
(* Model-checking instances of ValueEngine: all the trees of a few nodes.   *)
EXTENDS RecursiveValues, SequencesExt

CONSTANT Size   (* the number of nodes                                      *)

Plain(kind) == [kind |-> kind, kids |-> <<>>, flawed |-> FALSE,
                key |-> FALSE, keyRef |-> "absent", value |-> FALSE, valueRef |-> "absent"]
Flawed(kind) == [Plain(kind) EXCEPT !.flawed = TRUE]
Attrs(kind, literal, ref) == [Plain(kind) EXCEPT !.value = literal, !.valueRef = ref]

MCNodes == 1 .. Size

(* The last node read and its ancestors: where the next node may go.        *)
RECURSIVE Spine(_, _)
Spine(d, n) == {n} \cup IF d[n].kids = <<>> THEN {} ELSE Spine(d, Last(d[n].kids))

Grown(d, n, p, node) == [d EXCEPT ![n] = node, ![p].kids = Append(@, n)]

(* The trees of n nodes that begin with the kinds of prefix, each the child *)
(* of the last; shapes tells, for a kind, the nodes that may be its child.  *)
RECURSIVE Trees(_, _, _)
Trees(n, prefix, shapes) ==
  IF n = 1 THEN {[m \in MCNodes |-> IF m = 1 THEN Plain("bean") ELSE Plain("other")]}
  ELSE LET smaller == Trees(n - 1, prefix, shapes) IN
    IF n <= Len(prefix) THEN {Grown(d, n, n - 1, Plain(prefix[n])) : d \in smaller}
    ELSE UNION {UNION {{Grown(d, n, p, s) : s \in shapes[d[p].kind]} : p \in Spine(d, 1)} :
                  d \in smaller}

Injections == {Plain("property"), Attrs("constructor-arg", FALSE, "empty"),
               Attrs("property", TRUE, "empty"), Attrs("property", FALSE, "named")}
Values == {Plain("bean"), Flawed("bean"), Plain("list"), Plain("ref"), Flawed("ref")}

BeanShapes == [k \in Kind |->
  CASE k = "bean" -> Injections \cup {Flawed("other")}
    [] k = "property" -> Values \cup {Plain("other")}
    [] k = "constructor-arg" -> {Plain("bean"), Flawed("ref"), Plain("meta")}
    [] k = "list" -> {Plain("bean"), Flawed("bean"), Flawed("ref"), Plain("other")}
    [] OTHER -> {}]

DeepShapes == [k \in Kind |->
  CASE k = "bean" -> {Plain("property")}
    [] k \in {"property", "key"} -> {Plain("bean"), Plain("list"), Plain("map")}
    [] k = "list" -> {Plain("bean"), Plain("list"), Plain("map"), Plain("props")}
    [] k = "entry" -> {Plain("bean"), Plain("list"), Plain("map"), Plain("key")}
    [] k = "map" -> {Plain("entry")}
    [] OTHER -> {}]

MapShapes == [k \in Kind |->
  CASE k = "map" -> {Plain("entry"), Plain("other"),
                     [Attrs("entry", TRUE, "empty") EXCEPT !.keyRef = "empty"],
                     [Attrs("entry", FALSE, "empty") EXCEPT !.key = TRUE, !.keyRef = "named"]}
    [] k = "entry" -> {Plain("key"), Plain("value"), Plain("list"), Plain("other")}
    [] k = "key" -> {Plain("list"), Flawed("ref"), Plain("value")}
    [] k = "list" -> {Plain("value")}
    [] OTHER -> {}]

MCDocuments ==
  Trees(5, <<"bean">>, BeanShapes)
    \cup Trees(8, <<"bean", "property", "map", "entry">>, MapShapes)
    \cup Trees(6, <<"bean">>, DeepShapes)
==============================================================================
