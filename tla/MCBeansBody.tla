----------------------------- MODULE MCBeansBody -----------------------------
(* Model-checking instances of BeansBody: all the trees of a few nodes.     *)
EXTENDS BodiesAsDeclared, SequencesExt

CONSTANT Size   (* the number of nodes                                      *)

Unbound == [p \in NsPrefixes |-> {}]
Plain(local) == [prefix |-> "", local |-> local, xmlns |-> Unbound,
                 kids |-> <<>>, id |-> {}, flawed |-> FALSE]
Flawed(node)        == [node EXCEPT !.flawed = TRUE]
WithId(node, id)    == [node EXCEPT !.id = {id}]
Prefixed(p, node)   == [node EXCEPT !.prefix = p]
Binding(node, p, u) == [node EXCEPT !.xmlns[p] = {u}]

MCNodes == 1 .. Size

(* The last node read and its ancestors: where the next node may go.        *)
RECURSIVE Spine(_, _)
Spine(d, n) == {n} \cup IF d[n].kids = <<>> THEN {} ELSE Spine(d, Last(d[n].kids))

Grown(d, n, p, node) == [d EXCEPT ![n] = node, ![p].kids = Append(@, n)]

(* The trees of n nodes with one of roots at the root; shapes is what may   *)
(* be the child of a <beans>.                                               *)
RECURSIVE Trees(_, _, _)
Trees(n, roots, shapes) ==
  IF n = 1 THEN {[m \in MCNodes |-> IF m = 1 THEN r ELSE Plain("other")] : r \in roots}
  ELSE UNION {{Grown(d, n, p[1], p[2]) :
                 p \in {m \in Spine(d, 1) : d[m].local = "beans"} \X shapes} :
                   d \in Trees(n - 1, roots, shapes)}

BodyRoots  == {Plain("beans")}
BodyShapes == {Plain("beans"), WithId(Plain("bean"), "a"), Flawed(WithId(Plain("bean"), "a")),
               Plain("bean"), Plain("description"), Plain("import"), Plain("other")}

MCUris == {"", BeansUri, ContextUri, "schema/foreign"}
ScopeRoots  == {Plain("beans"), Prefixed("x", Binding(Plain("beans"), "x", BeansUri))}
OtherRoots  == {Prefixed("x", Plain("beans")), Binding(Plain("beans"), "", "schema/foreign")}
ScopeShapes ==
  {Binding(Plain("beans"), "", "schema/foreign"), Prefixed("x", Plain("beans")),
   Prefixed("x", Binding(Plain("beans"), "x", BeansUri)),
   Binding(Prefixed("x", Plain("beans")), "", ""),
   WithId(Plain("bean"), "a"), Flawed(Prefixed("x", WithId(Plain("bean"), "a"))),
   Binding(Prefixed("x", Plain("component-scan")), "x", ContextUri),
   Prefixed("context", Plain("component-scan")), Prefixed("util", Plain("properties"))}

NestRoots  == {Plain("beans")}
NestShapes == {Binding(Plain("beans"), "x", BeansUri), Prefixed("x", Plain("beans")),
               Binding(Plain("alias"), "x", BeansUri)}

MCDocuments ==
  Trees(5, BodyRoots, BodyShapes)
    \cup Trees(4, ScopeRoots, ScopeShapes) \cup Trees(3, OtherRoots, ScopeShapes)
    \cup Trees(5, NestRoots, NestShapes)
==============================================================================
