------------------------------- MODULE MCLeaves -------------------------------
(* Model-checking instance of AsWritten: documents of every kind of element *)
(* and attribute, laid out in a source of their own.                        *)
EXTENDS AsWritten

MCNsOf    == "p" :> PUri @@ "x" :> PUri @@ "f" :> "foreign"
MCWriters ==
  {[early |-> TRUE, names |-> ThisBuild.names]}
    \cup {[early |-> FALSE, names |-> [ThisBuild.names EXCEPT ![k] = "renamed"]] : k \in Kinds \cup Shapes}

(* Attributes, runs of text, what the tree builder leaves no node for (a    *)
(* comment, the delimiters of CDATA) and elements, not yet anywhere.        *)
Attr(prefix, local, ref, value) == [prefix |-> prefix, local |-> local, ref |-> ref, value |-> value]
A(name, value) == Attr("", <<name>>, FALSE, value)
R(name, value) == Attr("", <<name>>, TRUE, value)
T(value)       == [is |-> "text", value |-> value]
Gap            == [is |-> "gap"]
E(ns, local, attrs, content) ==
  [is |-> "element", ns |-> ns, local |-> local, attrs |-> attrs, content |-> content]
B(local, attrs, content) == E("schema/beans", local, attrs, content)
N(local, attrs) == E("", local, attrs, <<>>)

(* Laid out from a position on.                                             *)
PutAttrs(attrs, at) ==
  FoldLeft(LAMBDA put, a :
             LET x == [prefix |-> a.prefix, local |-> a.local, ref |-> a.ref, value |-> a.value,
                       from |-> put.at]
             IN  [list |-> Append(put.list, x), at |-> AttrSpan(x).to + 1],
           [list |-> <<>>, at |-> at], attrs)

RECURSIVE Put(_, _)
PutAll(nodes, at) ==
  FoldLeft(LAMBDA put, n :
             IF n.is = "gap" THEN [put EXCEPT !.at = @ + 3]
             ELSE LET x == Put(n, put.at) IN [list |-> Append(put.list, x), at |-> x.to],
           [list |-> <<>>, at |-> at], nodes)
Put(n, at) ==
  IF n.is = "text" THEN [is |-> "text", value |-> n.value, from |-> at, to |-> at + Len(n.value)]
  ELSE LET attrs   == PutAttrs(n.attrs, at + 3)
           content == PutAll(n.content, attrs.at + 1)
       IN  [is |-> "element", ns |-> n.ns, local |-> n.local, attrs |-> attrs.list,
            content |-> content.list, from |-> at, to |-> content.at + 2]
-----------------------------------------------------------------------------
Texts1 ==
  {<<T(<<"${", "k", "}">>)>>, <<T(<<"#{", "a", "}", "x", "#{", "1", "}">>)>>,
   <<T(<<"${", "k">>), T(Entity), T(<<"j", "}">>)>>, <<T(<<"${", "k">>), Gap, T(<<"j", "}">>)>>,
   <<T(<<"#{", "b", "}">>), Gap, T(<<"${", "k", "}", "${", "}">>)>>,
   <<T(<<"#{", " ", "b", " ", "}", "${", "j">>)>>, <<>>}

V(content) == B("value", <<>>, content)
Ref(name, value) == B("ref", <<A(name, value)>>, <<>>)

References ==
  {Ref("bean", <<"a">>), Ref("bean", <<>>), Ref("local", <<"a">>), Ref("parent", Entity \o <<"a">>),
   N("ref", <<>>), N("ref", <<A("local", <<"b">>), A("bean", <<>>)>>),
   N("idref", <<A("bean", <<"a">>)>>), N("idref", <<A("local", <<>>)>>),
   N("idref", <<A("parent", <<"a">>)>>)}

Entry(attrs, content) == B("entry", attrs, content)
Maps ==
  {B("map", <<A("key-type", <<"K">>), A("merge", <<"true">>)>>,
     <<Entry(<<A("key", <<"#{", "a", "}">>), R("value", <<"b">>)>>, <<>>),
       Entry(<<R("key", <<>>), R("value", <<>>)>>, <<V(<<T(<<"x">>)>>)>>),
       N("unknown", <<>>)>>),
   B("map", <<A("value-type", <<>>)>>,
     <<Entry(<<A("key", <<"k">>), R("key", <<"a">>), A("value", <<"v">>), R("value", <<"b">>)>>, <<>>),
       Entry(<<>>, <<B("key", <<>>, <<>>), B("key", <<>>, <<Ref("bean", <<>>)>>),
                     B("key", <<>>, <<Ref("bean", <<"a">>)>>), N("null", <<>>)>>)>>)}

Props1 == B("props", <<A("merge", <<"maybe">>)>>,
            <<B("prop", <<A("key", <<"k">>)>>, <<T(<<"#{", "a", "}">>)>>), N("prop", <<>>)>>)

InnerBean == B("bean", <<A("class", <<"C">>), Attr("p", <<"n">>, TRUE, <<"a">>)>>,
               <<B("property", <<A("name", <<"n">>)>>, <<Ref("bean", <<"b">>)>>)>>)

Collections ==
  {B("list", <<A("value-type", <<"T">>)>>,
     <<V(<<T(<<"#{", "a", "}">>)>>), Ref("bean", <<"b">>), Ref("bean", <<>>), N("null", <<>>),
       N("unknown", <<>>), InnerBean>>),
   B("set", <<A("merge", <<"false">>)>>, <<B("array", <<>>, <<Ref("bean", <<"a">>)>>), Props1>>)}

Odd == {N("unknown", <<>>), E("foreign", "ref", <<A("bean", <<"a">>)>>, <<>>), N("description", <<>>),
        B("meta", <<A("key", <<"k">>), A("value", <<"v">>)>>, <<>>), N("meta", <<A("key", <<"k">>)>>)}

Injectable == {V(t) : t \in Texts1} \cup References \cup Maps \cup Collections \cup Odd
                \cup {Props1, InnerBean, N("null", <<>>), B("value", <<A("type", <<"T">>)>>, <<>>)}

(* Alone, two at a time, and inside a map in a list or a key of it.         *)
Contents ==
  {<<>>} \cup {<<i>> : i \in Injectable}
    \cup {<<i, j>> : i \in Odd \cup References, j \in Injectable}
    \cup {<<B("list", <<>>, <<i, B("map", <<>>, <<Entry(<<R("key", <<"b">>)>>, <<i>>)>>)>>)>> :
            i \in Injectable}
    \cup {<<B("map", <<>>, <<Entry(<<A("value", <<>>)>>, <<B("key", <<>>, <<i>>),
                                                         B("key", <<>>, <<N("null", <<>>)>>)>>)>>)>> :
            i \in Injectable}

Shorthands ==
  {<<>>, <<A("value", <<"#{", "a", "}">>)>>, <<A("ref", <<"a">>)>>, <<A("ref", <<>>)>>,
   <<A("value", <<>>), A("ref", <<>>)>>}

Injections1 ==
  {B("property", <<A("name", <<"n">>)>> \o s, c) : s \in Shorthands, c \in Contents}
    \cup {B("constructor-arg", s, c) : c \in {<<>>, <<Ref("bean", <<"a">>)>>, <<N("unknown", <<>>)>>},
            s \in {<<A("index", <<"+", "1">>), A("type", <<"T">>)>>, <<A("index", <<"1", "2">>), A("type", <<>>)>>,
                   <<A("index", <<>>), A("name", <<"n">>), A("ref", <<"b">>)>>}}

Method(local, attrs) == B(local, attrs, <<>>)
Methods ==
  {Method("lookup-method", <<A("name", <<"n">>), A("bean", <<"a">>)>>), Method("lookup-method", <<>>),
   Method("lookup-method", <<A("bean", <<>>)>>),
   B("replaced-method", <<A("replacer", <<"a">>)>>,
     <<B("arg-type", <<>>, <<T(<<" ", "T", " ">>)>>), B("arg-type", <<A("match", <<" ">>)>>, <<T(<<"T">>), Gap, T(<<" ">>)>>),
       B("arg-type", <<A("match", <<"M">>)>>, <<>>), N("arg-type", <<>>)>>),
   B("qualifier", <<A("type", <<"Q">>)>>, <<B("attribute", <<A("key", <<"k">>), A("value", <<"v">>)>>, <<>>),
                                             N("attribute", <<>>)>>),
   B("description", <<>>, <<T(<<"x">>)>>)} \cup Odd

(* A subtree of other namespaces that goes on below the limit.              *)
Deep1(limit) ==
  LET leaf == E("task", "scheduled", <<A("ref", <<"b">>), A("scheduler", <<>>)>>, <<>>)
      tree[n \in 0 .. limit] ==
        IF n = 0 THEN leaf
        ELSE E("schema/aop", "advisor", <<R("advice", <<"a">>), A("ref", <<"b">>)>>, <<leaf, tree[n - 1]>>)
  IN  tree[limit]

Namespaced ==
  {Deep1(n) : n \in 0 .. 3}
    \cup {E("schema/aop", "config", <<Attr("xmlns", <<"q">>, FALSE, <<"u">>), A("id", <<"a">>)>>,
            <<E("aop", "aspect", <<A("ref", <<>>)>>, <<>>), E("jee", "aspect", <<A("ref", <<"a">>)>>, <<>>)>>),
          E("tx", "advice", <<A("transaction-manager", <<"b">>)>>, <<InnerBean>>)}
-----------------------------------------------------------------------------
NameLists == {Entity \o <<"b">>, <<"a", ",", "b">>, <<";", "a", "b", " ">>, <<" ", ",">>}

BeanAttrs ==
  {A("id", <<"a">>), A("class", <<>>), A("parent", <<"b">>), A("parent", <<>>), A("abstract", <<"true">>),
   A("factory-bean", Entity \o <<"a">>), A("singleton", <<"false">>), A("singleton", <<"x">>),
   A("scope", <<"s">>), Attr("p", <<"n">>, FALSE, <<"#{", "a", "}">>), Attr("x", <<"n">>, TRUE, <<"a">>),
   Attr("p", <<"n">>, TRUE, <<>>), Attr("f", <<"n">>, FALSE, <<"v">>), Attr("xmlns", <<"p">>, FALSE, <<"u">>),
   Attr("c", <<"_", "0">>, FALSE, <<"v">>), Attr("c", <<"_", "1">>, TRUE, <<"a">>),
   Attr("c", <<"_", "1", "2">>, FALSE, <<"v">>), Attr("c", <<"_", "0", "a">>, TRUE, <<>>),
   Attr("c", <<"n">>, FALSE, <<"v">>)}
    \cup {A("name", l) : l \in NameLists} \cup {A("depends-on", l) : l \in NameLists}

Bean1(attrs, content) == B("bean", attrs, content)
Named1 == <<A("class", <<"C">>)>>

OneBean ==
  {Bean1(<<>>, <<>>)} \cup {Bean1(<<a>>, <<>>) : a \in BeanAttrs}
    \cup {Bean1(<<x[1], x[2]>>, <<>>) :
            x \in {y \in BeanAttrs \X BeanAttrs : y[1].prefix # y[2].prefix \/ y[1].local # y[2].local}}
    \cup {Bean1(Named1, <<i>>) : i \in Injections1 \cup Methods \cup Namespaced}
    \cup {Bean1(Named1, <<i, m>>) : i \in Methods \cup Namespaced, m \in Methods \cup Namespaced}

TwoThings ==
  {Bean1(<<Attr("p", <<"n">>, FALSE, <<"v">>)>>, <<B("property", <<A("name", <<"n">>)>>, <<InnerBean>>), m>>) :
     m \in Methods}

RootChildren ==
  {N("import", <<A("resource", r)>>) :
     r \in {<<>>, <<"x">>, <<"classpath", ":", "x">>, <<"classpath", "*", ":", "x">>, <<"h", ":", "x">>, <<"h", "+", ":">>,
            <<"1", ":">>, <<":">>, <<"h", "/", ":">>, <<"h", "&amp", ";", ":">>}}
    \cup {N("import", <<>>), N("alias", <<A("name", <<"a">>)>>), N("alias", <<A("alias", <<"b">>)>>),
          B("description", <<>>, <<T(<<"x">>), Gap, T(<<"y">>)>>), N("unknown", <<>>),
          E("context", "component-scan", <<A("base-package", <<"a", ",", "b">>), A("use-default-filters", <<"true">>)>>,
            <<E("schema/context", "include-filter", <<A("type", <<"t">>)>>, <<>>),
              E("context", "exclude-filter", <<A("expression", <<"e">>)>>, <<>>), N("include-filter", <<>>)>>),
          E("context", "component-scan", <<>>, <<>>),
          E("schema/context", "property-placeholder", <<>>, <<>>),
          E("util", "properties", <<A("id", <<"a">>), A("location", <<"a", ",", "b">>)>>, <<>>),
          E("util", "list", <<A("id", <<"a">>)>>, <<>>),
          Bean1(<<A("id", <<"a">>), A("parent", <<"b">>)>>, <<>>),
          Bean1(<<A("parent", <<"a">>)>>, <<>>)}
    \cup {E("schema/context", "property-placeholder", <<A("location", l)>>, <<>>) :
            l \in {<<"a", ",", " ", "b", " ", "a">>, <<",", " ", ",">>, <<" ", "b">>}}
    \cup Namespaced

Profile(attrs, content) == B("beans", attrs, content)
Document(node) == [path |-> <<"one">>, readable |-> TRUE, needle |-> TRUE, root |-> {Put(node, 0)}]
Whole(content) == Document(Profile(<<A("profile", <<"dev">>), A("default-merge", <<"true">>)>>, content))

Documents ==
  {Whole(<<b>>) : b \in OneBean \cup TwoThings}
    \cup {Whole(<<c>>) : c \in RootChildren}
    \cup {Whole(<<c, d>>) : c \in RootChildren, d \in {x \in RootChildren : x.local \in {"bean", "advice"}}}
    \cup {Whole(<<Profile(<<>>, <<c>>), c>>) : c \in RootChildren}

(* Corpora of several files: the same at two paths, one that is not there,  *)
(* one that is no beans document, one that has no root.                     *)
Twin == Whole(<<Bean1(<<A("parent", <<"b">>)>>, <<>>), Bean1(<<A("id", <<"a">>), A("parent", Entity \o <<"b">>)>>,
                <<B("property", <<>>, <<InnerBean>>)>>), Deep1(1)>>)
Others ==
  {Twin, [Twin EXCEPT !.needle = FALSE], [Twin EXCEPT !.readable = FALSE],
   Document(E("foreign", "beans", <<>>, <<T(<<"x">>)>>)), Document(N("bean", <<>>)),
   [Twin EXCEPT !.root = {}]}

MCCorpora ==
  {<<d>> : d \in Documents} \cup {<<>>}
    \cup {<<[Twin EXCEPT !.path = <<"two">>], x, [Twin EXCEPT !.path = <<"three">>]>> : x \in Others}
=============================================================================
