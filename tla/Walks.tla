-------------------------------- MODULE Walks --------------------------------
(* The programs that read a whole corpus, file by file: the dependency      *)
(* graph (examples/dep_graph_dot.rs), the measuring harness                 *)
(* (examples/k_harness.rs) and the list of beans (examples/bean_list.rs),   *)
(* side by side over the same files.  Every file is parsed, its tree is     *)
(* dropped (Drop of XmlElement, src/events.rs), and what parse_bytes has    *)
(* returned is walked.                                                      *)
EXTENDS Schema, FiniteSets

CONSTANT Corpora   \* sequences of files

(* needle: whether the bytes have the name of the beans schema in them.     *)
ASSUME CorporaAssumption ==
  \A corpus \in Corpora : \A i \in DOMAIN corpus :
    /\ corpus[i].readable \in BOOLEAN /\ corpus[i].needle \in BOOLEAN
    /\ Cardinality(corpus[i].root) <= 1

VARIABLES
  corpus,    \* the files
  next,      \* the one in hand
  parsed,    \* ParseResult of it: BeansFile, if there is one, and diagnostics
  worklist,  \* the stack of the Drop that runs
  dropped,   \* where the nodes begin that it has taken off
  stage,     \* "open", "drop" or "walk"
  edges,     \* dep_graph_dot: the edges of the graph
  records,   \* k_harness: the records it writes
  rows       \* bean_list: its lines

vars == <<corpus, next, parsed, worklist, dropped, stage, edges, records, rows>>

-----------------------------------------------------------------------------
(* dep_graph_dot.rs.  via tells the edge to an inner bean from a reference. *)
StripFactoryMarker(raw) ==
  CASE IsPrefix(Entity, raw)    -> SubSeq(raw, Len(Entity) + 1, Len(raw))
    [] IsPrefix(<<"&">>, raw)   -> Tail(raw)
    [] IsPrefix(<<"&amp">>, raw) /\ ~IsPrefix(Entity, raw) -> <<"amp">> \o Tail(raw)
    [] OTHER                    -> raw

NodeOf(x, file) ==
  IF x.id = {} THEN <<"anonymous", file, x.span.from, x.span.to>> ELSE <<"id", The(x.id).value>>

Edge(src, raw) == [from |-> src, to |-> <<"id", StripFactoryMarker(raw)>>, via |-> "reference"]
InnerEdge(src, node) ==
  [from |-> src, via |-> "inner",
   to   |-> IF node[1] = "id" THEN <<"id", StripFactoryMarker(node[2])>> ELSE node]
RefEdges(src, refs)  == [i \in DOMAIN refs |-> Edge(src, refs[i].raw)]
TextEdges(src, list) == [i \in DOMAIN list |-> Edge(src, list[i].value)]

RECURSIVE ValueEdges(_, _, _), BeanEdges(_, _, _)

(* Mutant of EntriesOf: the keys of a map are not looked at.                *)
EntryValuesOf(v) == [i \in DOMAIN v.entries |-> v.entries[i].value]

EntriesOf(v) == FlattenSeq([i \in DOMAIN v.entries |-> <<v.entries[i].key, v.entries[i].value>>])

ValueEdges(src, v, file) ==
  CASE v.is \in {"ref", "idref"}         -> RefEdges(src, <<v.ref>>)
    [] v.is = "value"                    -> TextEdges(src, v.spel_refs)
    [] v.is = "inner"                    ->
         LET inner == NodeOf(v.bean, file)
         IN  <<InnerEdge(src, inner)>> \o BeanEdges(v.bean, inner, file)
    [] v.is \in {"list", "set", "array"} ->
         FlattenSeq([i \in DOMAIN v.items |-> ValueEdges(src, v.items[i], file)])
    [] v.is = "map"                      ->
         FlattenSeq([i \in DOMAIN EntriesOf(v) |-> ValueEdges(src, EntriesOf(v)[i], file)])
    [] v.is = "props"                    ->
         FlattenSeq([i \in DOMAIN v.entries |-> TextEdges(src, v.entries[i].value.spel_refs)])
    [] OTHER                             -> <<>>

(* The references of a bean that are not injected, in order.                *)
Targets(methods, Of(_)) == FlattenSeq([i \in DOMAIN methods |-> SetToSeq(Of(methods[i]))])
LookedUp(bean)  == Targets(bean.lookup_methods, LAMBDA m : m.bean)
Replacers(bean) == Targets(bean.replaced_methods, LAMBDA m : m.replacer)

BeanEdges(bean, src, file) ==
  RefEdges(src, SetToSeq(bean.parent) \o bean.depends_on \o SetToSeq(bean.factory_bean)
                  \o LookedUp(bean) \o Replacers(bean))
    \o FlattenSeq([i \in DOMAIN bean.properties |->
                     ValueEdges(src, bean.properties[i].value, file)])
    \o FlattenSeq([i \in DOMAIN bean.constructor_args |->
                     ValueEdges(src, bean.constructor_args[i].value, file)])
    \o FlattenSeq([i \in DOMAIN bean.decorators |-> RefEdges(src, bean.decorators[i].refs)])

RECURSIVE FileEdges(_, _)
FileEdges(f, file) ==
  FlattenSeq([i \in DOMAIN f.beans |-> BeanEdges(f.beans[i], NodeOf(f.beans[i], file), file)])
    \o FlattenSeq([i \in DOMAIN f.namespaced |->
                     RefEdges(NodeOf(f.namespaced[i], file), f.namespaced[i].refs)])
    \o FlattenSeq([i \in DOMAIN f.nested_profiles |-> FileEdges(f.nested_profiles[i], file)])
-----------------------------------------------------------------------------
(* k_harness.rs                                                             *)
Channel(channel, list) == [i \in DOMAIN list |->
                             [kind |-> "edge", channel |-> channel, target |-> list[i]]]
Raws(refs)  == [i \in DOMAIN refs |-> refs[i].raw]
Spels(list) == [i \in DOMAIN list |-> list[i].value]

EffectiveName(bean) ==
  IF bean.id # {} THEN {The(bean.id).value}
  ELSE IF bean.names = <<>> THEN {} ELSE {Head(bean.names).value}

BeanRecord(bean) ==
  SetToSeq({[kind |-> "bean", channel |-> "", target |-> name] : name \in EffectiveName(bean)})

RECURSIVE WalkValue(_, _), WalkBean(_)

WalkValue(v, channel) ==
  CASE v.is \in {"ref", "idref"}         -> Channel(channel, <<v.ref.raw>>)
    [] v.is = "value"                    -> Channel("spel_ref", Spels(v.spel_refs))
    [] v.is = "inner"                    -> WalkBean(v.bean)
    [] v.is \in {"list", "set", "array"} ->
         FlattenSeq([i \in DOMAIN v.items |-> WalkValue(v.items[i], channel)])
    [] v.is = "map"                      ->
         FlattenSeq([i \in DOMAIN v.entries |-> WalkValue(v.entries[i].key, channel)
                                                  \o WalkValue(v.entries[i].value, channel)])
    [] v.is = "props"                    ->
         FlattenSeq([i \in DOMAIN v.entries |->
                       Channel("spel_ref", Spels(v.entries[i].value.spel_refs))])
    [] OTHER                             -> <<>>

WalkBean(bean) ==
  BeanRecord(bean)
    \o Channel("parent", Raws(SetToSeq(bean.parent)))
    \o Channel("depends_on", Raws(bean.depends_on))
    \o Channel("factory_bean", Raws(SetToSeq(bean.factory_bean)))
    \o Channel("lookup_method", Raws(LookedUp(bean)))
    \o Channel("replaced_method", Raws(Replacers(bean)))
    \o FlattenSeq([i \in DOMAIN bean.properties |->
                     WalkValue(bean.properties[i].value, "property_ref")])
    \o FlattenSeq([i \in DOMAIN bean.constructor_args |->
                     WalkValue(bean.constructor_args[i].value, "ctor_ref")])
    \o FlattenSeq([i \in DOMAIN bean.decorators |->
                     Channel("ns_ref", Raws(bean.decorators[i].refs))])

RECURSIVE WalkFile(_)
WalkFile(f) ==
  FlattenSeq([i \in DOMAIN f.beans |-> WalkBean(f.beans[i])])
    \o FlattenSeq([i \in DOMAIN f.namespaced |-> Channel("ns_ref", Raws(f.namespaced[i].refs))])
    \o FlattenSeq([i \in DOMAIN f.nested_profiles |-> WalkFile(f.nested_profiles[i])])

(* bean_list.rs                                                             *)
RECURSIVE CollectBeans(_)
CollectBeans(f) ==
  f.beans \o FlattenSeq([i \in DOMAIN f.nested_profiles |-> CollectBeans(f.nested_profiles[i])])

BeanRow(bean) == [id |-> bean.id, names |-> bean.names, class |-> bean.class]
-----------------------------------------------------------------------------
File == corpus[next]

(* parse_root *)
IsBeansRoot(e) == Is(e, "beans")
Present(file) == Answer({file.got}, file.told)
ParseRoot(root) ==
  CASE root = {} -> Answer({}, <<[code |-> "NotBeansRoot", span |-> {}]>>)
    [] root # {} /\ ~IsBeansRoot(The(root)) -> Answer({}, Diag("NotBeansRoot", SpanOf(The(root))))
    [] OTHER -> Present(FileOf(The(root)))

Init ==
  /\ corpus \in Corpora
  /\ next = 1 /\ stage = "open"
  /\ parsed = Answer({}, <<>>) /\ worklist = <<>> /\ dropped = {}
  /\ edges = <<>> /\ records = <<>> /\ rows = <<>>

(* A file that cannot be read is skipped by all three.                      *)
ReadError ==
  /\ stage = "open" /\ next <= Len(corpus) /\ ~File.readable
  /\ next' = next + 1
  /\ UNCHANGED <<corpus, parsed, worklist, dropped, stage, edges, records, rows>>

(* parse_bytes; the tree goes out of scope with its root.                   *)
Parse ==
  /\ stage = "open" /\ next <= Len(corpus) /\ File.readable
  /\ parsed' = ParseRoot(File.root)
  /\ worklist' = FlattenSeq(SetToSeq({e.content : e \in File.root}))
  /\ dropped' = {} /\ stage' = "drop"
  /\ UNCHANGED <<corpus, next, edges, records, rows>>

(* The last node is taken off, and what is in it put on.                    *)
Inside(node) == IF node.is = "element" THEN node.content ELSE <<>>

(* Mutant of DropNode: what is in the node is put in its place.             *)
DropReplaces ==
  /\ stage = "drop" /\ worklist # <<>>
  /\ worklist' = IF Inside(Last(worklist)) = <<>> THEN Front(worklist) ELSE Inside(Last(worklist))
  /\ dropped' = dropped \cup {Last(worklist).from}
  /\ UNCHANGED <<corpus, next, parsed, stage, edges, records, rows>>

DropNode ==
  /\ stage = "drop" /\ worklist # <<>>
  /\ worklist' = Front(worklist) \o Inside(Last(worklist))
  /\ dropped' = dropped \cup {Last(worklist).from}
  /\ UNCHANGED <<corpus, next, parsed, stage, edges, records, rows>>

Dropped ==
  /\ stage = "drop" /\ worklist = <<>>
  /\ stage' = "walk"
  /\ UNCHANGED <<corpus, next, parsed, worklist, dropped, edges, records, rows>>

(* The harness has not even parsed a file without the needle.               *)
Walk ==
  /\ stage = "walk"
  /\ \E found \in {SetToSeq(parsed.got)} :
       /\ edges' = edges \o FlattenSeq([i \in DOMAIN found |-> FileEdges(found[i], File.path)])
       /\ records' = records \o IF File.needle
                                THEN FlattenSeq([i \in DOMAIN found |-> WalkFile(found[i])])
                                ELSE <<>>
       /\ rows' = rows \o FlattenSeq([i \in DOMAIN found |->
                    LET beans == CollectBeans(found[i]) IN [b \in DOMAIN beans |-> BeanRow(beans[b])]])
  /\ next' = next + 1 /\ stage' = "open"
  /\ parsed' = Answer({}, <<>>) /\ dropped' = {}
  /\ UNCHANGED <<corpus, worklist>>

Next == ReadError \/ Parse \/ DropNode \/ Dropped \/ Walk

Spec == Init /\ [][Next]_vars
=============================================================================
