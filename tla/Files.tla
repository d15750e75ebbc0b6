-------------------------------- MODULE Files --------------------------------
(* parse_beans_body with everything below it: the BeansFile of a <beans>,   *)
(* its beans and what is injected into them, by recursion on the tree.      *)
EXTENDS Leaves

RECURSIVE ValueOf(_), BeanOf(_)

Values(children) == InTurn([i \in DOMAIN children |-> Listed(ValueOf(children[i]))])

(* The answer about one child, and that about the attributes beside it.     *)
GivenBy(child) == IF child = {} THEN Answer({}, <<>>) ELSE ValueOf(The(child))

Beside(value, ref, e, given) ==
  After(Conflict(value, ref, e) \o given.told, Resolve(value, ref, given.got, e))

Injected(e) == Beside(FindAttr(e, "value"), FindAttr(e, "ref"), e, GivenBy(Candidate(e)))

(* begin_property to finish_property, and the same of <constructor-arg>.    *)
AddProperty(bean, e, value) ==
  Answer([bean.got EXCEPT !.properties = Append(@,
            Property(SpanOf(e), OrEmpty(Written(e, "name"), e), value.got,
                     MetaEntries(ChildrenNamed(e, "meta"))))],
         bean.told \o value.told)

AddConstructorArg(bean, e, value) ==
  LET index == UNION {ParsedIndex(w.value) : w \in Written(e, "index")} IN
  Answer([bean.got EXCEPT !.constructor_args = Append(@,
            ConstructorArg(SpanOf(e), index, ClassRef(e, "type"), Written(e, "name"), value.got,
                           MetaEntries(ChildrenNamed(e, "meta"))))],
         bean.told \o value.told)

(* <entry>, its children in order: the first <key> that has something to    *)
(* resolve in it that does resolve, and the first other child.              *)
FirstChild(e) == IF Children(e) = <<>> THEN {} ELSE {Head(Children(e))}

KeyGiven(scan, value) == [scan EXCEPT !.key = value.got, !.told = @ \o value.told]
ValueGiven(scan, value) ==
  [scan EXCEPT !.value = value.got, !.seen_value = TRUE, !.told = @ \o value.told]

EntryScan(e) ==
  InOrder(LAMBDA scan, c :
             CASE Is(c, "key") /\ scan.key = {} /\ FirstChild(c) # {} ->
                    KeyGiven(scan, GivenBy(FirstChild(c)))
               [] ~Is(c, "key") /\ ~scan.seen_value -> ValueGiven(scan, GivenBy({c}))
               [] OTHER -> scan,
           [key |-> {}, value |-> {}, seen_value |-> FALSE,
            told |-> Conflict(FindAttr(e, "key"), FindRef(e, "key"), e)
                       \o Conflict(FindAttr(e, "value"), FindRef(e, "value"), e)],
           Children(e))

MapEntry(e, scan) ==
  LET key   == Resolve(FindAttr(e, "key"), FindRef(e, "key"), scan.key, e)
      value == Resolve(FindAttr(e, "value"), FindRef(e, "value"), scan.value, e)
  IN  Answer(<<[span |-> SpanOf(e), key |-> key.got, value |-> value.got,
                value_type |-> ClassRef(e, "value-type")]>>,
             scan.told \o key.told \o value.told)

MapEntries(elements) ==
  InTurn([i \in DOMAIN elements |-> MapEntry(elements[i], EntryScan(elements[i]))])

MapWith(e, entries) ==
  Answer({[is |-> "map", span |-> SpanOf(e), key_type |-> ClassRef(e, "key-type"),
           value_type |-> ClassRef(e, "value-type"), merge |-> FindBool(e, "merge"),
           entries |-> entries.got]}, entries.told)

(* begin_resolve_value *)
Gathered(is, e, items) == Answer({Collection(is, e, items.got)}, items.told)
Enclosed(bean)         == Answer({[is |-> "inner", bean |-> bean.got]}, bean.told)
Literal(e) == LitOfElement(e, ClassRef(e, "type"))
Wrapped(is, answer) == Answer({[is |-> is, ref |-> r] : r \in answer.got}, answer.told)

ValueOf(e) ==
  LET local == IF IsBeansNs(e.ns) THEN e.local ELSE "" IN
  CASE local = "value"                    -> Answer({Literal(e)}, <<>>)
    [] local = "null"                     -> Answer({Null(e)}, <<>>)
    [] local = "ref"                      -> Wrapped("ref", RefOfElement(e))
    [] local = "idref"                    -> Wrapped("idref", IdrefOfElement(e))
    [] local \in {"list", "set", "array"} -> Gathered(local, e, Values(Children(e)))
    [] local = "map"                      -> MapWith(e, MapEntries(ChildrenNamed(e, "entry")))
    [] local = "props"                    -> Answer({Props(e)}, <<>>)
    [] local = "bean"                     -> Enclosed(BeanOf(e))
    [] OTHER                              -> Answer({}, <<>>)

(* parse_bean: the attributes in order, then the children.                  *)
BeanOf(e) ==
  InOrder(LAMBDA bean, c : CASE Is(c, "property")        -> AddProperty(bean, c, Injected(c))
                              [] Is(c, "constructor-arg") -> AddConstructorArg(bean, c, Injected(c))
                              [] OTHER                    -> BeanChild(bean, c),
           InOrder(NormalizePcAttr, CoreAttributes(e), e.attrs), Children(e))
-----------------------------------------------------------------------------
(* The children of <beans>.                                                 *)
Alias(e) == [span |-> SpanOf(e), name |-> OrEmpty(Written(e, "name"), e),
             alias |-> OrEmpty(Written(e, "alias"), e)]

(* classify_import_kind; a location is what it begins with and its path.    *)
NotInSchemes == {"*", "/", "_", "}", "&amp"} \cup Openers \cup Separators
HasUrlScheme(value) ==
  \E colon \in DOMAIN value \ {1} :
    /\ value[colon] = ":" /\ value[1] \notin DOMAIN Digits \cup {"+", "-", ".", ":"}
    /\ \A i \in 1 .. colon - 1 : value[i] \notin NotInSchemes

ImportKind(value) ==
  CASE value = <<>> -> "other"
    [] IsPrefix(<<"classpath", "*", ":">>, value) -> "classpath_star"
    [] IsPrefix(<<"classpath", ":">>, value) -> "classpath"
    [] ~IsPrefix(<<"classpath", ":">>, value) /\ HasUrlScheme(value) -> "url"
    [] OTHER -> "relative"

Import(e) == LET resource == OrEmpty(Written(e, "resource"), e)
             IN  [span |-> SpanOf(e), resource |-> resource, kind |-> ImportKind(resource.value)]

IsContextNs(ns) == ns \in Ns("context")
IsUtilNs(ns)    == ns \in Ns("util")

ScanFilter(e) == [filter_type |-> OrEmpty(Written(e, "type"), e),
                  expression  |-> OrEmpty(Written(e, "expression"), e)]

Filters(e, local) ==
  LET filters == SelectSeq(Children(e), LAMBDA c : IsContextNs(c.ns) /\ c.local = local)
  IN  [i \in DOMAIN filters |-> ScanFilter(filters[i])]

ComponentScan(e) ==
  [span |-> SpanOf(e), base_packages |-> Tokens(e, "base-package"),
   use_default_filters |-> FindBool(e, "use-default-filters"),
   include_filters |-> Filters(e, "include-filter"), exclude_filters |-> Filters(e, "exclude-filter")]

PropertySource(e) ==
  IF e.local = "properties"
  THEN [span |-> SpanOf(e), is |-> "properties", id |-> Written(e, "id"),
        location |-> Written(e, "location")]
  ELSE [span |-> SpanOf(e), is |-> "placeholder",
        locations |-> FlattenSeq(SetToSeq({SplitCommaList(w) : w \in Written(e, "location")}))]

(* new_beans_file_ctx and populate_beans_header_attrs                       *)
Header(e) ==
  [span |-> SpanOf(e), profile |-> Written(e, "profile"), description |-> {},
   default_lazy_init |-> FindBool(e, "default-lazy-init"),
   default_autowire |-> Written(e, "default-autowire"),
   default_init_method |-> Written(e, "default-init-method"),
   default_destroy_method |-> Written(e, "default-destroy-method"),
   default_merge |-> FindBool(e, "default-merge"),
   default_autowire_candidates |-> Written(e, "default-autowire-candidates"),
   imports |-> <<>>, aliases |-> <<>>, beans |-> <<>>, component_scans |-> <<>>,
   property_sources |-> <<>>, namespaced |-> <<>>, nested_profiles |-> <<>>]

Texts(option)   == {x.value : x \in option}
DuplicateId(beans, bean) ==
  IF \E i \in DOMAIN beans : Texts(beans[i].id) \cap Texts(bean.id) # {}
  THEN Diag("DuplicateBeanId", SpanOf(The(bean.id))) ELSE <<>>

(* dispatch_root_child *)
RECURSIVE FileOf(_)
AddBean(file, bean) ==
  Answer([file.got EXCEPT !.beans = Append(@, bean.got)],
         file.told \o bean.told \o DuplicateId(file.got.beans, bean.got))
AddNested(file, nested) ==
  Answer([file.got EXCEPT !.nested_profiles = Append(@, nested.got)], file.told \o nested.told)
AddNamespaced(file, element) ==
  Answer([file.got EXCEPT !.namespaced = Append(@, element.got)], file.told \o element.told)

RootChild(file, c) ==
  LET got == file.got
      Told(f, told) == Answer(f, file.told \o told)
  IN  CASE Is(c, "description") -> Told([got EXCEPT !.description = {ElementText(c)}], <<>>)
        [] Is(c, "import") -> Told([got EXCEPT !.imports = Append(@, Import(c))], <<>>)
        [] Is(c, "alias")  -> Told([got EXCEPT !.aliases = Append(@, Alias(c))], <<>>)
        [] Is(c, "bean")   -> AddBean(file, BeanOf(c))
        [] Is(c, "beans")  -> AddNested(file, FileOf(c))
        [] IsContextNs(c.ns) /\ c.local = "component-scan" ->
             Told([got EXCEPT !.component_scans = Append(@, ComponentScan(c))], <<>>)
        [] \/ IsContextNs(c.ns) /\ c.local = "property-placeholder"
           \/ IsUtilNs(c.ns) /\ c.local = "properties" ->
             Told([got EXCEPT !.property_sources = Append(@, PropertySource(c))], <<>>)
        [] IsBeansNs(c.ns)
             /\ c.local \notin {"description", "import", "alias", "bean", "beans"} ->
             Told(got, Diag("UnknownElement", SpanOf(c)))
        [] OTHER -> AddNamespaced(file, NamespacedElement(c))

FileOf(e) == InOrder(RootChild, Answer(Header(e), <<>>), Children(e))
=============================================================================
