-------------------------------- MODULE Leaves --------------------------------
(* What the handlers of a document make of its elements: every field of the *)
(* model (src/src/model.rs) and every diagnostic, for <beans>, <bean> and   *)
(* whatever is injected (src/src/dispatch.rs, bean.rs, property.rs,         *)
(* constructor_arg.rs, inject_value.rs, collection.rs, namespaced.rs).      *)
(*                                                                          *)
(* The explicit stacks that run the handlers are BeansBody and ValueEngine, *)
(* which are shown to do what the plain recursion does; here the recursion  *)
(* is written as such, for documents in which only the harvest of           *)
(* namespaced elements can meet DEPTH_LIMIT.                                *)
EXTENDS Elements

CONSTANTS
  NsOf,        \* the namespace every prefix resolves to
  MaxIndex,    \* u32::MAX
  DepthLimit   \* DEPTH_LIMIT

PUri == "schema/p"
CUri == "schema/c"

ASSUME LeavesAssumption ==
  /\ NsOf \in [DOMAIN NsOf -> STRING]
  /\ MaxIndex \in Nat /\ DepthLimit \in Nat

Unions(option, others) == IF option # {} THEN option ELSE others
-----------------------------------------------------------------------------
(* namespaced.rs: NS_REF_ALLOWLIST and the harvest of a whole subtree.      *)
Ns(prefix) == {prefix, "schema/" \o prefix}

Rule(ns, local, find, name) == [ns |-> ns, local |-> local, ref |-> find, name |-> name]

NsRefAllowlist ==
  <<Rule(Ns("aop"), "aspect", FALSE, "ref"),
    Rule(Ns("aop"), "advisor", TRUE, "advice"),
    Rule(Ns("tx"), "advice", FALSE, "transaction-manager"),
    Rule(Ns("tx"), "annotation-driven", FALSE, "transaction-manager"),
    Rule(Ns("task"), "scheduled", FALSE, "ref"),
    Rule(Ns("task"), "scheduled", FALSE, "scheduler"),
    Rule(Ns("jee"), "jndi-lookup", TRUE, "environment"),
    Rule(Ns("jee"), "remote-slsb", TRUE, "environment"),
    Rule(Ns("jee"), "local-slsb", TRUE, "environment")>>

RuleRefs(e, rule) ==
  LET found == IF rule.ref THEN FindRef(e, rule.name) ELSE FindAttr(e, rule.name) IN
  IF e.ns \in rule.ns /\ e.local = rule.local /\ found # {}
  THEN RefOfAttr(The(found), "bean") ELSE Answer({}, <<>>)

(* Answers one after the other, what they have got as one sequence.         *)
InTurn(answers) ==
  Answer(FlattenSeq([i \in DOMAIN answers |-> answers[i].got]),
         FlattenSeq([i \in DOMAIN answers |-> answers[i].told]))

Listed(answer) == Answer(SetToSeq(answer.got), answer.told)

AtLimit(e) == Answer(<<>>, Diag("NestingLimitExceeded", SpanOf(e)))

(* Mutant of HarvestRefs: the limit is met before the element is read.      *)
RECURSIVE HarvestShallow(_, _)
HarvestShallow(e, depth) ==
  IF depth >= DepthLimit THEN AtLimit(e)
  ELSE InTurn([i \in DOMAIN NsRefAllowlist |-> Listed(RuleRefs(e, NsRefAllowlist[i]))]
              \o [i \in DOMAIN Children(e) |-> HarvestShallow(Children(e)[i], depth + 1)])

RECURSIVE HarvestRefs(_, _)
HarvestRefs(e, depth) ==
  InTurn([i \in DOMAIN NsRefAllowlist |-> Listed(RuleRefs(e, NsRefAllowlist[i]))]
         \o (IF depth >= DepthLimit THEN <<AtLimit(e)>>
             ELSE [i \in DOMAIN Children(e) |-> HarvestRefs(Children(e)[i], depth + 1)]))

IsXmlnsDecl(a) == a.prefix = "xmlns" \/ (a.prefix = "" /\ a.local = <<"xmlns">>)
AttrPair(a)    == [key |-> [prefix |-> a.prefix, local |-> a.local, ref |-> a.ref,
                            from |-> a.from], value |-> SpannedAttr(a)]

NamespacedElement(e) ==
  LET refs == HarvestRefs(e, 0) IN
  Answer([ns |-> e.ns, local |-> e.local, span |-> SpanOf(e), id |-> Written(e, "id"),
          attrs |-> LET kept == SelectSeq(e.attrs, LAMBDA a : ~IsXmlnsDecl(a))
                    IN  [i \in DOMAIN kept |-> AttrPair(kept[i])],
          refs |-> refs.got], refs.told)
-----------------------------------------------------------------------------
(* The fields of an injection: a literal, then a reference, then a child,   *)
(* then nothing (resolve_value, resolve_map_entry_key and _value).          *)
Null(e)     == [is |-> "null", span |-> SpanOf(e)]
RefValue(r) == [is |-> "ref", ref |-> r]

(* Mutant of Resolve: an empty reference leaves no way to the child.        *)
ResolveStops(value, ref, child, e) ==
  LET target == IF ref = {} \/ value # {} THEN Answer({}, <<>>) ELSE RefOfAttr(The(ref), "bean")
  IN  Answer(CASE value # {} -> LitOfAttr(The(value))
               [] value = {} /\ target.got # {} -> RefValue(The(target.got))
               [] value = {} /\ ref = {} /\ child # {} -> The(child)
               [] OTHER -> Null(e),
             target.told)

Resolve(value, ref, child, e) ==
  LET target == IF ref = {} \/ value # {} THEN Answer({}, <<>>) ELSE RefOfAttr(The(ref), "bean")
  IN  Answer(CASE value # {} -> LitOfAttr(The(value))
               [] value = {} /\ target.got # {} -> RefValue(The(target.got))
               [] value = {} /\ target.got = {} /\ child # {} -> The(child)
               [] OTHER -> Null(e),
             target.told)

Conflict(value, ref, e) ==
  IF value # {} /\ ref # {} THEN Diag("ConflictingValueAndRef", SpanOf(e)) ELSE <<>>

(* parse_meta_entry, parse_attribute_pair: both attributes or nothing.      *)
MetaEntry(e) == {[key |-> k, value |-> v] : k \in Written(e, "key"), v \in Written(e, "value")}
MetaEntries(children) ==
  FlattenSeq([i \in DOMAIN children |-> SetToSeq(MetaEntry(children[i]))])

(* scan_meta_and_candidate *)
Candidates(e) == SelectSeq(Children(e), LAMBDA c : ~Is(c, "meta"))
Candidate(e)  == IF Candidates(e) = <<>> THEN {} ELSE {Head(Candidates(e))}

PropEntry(e) ==
  [span |-> SpanOf(e), key |-> OrEmpty(Written(e, "key"), e), value |-> LitOfElement(e, {})]

Collection(is, e, items) ==
  [is |-> is, span |-> SpanOf(e), items |-> items, value_type |-> ClassRef(e, "value-type"),
   merge |-> FindBool(e, "merge")]

Props(e) ==
  [is |-> "props", span |-> SpanOf(e), merge |-> FindBool(e, "merge"),
   entries |-> LET props == ChildrenNamed(e, "prop")
               IN  [i \in DOMAIN props |-> PropEntry(props[i])]]
-----------------------------------------------------------------------------
(* <bean>: its own attributes.                                              *)
Scope(e) ==
  Unions(Written(e, "scope"),
         {[s EXCEPT !.value = <<IF s.value = <<"true">> THEN "singleton" ELSE "prototype">>] :
            s \in {w \in Written(e, "singleton") : w.value \in {<<"true">>, <<"false">>}}})

Tokens(e, name) == FlattenSeq(SetToSeq({SplitNameTokens(w) : w \in Written(e, name)}))

DependsOn(e) ==
  [i \in DOMAIN Tokens(e, "depends-on") |-> BeanRef(Tokens(e, "depends-on")[i], "bean")]

Classified(bean, e) ==
  Answer(bean, IF bean.class \cup bean.parent \cup bean.factory_bean = {} /\ ~bean.abstract
               THEN Diag("BeanWithoutClassOrParent", SpanOf(e)) ELSE <<>>)

(* new_bean_ctx and populate_bean_core_attrs                                *)
CoreAttributes(e) ==
  LET parent  == OptionalRef(e, "parent")
      factory == OptionalRef(e, "factory-bean")
      bean == [span |-> SpanOf(e), id |-> Written(e, "id"), names |-> Tokens(e, "name"),
               class |-> ClassRef(e, "class"), parent |-> parent.got, scope |-> Scope(e),
               abstract |-> FindBool(e, "abstract") = {TRUE}, lazy_init |-> FindBool(e, "lazy-init"),
               primary |-> FindBool(e, "primary") = {TRUE}, autowire |-> Written(e, "autowire"),
               autowire_candidate |-> FindBool(e, "autowire-candidate"),
               depends_on |-> DependsOn(e), factory_bean |-> factory.got,
               factory_method |-> Written(e, "factory-method"),
               init_method |-> Written(e, "init-method"),
               destroy_method |-> Written(e, "destroy-method"),
               properties |-> <<>>, constructor_args |-> <<>>, lookup_methods |-> <<>>,
               replaced_methods |-> <<>>, qualifiers |-> <<>>, decorators |-> <<>>,
               description |-> {}, meta |-> <<>>]
  IN  After(parent.told \o factory.told, Classified(bean, e))

Property(span, name, value, meta) ==
  [span |-> span, name |-> name, value |-> value, meta |-> meta]
ConstructorArg(span, index, type, name, value, meta) ==
  [span |-> span, index |-> index, type_ref |-> type, name |-> name, value |-> value, meta |-> meta]

(* What str::parse::<u32> makes of digits, if they fit, and of index=.      *)
Number(digits) ==
  LET n == InOrder(LAMBDA sum, d : IF sum > MaxIndex THEN sum ELSE sum * 10 + Digits[d], 0, digits)
  IN  IF digits = <<>> \/ ~ToSet(digits) \subseteq DOMAIN Digits THEN {}
      ELSE {m \in {n} : m <= MaxIndex}

ParsedIndex(text) == Number(IF text # <<>> /\ Head(text) = "+" THEN Tail(text) ELSE text)

(* parse_c_local *)
IndexOf(a) == IF a.local # <<>> /\ Head(a.local) = "_" THEN Number(Tail(a.local)) ELSE {}
LocalName(a) ==
  LET from == a.from + (IF a.prefix = "" THEN 0 ELSE 2) IN Spanned(a.local, from, from + Len(a.local))

(* Mutant of PcValue: nothing is injected for an empty reference.           *)
PcValueDropped(a) ==
  IF a.ref THEN LET r == RefOfAttr(a, "bean") IN Answer({RefValue(x) : x \in r.got}, r.told)
  ELSE Answer({LitOfAttr(a)}, <<>>)

PcValue(a) ==
  IF a.ref
  THEN LET r == RefOfAttr(a, "bean")
       IN  Answer(Unions({RefValue(x) : x \in r.got}, {Null(SpannedAttr(a))}), r.told)
  ELSE Answer({LitOfAttr(a)}, <<>>)

Resolved(prefix) == IF prefix \in DOMAIN NsOf THEN NsOf[prefix] ELSE prefix
IsPNs(ns)        == ns \in {PUri, "p"}
IsCNs(ns)        == ns \in {CUri, "c"}

(* normalize_pc_attr: bean is the answer so far.                            *)
WithPcValue(bean, a, value) ==
  LET name == IF IndexOf(a) = {} THEN {LocalName(a)} ELSE {} IN
  Answer(IF IsPNs(Resolved(a.prefix))
         THEN [bean.got EXCEPT !.properties = @ \o
                 SetToSeq({Property(AttrSpan(a), LocalName(a), v, <<>>) : v \in value.got})]
         ELSE [bean.got EXCEPT !.constructor_args = @ \o
                 SetToSeq({ConstructorArg(AttrSpan(a), IndexOf(a), {}, name, v, <<>>) :
                             v \in value.got})],
         bean.told \o value.told)

NormalizePcAttr(bean, a) ==
  LET ns == Resolved(a.prefix) IN
  IF a.prefix \in {"", "xmlns"} \/ ~(IsPNs(ns) \/ IsCNs(ns)) THEN bean
  ELSE WithPcValue(bean, a, PcValue(a))
-----------------------------------------------------------------------------
(* <bean>: the children that are not injected.                              *)
Qualifier(e) ==
  [span |-> SpanOf(e), type |-> ClassRef(e, "type"), value |-> Written(e, "value"),
   attributes |-> MetaEntries(ChildrenNamed(e, "attribute"))]

LookupMethod(e, bean)  == [span |-> SpanOf(e), name |-> Written(e, "name"), bean |-> bean]

ArgType(e) ==
  Unions({m \in Written(e, "match") : NonBlank(m) # {}}, NonEmptyTrimmed(ElementText(e)))

ReplacedMethod(e, replacer) ==
  [span |-> SpanOf(e), name |-> OrEmpty(Written(e, "name"), e), replacer |-> replacer,
   arg_types |-> LET args == ChildrenNamed(e, "arg-type")
                 IN  FlattenSeq([i \in DOMAIN args |-> SetToSeq(ArgType(args[i]))])]

(* dispatch_bean_child *)
BeanChild(bean, c) ==
  LET got    == bean.got
      target == CASE Is(c, "lookup-method")   -> RequiredRef(c, "bean")
                  [] Is(c, "replaced-method") -> RequiredRef(c, "replacer")
                  [] OTHER                    -> Answer({}, <<>>)
      Told(b, told) == Answer(b, bean.told \o told)
  IN  CASE Is(c, "description") -> Told([got EXCEPT !.description = {ElementText(c)}], <<>>)
        [] Is(c, "meta") -> Told([got EXCEPT !.meta = @ \o MetaEntries(<<c>>)], <<>>)
        [] Is(c, "qualifier") -> Told([got EXCEPT !.qualifiers = Append(@, Qualifier(c))], <<>>)
        [] Is(c, "lookup-method") ->
             Told([got EXCEPT !.lookup_methods = Append(@, LookupMethod(c, target.got))], target.told)
        [] Is(c, "replaced-method") ->
             Told([got EXCEPT !.replaced_methods = Append(@, ReplacedMethod(c, target.got))],
                  target.told)
        [] IsBeansNs(c.ns) /\ c.local \notin {"description", "meta", "qualifier", "lookup-method",
                                              "replaced-method"} ->
             Told(got, Diag("UnknownElement", SpanOf(c)))
        [] OTHER -> LET decorator == NamespacedElement(c)
                    IN  Told([got EXCEPT !.decorators = Append(@, decorator.got)], decorator.told)
=============================================================================
