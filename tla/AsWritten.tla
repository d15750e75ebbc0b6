------------------------------ MODULE AsWritten ------------------------------
(* What the model, its serialised form and the walks over it say of a       *)
(* document, against the document itself.                                   *)
EXTENDS Walks

Parsed == stage = "walk" /\ parsed.got # {}
Root   == The(File.root)
Told   == ToSet(parsed.told)

RECURSIVE Below(_)
Below(e)     == {e} \cup UNION {Below(c) : c \in ToSet(Children(e))}
RECURSIVE NodesIn(_)
NodesIn(list) == UNION {{n.from} \cup NodesIn(Inside(n)) : n \in ToSet(list)}

(* What is reached through beans only: the elements of other namespaces are *)
(* opaque, and so is what is in a child of a <bean> that is not injected.   *)
RECURSIVE Inner(_), BeansBelow(_)
Inner(f) == UNION {{b} \cup BeansBelow(b) : b \in ToSet(f.beans)}
              \cup UNION {Inner(n) : n \in ToSet(f.nested_profiles)}
RECURSIVE BeansIn(_)
BeansIn(v) ==
  CASE v.is = "inner" -> {v.bean} \cup BeansBelow(v.bean)
    [] v.is \in {"list", "set", "array"} -> UNION {BeansIn(i) : i \in ToSet(v.items)}
    [] v.is = "map" -> UNION {BeansIn(e.key) \cup BeansIn(e.value) : e \in ToSet(v.entries)}
    [] OTHER -> {}
Injections(b) == ToSet(b.properties) \cup ToSet(b.constructor_args)
BeansBelow(b) == UNION {BeansIn(p.value) : p \in Injections(b)}

TheBeans == UNION {Inner(f) : f \in parsed.got}

ElementAt(span) == CHOOSE e \in Below(Root) : SpanOf(e) = span
-----------------------------------------------------------------------------
(* Every literal, reference and class of an injected value.                 *)
RECURSIVE Literals(_), Refs(_)
Literals(v) ==
  CASE v.is = "value" -> {v}
    [] v.is \in {"list", "set", "array"} -> UNION {Literals(i) : i \in ToSet(v.items)}
    [] v.is = "map" -> UNION {Literals(e.key) \cup Literals(e.value) : e \in ToSet(v.entries)}
    [] v.is = "props" -> {e.value : e \in ToSet(v.entries)}
    [] OTHER -> {}
Refs(v) ==
  CASE v.is \in {"ref", "idref"} -> {v.ref}
    [] v.is \in {"list", "set", "array"} -> UNION {Refs(i) : i \in ToSet(v.items)}
    [] v.is = "map" -> UNION {Refs(e.key) \cup Refs(e.value) : e \in ToSet(v.entries)}
    [] OTHER -> {}

AllLiterals == UNION {Literals(p.value) : p \in UNION {Injections(b) : b \in TheBeans}}
RefsOf(b) ==
  b.parent \cup b.factory_bean \cup ToSet(b.depends_on) \cup ToSet(LookedUp(b))
    \cup ToSet(Replacers(b)) \cup UNION {Refs(p.value) : p \in Injections(b)}
    \cup UNION {ToSet(d.refs) : d \in ToSet(b.decorators)}
Classes(b) == b.class \cup UNION {a.type_ref : a \in ToSet(b.constructor_args)}
                \cup UNION {q.type : q \in ToSet(b.qualifiers)}

-----------------------------------------------------------------------------
(* The source is what is written where: names, values and texts.            *)
Laid(value, from) == {<<from + i - 1, value[i]>> : i \in DOMAIN value}
TextOf(e) == UNION {Laid(t.value, t.from) : t \in ToSet(TextSegments(e))}
Source ==
  UNION {TextOf(e) \cup UNION {Laid(LocalName(a).value, LocalName(a).from)
                                 \cup Laid(a.value, ValueStart(a)) : a \in ToSet(e.attrs)} :
           e \in Below(Root)}

SlicesTo(x) == x.to - x.from = Len(x.value) /\ Laid(x.value, x.from) \subseteq Source

Harvested(v) == ToSet(v.placeholders) \cup ToSet(v.spel_refs)

(* An injection point that was written as an attribute of the <bean>.       *)
Sugar(b, p) == \E a \in ToSet(ElementAt(b.span).attrs) : AttrSpan(a) = p.span

(* A span of the model slices back to its text: of a reference, of what is  *)
(* found in a literal, of a name in a list of names and of the name in a p: *)
(* or c: attribute; and of an <arg-type>'s text, if it has no gaps.  No     *)
(* reference and no class is empty.                                         *)
SpansSlice ==
  Parsed => \A source \in {Source} : \A b \in TheBeans :
    /\ \A r \in RefsOf(b) : /\ r.raw # <<>> /\ r.to - r.from = Len(r.raw)
                              /\ Laid(r.raw, r.from) \subseteq source
    /\ \A c \in Classes(b) : c.value # <<>>
    /\ \A x \in ToSet(b.names) \cup b.class : SlicesTo(x)
    /\ \A p \in ToSet(b.properties) : Sugar(b, p) => SlicesTo(p.name)
    /\ \A m \in ToSet(b.replaced_methods) : \A type \in ToSet(m.arg_types) :
         \/ SlicesTo(type)
         \/ \E c \in ToSet(Children(ElementAt(m.span))) :
              Len(TextSegments(c)) > 1 /\ ElementText(c).from = type.from

(* split_name_tokens and split_comma_list: the tokens are not empty, have   *)
(* no separator at either end, come in order, slice back, and leave out     *)
(* nothing but separators.                                                  *)
Covers(text, tokens, separators) ==
  LET kept == UNION {Laid(t.value, t.from) : t \in ToSet(tokens)} IN
  /\ kept \subseteq Laid(text.value, text.from)
  /\ \A x \in Laid(text.value, text.from) \ kept : x[2] \in separators \cup Blanks
  /\ \A t \in ToSet(tokens) : /\ t.to - t.from = Len(t.value) /\ t.value # <<>>
                              /\ Head(t.value) \notin Blanks /\ Last(t.value) \notin Blanks
                              /\ ToSet(t.value) \cap separators = {}
  /\ \A i, j \in DOMAIN tokens : i < j => tokens[i].to < tokens[j].from

TokensCoverTheList ==
  stage = "walk" => \A e \in UNION {Below(r) : r \in File.root} :
    /\ \A n \in {"name", "depends-on", "base-package"} :
         \A w \in Written(e, n) : Covers(w, SplitNameTokens(w), Separators)
    /\ \A w \in Written(e, "location") : Covers(w, SplitCommaList(w), {","})

(* What the literals of the document have in them is every expression that  *)
(* is written without a gap, entities and all, and no expression across a   *)
(* comment or the delimiter of a CDATA section.                             *)
At(text, p) == CHOOSE t \in {x[2] : x \in text} : <<p, t>> \in text
TextWritten(literal) ==
  LET e == {x \in Below(Root) : SpanOf(x) = literal.span} IN
  IF e = {} THEN Laid(literal.text.value, literal.text.from) ELSE TextOf(The(e))

Openings(text, opener) ==
  {p \in {x[1] : x \in {y \in text : y[2] = opener}} :
     \E q \in {x[1] : x \in {y \in text : y[2] = "}"}} :
       /\ q > p + 1
       /\ \A m \in p + 1 .. q - 1 : \E x \in text : x[1] = m /\ x[2] \notin Openers \cup {"}"}}

SegmentsJoin ==
  Parsed => \A v \in AllLiterals : \A text \in {TextWritten(v)} :
    /\ {p.from : p \in ToSet(v.placeholders)} = {p + 1 : p \in Openings(text, "${")}
    /\ \A x \in Harvested(v) : x.to - x.from = Len(x.value) /\ Laid(x.value, x.from) \subseteq text
    /\ Len(v.spel_refs) <= Cardinality(Openings(text, "#{"))
    /\ \A p \in Openings(text, "#{") :
         At(text, p + 1) \in {"a", "b"} => \E r \in ToSet(v.spel_refs) : r.from = p + 1
-----------------------------------------------------------------------------
(* An attribute p:x, p:x-ref, c:x or c:_0 of a <bean> injects what a        *)
(* <property> or <constructor-arg> would that came before the others.       *)
Attribute(name, value, from) ==
  [prefix |-> "", local |-> <<name>>, ref |-> FALSE, from |-> from, value |-> value]

Spelled(a) ==
  LET injection == Attribute(IF a.ref THEN "ref" ELSE "value", a.value, a.from)
      name == CASE IsPNs(Resolved(a.prefix)) -> Attribute("name", a.local, a.from)
                [] ~IsPNs(Resolved(a.prefix)) /\ IndexOf(a) # {} ->
                     Attribute("index", Tail(a.local), a.from)
                [] OTHER -> Attribute("name", a.local, a.from)
  IN  [is |-> "element", ns |-> "", from |-> AttrSpan(a).from, to |-> AttrSpan(a).to,
       local |-> IF IsPNs(Resolved(a.prefix)) THEN "property" ELSE "constructor-arg",
       attrs |-> <<name, injection>>, content |-> <<>>]

IsSugar(a) == a.prefix \notin {"", "xmlns"}
                /\ (IsPNs(Resolved(a.prefix)) \/ IsCNs(Resolved(a.prefix)))

Desugared(e) ==
  LET sugar == SelectSeq(e.attrs, IsSugar) IN
  [e EXCEPT !.attrs = SelectSeq(@, LAMBDA a : ~IsSugar(a)),
            !.content = [i \in DOMAIN sugar |-> Spelled(sugar[i])] \o @]

(* An injection without its spans, and the answer about a <bean> so.        *)
Raw(list) == [i \in DOMAIN list |-> list[i].value]
Bare(v) == CASE v.is = "ref"   -> <<"ref", v.ref.raw>>
             [] v.is = "value" -> <<"value", v.text.value, Raw(v.placeholders), Raw(v.spel_refs)>>
             [] OTHER          -> <<v.is>>

BareBean(answer) ==
  LET bean == answer.got IN
  [properties |-> [i \in DOMAIN bean.properties |->
                     <<bean.properties[i].name.value, Bare(bean.properties[i].value)>>],
   constructor_args |-> [i \in DOMAIN bean.constructor_args |->
                           LET a == bean.constructor_args[i]
                           IN  <<a.index, Texts(a.name), Bare(a.value)>>],
   told |-> [i \in DOMAIN answer.told |-> answer.told[i].code]]

SugarIsNested ==
  Parsed => \A e \in Below(Root) : Is(e, "bean") => BareBean(BeanOf(e)) = BareBean(BeanOf(Desugared(e)))
-----------------------------------------------------------------------------
(* The elements of other namespaces: their references are those the         *)
(* allowlist names, of the element and what is in it down to DEPTH_LIMIT,   *)
(* each once, and every element at the limit is told of.                    *)
RECURSIVE Deep(_, _), Profiles(_)
Deep(e, depth) == {<<e, depth>>} \cup UNION {Deep(c, depth + 1) : c \in ToSet(Children(e))}
Profiles(f)    == {f} \cup UNION {Profiles(n) : n \in ToSet(f.nested_profiles)}

Foreign == UNION {ToSet(f.namespaced) : f \in UNION {Profiles(g) : g \in parsed.got}}
             \cup UNION {ToSet(b.decorators) : b \in TheBeans}

Named(e) == {a \in ToSet(e.attrs) : \E rule \in ToSet(NsRefAllowlist) :
               /\ e.ns \in rule.ns /\ e.local = rule.local
               /\ a.prefix = "" /\ a.local = <<rule.name>> /\ a.ref = rule.ref}

HarvestIsExact ==
  Parsed => \A n \in Foreign : \A reach \in {Deep(ElementAt(n.span), 0)} :
    LET named == UNION {Named(x[1]) : x \in {y \in reach : y[2] <= DepthLimit}}
        full  == {a \in named : a.value # <<>>}
    IN  /\ ToSet(n.refs) = {BeanRef(SpannedAttr(a), "bean") : a \in full}
        /\ Len(n.refs) = Cardinality(full)
        /\ \A a \in named \ full :
             [code |-> "RefWithoutTarget", span |-> {SpanOf(SpannedAttr(a))}] \in Told
        /\ \A x \in reach : x[2] = DepthLimit
                              <=> [code |-> "NestingLimitExceeded", span |-> {SpanOf(x[1])}] \in Told
-----------------------------------------------------------------------------
(* Nothing is injected where nothing was written: value= is absent, ref= is *)
(* absent or empty, and the child that is chosen, the first but <meta>,     *)
(* gives no value.  Where that is for want of the target of ref= or of the  *)
(* chosen reference, a diagnostic inside the element says so.  Of children  *)
(* that are not chosen it says nothing: RecognizedChildWins does.           *)
HasTarget(c, names) ==
  \E i \in DOMAIN names :
    /\ \E a \in FindAttr(c, names[i]) : a.value # <<>>
    /\ \A j \in 1 .. i - 1 : FindAttr(c, names[j]) = {}

Usable(c) ==
  \/ \E l \in {"value", "bean"} \cup Shapes : Is(c, l)
  \/ Is(c, "ref")   /\ HasTarget(c, <<"bean", "local", "parent">>)
  \/ Is(c, "idref") /\ HasTarget(c, <<"bean", "local">>)

NothingGiven(e) == FindAttr(e, "value") = {} /\ ~HasTarget(e, <<"ref">>)

OwnInjections(b) == {p \in Injections(b) : ~Sugar(b, p)}

NullIsExplained ==
  Parsed => \A b \in TheBeans : \A p \in OwnInjections(b) : \A e \in {ElementAt(p.span)} :
    LET dangling == \/ FindAttr(e, "ref") # {}
                    \/ \E c \in Candidate(e) : Is(c, "ref") \/ Is(c, "idref")
    IN  /\ p.value.is = "null" <=> NothingGiven(e) /\ ~\E c \in Candidate(e) : Usable(c)
        /\ p.value.is = "null" /\ dangling =>
             \E d \in Told : \E span \in d.span :
               d.code = "RefWithoutTarget" /\ e.from <= span.from /\ span.to <= e.to

(* src/property.rs and src/constructor_arg.rs: otherwise the first          *)
(* recognized value-shaped child is what is injected, if it gives a value.  *)
ValueShaped(c) == \E l \in {"value", "ref", "idref", "null", "bean"} \cup Shapes : Is(c, l)

RecognizedChildWins ==
  Parsed => \A b \in TheBeans : \A p \in OwnInjections(b) : \A e \in {ElementAt(p.span)} :
    LET shaped == SelectSeq(Children(e), ValueShaped) IN
    NothingGiven(e) /\ shaped # <<>> => \A v \in ValueOf(Head(shaped)).got : p.value = v
-----------------------------------------------------------------------------
(* A reader of this build reads a bean that this build or any other has     *)
(* written as it was, less what the reader cannot know of.                  *)
OldReadersCope ==
  Parsed => \A f \in parsed.got : \A i \in DOMAIN f.beans : \A bean \in {f.beans[i]} :
    /\ DecodeBean(EncodeBean(bean, ThisBuild)) = bean
    /\ \A w \in Writers : DecodeBean(EncodeBean(bean, w)) = LeftOfBean(bean, w)

(* The graph and the harness find the same references in the same order in  *)
(* a corpus of which the harness skips no file, but for the factory marker. *)
(* And every bean of the list that has a name is a record of the harness.   *)
NothingSkipped == \A i \in DOMAIN corpus : corpus[i].readable => corpus[i].needle
GraphTargets   == LET references == SelectSeq(edges, LAMBDA e : e.via = "reference")
                  IN  [i \in DOMAIN references |-> references[i].to]
HarnessTargets == LET found == SelectSeq(records, LAMBDA r : r.kind = "edge")
                  IN  [i \in DOMAIN found |-> <<"id", StripFactoryMarker(found[i].target)>>]

WalksAgree ==
  NothingSkipped =>
    /\ GraphTargets = HarnessTargets
    /\ \A i \in DOMAIN rows : \A name \in EffectiveName(rows[i]) :
         [kind |-> "bean", channel |-> "", target |-> name] \in ToSet(records)

(* The worklist loses no node of the tree and takes none twice.             *)
AllFreed ==
  stage = "drop" =>
    LET all == UNION {NodesIn(e.content) : e \in File.root} IN
    /\ NodesIn(worklist) \cup dropped = all
    /\ NodesIn(worklist) \cap dropped = {}
=============================================================================
