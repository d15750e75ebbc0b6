----------------------------- MODULE ValueEngine -----------------------------
(***************************************************************************)
(* depth_engine::run and its three frames (src/src/depth_engine.rs,        *)
(* bean.rs, collection.rs, inject_value.rs): the parsing of one top-level  *)
(* <bean>, whose nested values are resolved on an explicit stack instead   *)
(* of the call stack.                                                      *)
(*                                                                         *)
(* The element tree is an input: doc says of every node what it is and     *)
(* which elements are its children, with namespaces already resolved.      *)
(* Text children, which every loop skips, are left out.  The inner loop of *)
(* a step and the loop of run are one: both go on with the same frame.     *)
(***************************************************************************)
EXTENDS Integers, Sequences, FiniteSets

CONSTANTS
  Nodes,       (* the elements of the tree                                 *)
  RootBean,    (* the <bean> parse_bean is called for                      *)
  Documents,   (* the trees                                                *)
  DepthLimit   (* DEPTH_LIMIT                                              *)

(* "value" stands for <value> and <null>, which always resolve; "ref" for   *)
(* <ref> and <idref>; "list" for <list>, <set> and <array>; "other" for     *)
(* whatever else there is.                                                  *)
Kind    == {"bean", "property", "constructor-arg", "meta", "other",
            "value", "ref", "list", "map", "props", "entry", "key"}
RefAttr == {"absent", "empty", "named"}

(* flawed: a <bean> whose own attributes are diagnosed, a <ref> with no     *)
(* target, a child of a <bean> that is diagnosed.  The four attributes are  *)
(* those of <entry>; <property> and <constructor-arg> have the last two, as *)
(* value= and ref=.                                                         *)
Element == [kind : Kind, kids : Seq(Nodes), flawed : BOOLEAN,
            key : BOOLEAN, keyRef : RefAttr, value : BOOLEAN, valueRef : RefAttr]

ASSUME ConstantsOK ==
  /\ DepthLimit \in Nat \ {0}
  /\ RootBean \in Nodes
  /\ Documents \subseteq [Nodes -> Element]
  /\ \A d \in Documents : d[RootBean].kind = "bean"

VARIABLES
  doc,       (* the tree                                                    *)
  stack,     (* run's stack of frames, innermost last                       *)
  incoming,  (* Option: the value to deliver to the top frame               *)
  diags,     (* the diagnostics, in order                                   *)
  built,     (* the finished frames: their node and what they have gathered *)
  result     (* Option: what run has returned                               *)

vars == <<doc, stack, incoming, diags, built, result>>

(* A value is named by its form and the element it was read from; what an   *)
(* inner bean or a collection holds is in built.                            *)
Value == [form : {"literal", "ref", "inner", "collection", "null"}, node : Nodes]
Item  == [slot : Kind \cup {"item"}, at : Nodes, value : Value]
Built == [node : Nodes, items : Seq(Item)]

EntryScan == [node : Nodes, idx : Nat, key : SUBSET Value, value : SUBSET Value,
              seenValue : BOOLEAN, waiting : SUBSET {"key", "value"}]
Frame == [kind : {"bean", "list", "map"}, node : Nodes, idx : Nat, depth : Nat,
          items : Seq(Item), waiting : SUBSET Nodes, entry : SUBSET EntryScan]

Code == {"BeanAttributes", "BeanChild", "RefWithoutTarget",
         "ConflictingValueAndRef", "NestingLimitExceeded"}
Diag == [code : Code, node : Nodes]

Val(form, n)         == [form |-> form, node |-> n]
Diagnose(code, n)    == <<[code |-> code, node |-> n]>>
DiagnoseIf(b, code, n) == IF b THEN Diagnose(code, n) ELSE <<>>
Kids(n)              == doc[n].kids
-----------------------------------------------------------------------------
(* begin_resolve_value at nesting depth d: what it descends into, what it   *)
(* returns otherwise ({} for an element it does not know), and what it      *)
(* diagnoses, the attributes of a <bean> it descends into included.         *)
CutOff(c, d) ==
  d >= DepthLimit /\ doc[c].kind \in {"bean", "list", "map", "props"}

Descends(c, d) ==
  d < DepthLimit /\ doc[c].kind \in {"bean", "list", "map"}

Resolved(c, d) ==
  CASE CutOff(c, d)                               -> {Val("null", c)}
    [] doc[c].kind = "props" /\ ~CutOff(c, d)     -> {Val("collection", c)}
    [] doc[c].kind = "value"                      -> {Val("literal", c)}
    [] doc[c].kind = "ref" /\ ~doc[c].flawed      -> {Val("ref", c)}
    [] OTHER                                      -> {}

ResolveDiags(c, d) ==
  DiagnoseIf(CutOff(c, d), "NestingLimitExceeded", c)
    \o DiagnoseIf(doc[c].kind = "ref" /\ doc[c].flawed, "RefWithoutTarget", c)
    \o DiagnoseIf(doc[c].kind = "bean" /\ ~CutOff(c, d) /\ doc[c].flawed, "BeanAttributes", c)

(* Mutant of FrameFor: an inner bean does not count as a level.             *)
FrameSameDepth(c, d) ==
  [kind |-> doc[c].kind, node |-> c, idx |-> 0, depth |-> d,
   items |-> <<>>, waiting |-> {}, entry |-> {}]

(* BeanFrame::new, ListLikeFrame::new, MapFrame::new                        *)
FrameFor(c, d) ==
  [kind |-> doc[c].kind, node |-> c, idx |-> 0,
   depth |-> IF doc[c].kind = "bean" THEN d + 1 ELSE d,
   items |-> <<>>, waiting |-> {}, entry |-> {}]

(* The precedence of an attribute, its -ref form, a child and nothing.      *)
Chosen(literal, ref, child, n) ==
  CASE literal                                      -> Val("literal", n)
    [] ~literal /\ ref = "named"                    -> Val("ref", n)
    [] ~literal /\ ref # "named" /\ child # {}      -> CHOOSE v \in child : TRUE
    [] OTHER                                        -> Val("null", n)

ChosenDiags(literal, ref, n)   == DiagnoseIf(~literal /\ ref = "empty", "RefWithoutTarget", n)
ConflictDiags(literal, ref, n) ==
  DiagnoseIf(literal /\ ref # "absent", "ConflictingValueAndRef", n)

Entering(slot, n, v) == [slot |-> slot, at |-> n, value |-> v]

(* finish_property, finish_constructor_arg, finish_map_entry                *)
Injected(p, child)  ==
  Entering(doc[p].kind, p, Chosen(doc[p].value, doc[p].valueRef, child, p))
InjectionDiags(p)    == ChosenDiags(doc[p].value, doc[p].valueRef, p)

MapEntry(e, key, value) ==
  <<Entering("key", e, Chosen(doc[e].key, doc[e].keyRef, key, e)),
    Entering("value", e, Chosen(doc[e].value, doc[e].valueRef, value, e))>>
MapEntryDiags(e) ==
  ChosenDiags(doc[e].key, doc[e].keyRef, e) \o ChosenDiags(doc[e].value, doc[e].valueRef, e)

Init ==
  /\ doc \in Documents
  /\ stack = <<[FrameFor(RootBean, 0) EXCEPT !.depth = 0]>>
  /\ diags = DiagnoseIf(doc[RootBean].flawed, "BeanAttributes", RootBean)
  /\ incoming = {} /\ built = {} /\ result = {}
-----------------------------------------------------------------------------
(* run: the top frame advances, or takes the value that has come in.        *)
Top == stack[Len(stack)]

WithTop(f) == [stack EXCEPT ![Len(stack)] = f]

Push(f, c, d) == stack' = Append(WithTop(f), FrameFor(c, d))

Stepping(kind) == result = {} /\ incoming = {} /\ Top.kind = kind

Delivering(kind) == incoming # {} /\ Top.kind = kind

(* The next child of a frame, and the frame past it.                        *)
HasNext   == Top.idx < Len(Kids(Top.node))
NextChild == Kids(Top.node)[Top.idx + 1]
Past      == [Top EXCEPT !.idx = @ + 1]

Finished(kind, form) ==
  /\ Stepping(kind)
  /\ ~HasNext
  /\ built' = built \cup {[node |-> Top.node, items |-> Top.items]}
  /\ stack' = SubSeq(stack, 1, Len(stack) - 1)
  /\ IF Len(stack) = 1
     THEN result' = {Val(form, Top.node)} /\ UNCHANGED incoming
     ELSE incoming' = {Val(form, Top.node)} /\ UNCHANGED result
  /\ UNCHANGED <<doc, diags>>
-----------------------------------------------------------------------------
(* BeanFrame                                                                *)
Injects(n) == doc[n].kind \in {"property", "constructor-arg"}

(* scan_meta_and_candidate: the first child that is not a <meta>.           *)
Candidate(p) ==
  LET others == {i \in 1 .. Len(Kids(p)) : doc[Kids(p)[i]].kind # "meta"}
  IN  {Kids(p)[i] : i \in {i \in others : \A j \in others : i <= j}}

(* dispatch_bean_child; only a <meta> and some others are never diagnosed.  *)
BeanOther ==
  /\ Stepping("bean") /\ HasNext /\ ~Injects(NextChild)
  /\ stack' = WithTop(Past)
  /\ diags' = diags \o
       DiagnoseIf(doc[NextChild].kind # "meta" /\ (doc[NextChild].kind = "other" => doc[NextChild].flawed),
                  "BeanChild", NextChild)
  /\ UNCHANGED <<doc, incoming, built, result>>

InjectionConflict(p) == ConflictDiags(doc[p].value, doc[p].valueRef, p)

InjectPlain ==
  LET p == NextChild
  IN  /\ Stepping("bean") /\ HasNext /\ Injects(p) /\ Candidate(p) = {}
      /\ stack' = WithTop([Past EXCEPT !.items = Append(@, Injected(p, {}))])
      /\ diags' = diags \o InjectionConflict(p) \o InjectionDiags(p)
      /\ UNCHANGED <<doc, incoming, built, result>>

InjectResolved ==
  LET p == NextChild
  IN  /\ Stepping("bean") /\ HasNext /\ Injects(p)
      /\ \E c \in Candidate(p) :
           /\ ~Descends(c, Top.depth)
           /\ stack' = WithTop([Past EXCEPT !.items = Append(@, Injected(p, Resolved(c, Top.depth)))])
           /\ diags' = diags \o InjectionConflict(p) \o ResolveDiags(c, Top.depth) \o InjectionDiags(p)
      /\ UNCHANGED <<doc, incoming, built, result>>

(* Mutant of InjectDeferred: ref= is diagnosed before the child is read.    *)
InjectEager ==
  LET p == NextChild
  IN  /\ Stepping("bean") /\ HasNext /\ Injects(p)
      /\ \E c \in Candidate(p) :
           /\ Descends(c, Top.depth)
           /\ Push([Past EXCEPT !.waiting = {p}], c, Top.depth)
           /\ diags' = diags \o InjectionConflict(p) \o InjectionDiags(p) \o ResolveDiags(c, Top.depth)
      /\ UNCHANGED <<doc, incoming, built, result>>

InjectDeferred ==
  LET p == NextChild
  IN  /\ Stepping("bean") /\ HasNext /\ Injects(p)
      /\ \E c \in Candidate(p) :
           /\ Descends(c, Top.depth)
           /\ Push([Past EXCEPT !.waiting = {p}], c, Top.depth)
           /\ diags' = diags \o InjectionConflict(p) \o ResolveDiags(c, Top.depth)
      /\ UNCHANGED <<doc, incoming, built, result>>

(* Mutant of InjectDelivered: the value that has come in is not used.       *)
InjectForgotten ==
  /\ Delivering("bean")
  /\ \E v \in incoming, p \in Top.waiting :
       /\ stack' = WithTop([Top EXCEPT !.waiting = {}, !.items = Append(@, Injected(p, {}))])
       /\ diags' = diags \o InjectionDiags(p)
  /\ incoming' = {}
  /\ UNCHANGED <<doc, built, result>>

(* BeanFrame::deliver; with nothing waiting it would panic.                 *)
InjectDelivered ==
  /\ Delivering("bean")
  /\ \E v \in incoming, p \in Top.waiting :
       /\ stack' = WithTop([Top EXCEPT !.waiting = {}, !.items = Append(@, Injected(p, {v}))])
       /\ diags' = diags \o InjectionDiags(p)
  /\ incoming' = {}
  /\ UNCHANGED <<doc, built, result>>

BeanFinished == Finished("bean", "inner")
-----------------------------------------------------------------------------
(* ListLikeFrame                                                            *)
Gathered(f, n, value) ==
  IF value = {} THEN f
  ELSE [f EXCEPT !.items = Append(@, Entering("item", n, CHOOSE v \in value : TRUE))]

ItemResolved ==
  LET c == NextChild
  IN  /\ Stepping("list") /\ HasNext /\ ~Descends(c, Top.depth + 1)
      /\ stack' = WithTop(Gathered(Past, c, Resolved(c, Top.depth + 1)))
      /\ diags' = diags \o ResolveDiags(c, Top.depth + 1)
      /\ UNCHANGED <<doc, incoming, built, result>>

ItemDeferred ==
  LET c == NextChild
  IN  /\ Stepping("list") /\ HasNext /\ Descends(c, Top.depth + 1)
      /\ Push(Past, c, Top.depth + 1)
      /\ diags' = diags \o ResolveDiags(c, Top.depth + 1)
      /\ UNCHANGED <<doc, incoming, built, result>>

ItemDelivered ==
  /\ Delivering("list")
  /\ \E v \in incoming : stack' = WithTop(Gathered(Top, v.node, {v}))
  /\ incoming' = {}
  /\ UNCHANGED <<doc, diags, built, result>>

ListFinished == Finished("list", "collection")
-----------------------------------------------------------------------------
(* MapFrame and the EntryScan of the <entry> it is in.                      *)
BeginEntry(e) ==
  [node |-> e, idx |-> 0, key |-> {}, value |-> {}, seenValue |-> FALSE, waiting |-> {}]

MapSkip ==
  /\ Stepping("map") /\ Top.entry = {} /\ HasNext /\ doc[NextChild].kind # "entry"
  /\ stack' = WithTop(Past)
  /\ UNCHANGED <<doc, incoming, diags, built, result>>

EntryBegin ==
  LET e == NextChild
  IN  /\ Stepping("map") /\ Top.entry = {} /\ HasNext /\ doc[e].kind = "entry"
      /\ stack' = WithTop([Past EXCEPT !.entry = {BeginEntry(e)}])
      /\ diags' = diags \o ConflictDiags(doc[e].key, doc[e].keyRef, e)
                        \o ConflictDiags(doc[e].value, doc[e].valueRef, e)
      /\ UNCHANGED <<doc, incoming, built, result>>

(* The next child of the entry, and the scan past it.                       *)
EntryHasNext(entry) == entry.idx < Len(Kids(entry.node))
EntryChild(entry)   == Kids(entry.node)[entry.idx + 1]
EntryPast(entry)    == [entry EXCEPT !.idx = @ + 1]
IsKey(n)            == doc[n].kind = "key"

WithEntry(entry) == [Top EXCEPT !.entry = {entry}]

(* The entries are read one deeper than the map.                            *)
EntryDepth == Top.depth + 1

(* A <key> is tried while there is no key yet; a value only if it is the    *)
(* first child that is no <key>.                                            *)
TriesKey(entry) ==
  EntryHasNext(entry) /\ IsKey(EntryChild(entry))
    /\ entry.key = {} /\ Kids(EntryChild(entry)) # <<>>
TriesValue(entry) ==
  EntryHasNext(entry) /\ ~IsKey(EntryChild(entry)) /\ ~entry.seenValue

(* The element a <key> at the cursor has tried.                             *)
KeyChild(entry) == Kids(EntryChild(entry))[1]

(* Mutant of EntrySkip: the cursor stays.                                   *)
EntryStays ==
  /\ Stepping("map")
  /\ \E entry \in Top.entry :
       EntryHasNext(entry) /\ ~TriesKey(entry) /\ ~TriesValue(entry)
  /\ UNCHANGED vars

EntrySkip ==
  /\ Stepping("map")
  /\ \E entry \in Top.entry :
       /\ EntryHasNext(entry) /\ ~TriesKey(entry) /\ ~TriesValue(entry)
       /\ stack' = WithTop(WithEntry(EntryPast(entry)))
  /\ UNCHANGED <<doc, incoming, diags, built, result>>

KeyResolved ==
  /\ Stepping("map")
  /\ \E entry \in Top.entry :
       LET c == KeyChild(entry)
       IN  /\ TriesKey(entry) /\ ~Descends(c, EntryDepth)
           /\ stack' = WithTop(WithEntry([EntryPast(entry) EXCEPT !.key = Resolved(c, EntryDepth)]))
           /\ diags' = diags \o ResolveDiags(c, EntryDepth)
  /\ UNCHANGED <<doc, incoming, built, result>>

(* Mutant of KeyDeferred: the key is awaited in the value slot.             *)
KeyAsValue ==
  /\ Stepping("map")
  /\ \E entry \in Top.entry :
       LET c == KeyChild(entry)
       IN  /\ TriesKey(entry) /\ Descends(c, EntryDepth)
           /\ Push(WithEntry([EntryPast(entry) EXCEPT !.waiting = {"value"}]), c, EntryDepth)
           /\ diags' = diags \o ResolveDiags(c, EntryDepth)
  /\ UNCHANGED <<doc, incoming, built, result>>

KeyDeferred ==
  /\ Stepping("map")
  /\ \E entry \in Top.entry :
       LET c == KeyChild(entry)
       IN  /\ TriesKey(entry) /\ Descends(c, EntryDepth)
           /\ Push(WithEntry([EntryPast(entry) EXCEPT !.waiting = {"key"}]), c, EntryDepth)
           /\ diags' = diags \o ResolveDiags(c, EntryDepth)
  /\ UNCHANGED <<doc, incoming, built, result>>

ValueResolved ==
  /\ Stepping("map")
  /\ \E entry \in Top.entry :
       LET c == EntryChild(entry)
       IN  /\ TriesValue(entry) /\ ~Descends(c, EntryDepth)
           /\ stack' = WithTop(WithEntry([EntryPast(entry) EXCEPT
                          !.seenValue = TRUE, !.value = Resolved(c, EntryDepth)]))
           /\ diags' = diags \o ResolveDiags(c, EntryDepth)
  /\ UNCHANGED <<doc, incoming, built, result>>

ValueDeferred ==
  /\ Stepping("map")
  /\ \E entry \in Top.entry :
       LET c == EntryChild(entry)
       IN  /\ TriesValue(entry) /\ Descends(c, EntryDepth)
           /\ Push(WithEntry([EntryPast(entry) EXCEPT !.seenValue = TRUE, !.waiting = {"value"}]),
                   c, EntryDepth)
           /\ diags' = diags \o ResolveDiags(c, EntryDepth)
  /\ UNCHANGED <<doc, incoming, built, result>>

(* EntryScan::deliver; with nothing waiting it would panic.                 *)
Delivered(entry, slot, v) ==
  IF slot = "key" THEN [entry EXCEPT !.waiting = {}, !.key = {v}]
                  ELSE [entry EXCEPT !.waiting = {}, !.value = {v}]

EntryDelivered ==
  /\ Delivering("map")
  /\ \E v \in incoming, entry \in Top.entry : \E slot \in entry.waiting :
       stack' = WithTop(WithEntry(Delivered(entry, slot, v)))
  /\ incoming' = {}
  /\ UNCHANGED <<doc, diags, built, result>>

EntryFinished ==
  /\ Stepping("map")
  /\ \E entry \in Top.entry :
       /\ ~EntryHasNext(entry)
       /\ stack' = WithTop([Top EXCEPT !.entry = {},
            !.items = @ \o MapEntry(entry.node, entry.key, entry.value)])
       /\ diags' = diags \o MapEntryDiags(entry.node)
  /\ UNCHANGED <<doc, incoming, built, result>>

MapFinished == Finished("map", "collection") /\ Top.entry = {}
-----------------------------------------------------------------------------
BeanStep == BeanOther \/ InjectPlain \/ InjectResolved \/ InjectDeferred
              \/ InjectDelivered \/ BeanFinished
ListStep == ItemResolved \/ ItemDeferred \/ ItemDelivered \/ ListFinished
MapStep  == MapSkip \/ EntryBegin \/ EntrySkip \/ KeyResolved \/ KeyDeferred
              \/ ValueResolved \/ ValueDeferred \/ EntryDelivered \/ EntryFinished
              \/ MapFinished

Next == BeanStep \/ ListStep \/ MapStep

(* run is one loop that is never suspended.                                 *)
Spec == Init /\ [][Next]_vars /\ WF_vars(Next)
-----------------------------------------------------------------------------
(* Type invariant.                                                          *)
AtMostOne(S) == \A x, y \in S : x = y

FrameOK(f) ==
  /\ AtMostOne(f.waiting) /\ AtMostOne(f.entry)
  /\ f.kind # "bean" => f.waiting = {}
  /\ f.kind # "map"  => f.entry = {}

TypeOK ==
  /\ doc \in [Nodes -> Element]
  /\ stack \in Seq(Frame)
  /\ \A i \in 1 .. Len(stack) : FrameOK(stack[i])
  /\ incoming \subseteq Value /\ AtMostOne(incoming)
  /\ diags \in Seq(Diag)
  /\ built \subseteq Built
  /\ result \subseteq Value /\ AtMostOne(result)
  /\ stack = <<>> <=> result # {}
  /\ incoming # {} => result = {}

(* The element a frame has deferred and not had back: none, or the one      *)
(* under its cursor.                                                        *)
AwaitedByEntry(entry) ==
  LET c == Kids(entry.node)[entry.idx]
  IN  CASE entry.waiting = {"value"} -> {c}
        [] entry.waiting = {"key"}   -> {Kids(c)[1]}
        [] OTHER                     -> {}

Awaited(f) ==
  CASE f.kind = "bean" -> UNION {Candidate(p) : p \in f.waiting}
    [] f.kind = "map"  -> UNION {AwaitedByEntry(entry) : entry \in f.entry}
    [] OTHER           -> IF f.idx = 0 THEN {} ELSE {Kids(f.node)[f.idx]}

(* A ListLikeFrame keeps no record of what it waits for.                    *)
Idle(f) == f.waiting = {} /\ \A entry \in f.entry : entry.waiting = {}

(* No result is lost or lands in another slot: every frame below the top    *)
(* waits for exactly the frame above it, a delivered value is the one its   *)
(* frame has asked for, so deliver never panics, and a frame that is        *)
(* stepped waits for nothing, as the debug_asserts of step say.             *)
Handshake ==
  /\ \A i \in 1 .. Len(stack) - 1 : stack[i + 1].node \in Awaited(stack[i])
  /\ \A v \in incoming : v.node \in Awaited(Top)
  /\ stack # <<>> /\ incoming = {} => Idle(Top)

(* A level of nesting costs one frame on the stack, whichever frames they   *)
(* are and whichever of the two ways of counting depth they use; and no     *)
(* document makes the stack higher than the limit and the frame it starts   *)
(* with.                                                                    *)
Level(f) == IF f.kind = "bean" THEN f.depth ELSE f.depth + 1

OneFramePerLevel ==
  /\ \A i \in 1 .. Len(stack) : Level(stack[i]) = i - 1
  /\ Len(stack) <= DepthLimit + 1

(* The engine gets to the end of every document.                            *)
Terminates == <>(result # {})
==============================================================================
