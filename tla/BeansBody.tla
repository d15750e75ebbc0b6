------------------------------ MODULE BeansBody ------------------------------
(***************************************************************************)
(* parse_root (src/src/lib.rs) and the body engine (src/src/dispatch.rs):  *)
(* a <beans> document with the <beans> nested in it, the namespaces that   *)
(* say what each child is, and the ids that are unique in a body.          *)
(*                                                                         *)
(* The element tree is an input.  What parse_bean and parse_namespaced do  *)
(* with one element is at most one diagnostic here (flawed).               *)
(***************************************************************************)
EXTENDS Integers, Sequences, FiniteSets

CONSTANTS
  Nodes,        (* the elements of the tree                                *)
  RootElement,  (* the first of them                                       *)
  Documents,    (* the trees                                               *)
  NsPrefixes,   (* the prefixes of names; "" is the default one            *)
  Uris,         (* what xmlns attributes may declare                       *)
  Ids,          (* bean ids                                                *)
  DepthLimit    (* DEPTH_LIMIT                                             *)

BeansUri   == "schema/beans"
ContextUri == "schema/context"
UtilUri    == "schema/util"

Local == {"beans", "bean", "description", "import", "alias",
          "component-scan", "property-placeholder", "properties", "other"}
Slot  == {"beans", "description", "imports", "aliases",
          "component_scans", "property_sources", "namespaced", "nested_profiles"}

(* Which namespace each prefix is bound to, if it is: what one element      *)
(* declares, and the NsScope in effect.                                     *)
Option(S) == {{}} \cup {{x} : x \in S}
NsScope   == [NsPrefixes -> Option(Uris)]

Element == [prefix : NsPrefixes, local : Local, xmlns : NsScope,
            kids : Seq(Nodes), id : Option(Ids), flawed : BOOLEAN]

ASSUME ConstantsOK ==
  /\ DepthLimit \in Nat \ {0}
  /\ RootElement \in Nodes
  /\ Documents \subseteq [Nodes -> Element]
  /\ Uris \subseteq STRING /\ NsPrefixes \subseteq STRING

VARIABLES
  doc,       (* the tree                                                   *)
  root,      (* Option: the root element build_tree has found              *)
  stage,     (* "root", then "body", then "done"                           *)
  stack,     (* run_beans_body's stack of frames, innermost last           *)
  incoming,  (* Option: the finished body to deliver to the top frame      *)
  diags,     (* the diagnostics, in order                                  *)
  files,     (* the finished bodies: their node and their context          *)
  result     (* Option: ParseResult::beans                                 *)

vars == <<doc, root, stage, stack, incoming, diags, files, result>>

(* BeansFileCtx: the children in each of its fields; the description is a   *)
(* sequence of at most one.                                                 *)
BeansFileCtx == [Slot -> Seq(Nodes)]
File  == [node : Nodes, ctx : BeansFileCtx]
Frame == [node : Nodes, scope : NsScope, idx : Nat, depth : Nat, ctx : BeansFileCtx]
Code  == {"NotBeansRoot", "BeanDiagnostic", "DuplicateBeanId", "UnknownElement",
          "NamespacedDiagnostic", "NestingLimitExceeded"}
Diag  == [code : Code, at : Option(Nodes)]

EmptyCtx == [slot \in Slot |-> <<>>]
Diagnose(code, n) == <<[code |-> code, at |-> {n}]>>
DiagnoseIf(b, code, n) == IF b THEN Diagnose(code, n) ELSE <<>>
-----------------------------------------------------------------------------
(* NsScope::from_element and resolve_qname: a declaration applies to its    *)
(* own element, too; a prefix nothing is declared for stands for itself.    *)
NoScope == [p \in NsPrefixes |-> {}]

Overlay(scope, n) ==
  [p \in NsPrefixes |-> IF doc[n].xmlns[p] # {} THEN doc[n].xmlns[p] ELSE scope[p]]

Bound(scope, p) == IF scope[p] = {} THEN p ELSE CHOOSE uri \in scope[p] : TRUE

IsBeansNs(ns)   == ns \in {"", BeansUri}
IsContextNs(ns) == ns \in {"context", ContextUri}
IsUtilNs(ns)    == ns \in {"util", UtilUri}

(* The arms of dispatch_root_child, which has none for <beans>.  Any other  *)
(* name of the beans namespace is unknown, any other name is namespaced.    *)
Arms(ns) ==
  (IF IsBeansNs(ns) THEN {<<"bean", "beans">>, <<"description", "description">>,
                          <<"import", "imports">>, <<"alias", "aliases">>} ELSE {})
    \cup (IF IsContextNs(ns) THEN {<<"component-scan", "component_scans">>,
                                   <<"property-placeholder", "property_sources">>} ELSE {})
    \cup (IF IsUtilNs(ns) THEN {<<"properties", "property_sources">>} ELSE {})

ArmNamed(ns, local) ==
  LET arms == {arm \in Arms(ns) : arm[1] = local}
  IN  CASE arms # {}                    -> (CHOOSE arm \in arms : TRUE)[2]
        [] arms = {} /\ IsBeansNs(ns)   -> "unknown"
        [] OTHER                        -> "namespaced"

(* A child is resolved twice.  step asks whether it is a nested <beans>,    *)
(* and only what is none is handed on to dispatch_root_child, which sets up *)
(* the scope of the child again from that of the body and picks its arm.    *)

(* Mutant of TakesBody: what the child itself declares is left out.         *)
TakesBodyOutside(n, scope) ==
  doc[n].local = "beans" /\ IsBeansNs(Bound(scope, doc[n].prefix))

TakesBody(n, scope) ==
  doc[n].local = "beans" /\ IsBeansNs(Bound(Overlay(scope, n), doc[n].prefix))

Dispatched(n, scope) == ArmNamed(Bound(Overlay(scope, n), doc[n].prefix), doc[n].local)

Arm(n, scope) == IF TakesBody(n, scope) THEN "nested_profiles" ELSE Dispatched(n, scope)
-----------------------------------------------------------------------------
(* parse_root *)
IsBeansRoot(n) ==
  /\ doc[n].local = "beans"
  /\ IsBeansNs(Bound(Overlay(NoScope, n), doc[n].prefix))

FrameFor(n, scope, d) ==
  [node |-> n, scope |-> Overlay(scope, n), idx |-> 0, depth |-> d, ctx |-> EmptyCtx]

Init ==
  /\ doc \in Documents
  /\ root \in {{}, {RootElement}}
  /\ stage = "root"
  /\ stack = <<>> /\ diags = <<>>
  /\ incoming = {} /\ files = {} /\ result = {}

RejectRoot ==
  /\ stage = "root"
  /\ \A n \in root : ~IsBeansRoot(n)
  /\ diags' = Append(diags, [code |-> "NotBeansRoot", at |-> root])
  /\ stage' = "done"
  /\ UNCHANGED <<doc, root, stack, incoming, files, result>>

(* parse_beans_body at depth 0, which is below the limit.                   *)
EnterRoot ==
  /\ stage = "root"
  /\ \E n \in root : IsBeansRoot(n) /\ stack' = <<FrameFor(n, NoScope, 0)>>
  /\ stage' = "body"
  /\ UNCHANGED <<doc, root, incoming, diags, files, result>>
-----------------------------------------------------------------------------
(* BeansBodyFrame::step: the child under the cursor of the top frame.       *)
Top       == stack[Len(stack)]
Kids(n)   == doc[n].kids
HasNext   == Top.idx < Len(Kids(Top.node))
NextChild == Kids(Top.node)[Top.idx + 1]
Past      == [Top EXCEPT !.idx = @ + 1]

Kept(f, slot, n)   == [f EXCEPT !.ctx[slot] = Append(@, n)]
WithTop(f)         == [stack EXCEPT ![Len(stack)] = f]

(* A child for which the arm is in slots.                                   *)
Stepping(slots) ==
  /\ stage = "body" /\ incoming = {} /\ HasNext
  /\ Arm(NextChild, Top.scope) \in slots

(* Mutant of LeafChild: what the child declares stays in effect after it.   *)
LeafScopeLeaks ==
  /\ Stepping({"imports", "aliases", "component_scans", "property_sources"})
  /\ stack' = WithTop([Kept(Past, Arm(NextChild, Top.scope), NextChild)
                          EXCEPT !.scope = Overlay(@, NextChild)])
  /\ UNCHANGED <<doc, root, stage, incoming, diags, files, result>>

(* <import>, <alias>, component-scan and the two property sources: read     *)
(* into the context, never diagnosed.                                       *)
LeafChild ==
  /\ Stepping({"imports", "aliases", "component_scans", "property_sources"})
  /\ stack' = WithTop(Kept(Past, Arm(NextChild, Top.scope), NextChild))
  /\ UNCHANGED <<doc, root, stage, incoming, diags, files, result>>

(* The last <description> is the one that is kept.                          *)
DescriptionChild ==
  /\ Stepping({"description"})
  /\ stack' = WithTop([Past EXCEPT !.ctx["description"] = <<NextChild>>])
  /\ UNCHANGED <<doc, root, stage, incoming, diags, files, result>>

SameId(m, n) == doc[m].id # {} /\ doc[m].id = doc[n].id

(* dispatch_bean_element: a duplicate is a bean of this body that has been  *)
(* read already and has the same id; it is kept all the same.               *)
IsDuplicate(n) ==
  \E i \in 1 .. Len(Top.ctx["beans"]) : SameId(Top.ctx["beans"][i], n)

BeanChild ==
  /\ Stepping({"beans"})
  /\ stack' = WithTop(Kept(Past, "beans", NextChild))
  /\ diags' = diags \o DiagnoseIf(doc[NextChild].flawed, "BeanDiagnostic", NextChild)
                    \o DiagnoseIf(IsDuplicate(NextChild), "DuplicateBeanId", NextChild)
  /\ UNCHANGED <<doc, root, stage, incoming, files, result>>

NamespacedChild ==
  /\ Stepping({"namespaced"})
  /\ stack' = WithTop(Kept(Past, "namespaced", NextChild))
  /\ diags' = diags \o DiagnoseIf(doc[NextChild].flawed, "NamespacedDiagnostic", NextChild)
  /\ UNCHANGED <<doc, root, stage, incoming, files, result>>

UnknownChild ==
  /\ Stepping({"unknown"})
  /\ stack' = WithTop(Past)
  /\ diags' = diags \o Diagnose("UnknownElement", NextChild)
  /\ UNCHANGED <<doc, root, stage, incoming, files, result>>

(* Mutant of NestedAtLimit: the cursor stays.                               *)
NestedStays ==
  /\ Stepping({"nested_profiles"})
  /\ Top.depth + 1 >= DepthLimit
  /\ UNCHANGED vars

(* A nested <beans>: an empty body at the limit, a frame below it.          *)
NestedAtLimit ==
  /\ Stepping({"nested_profiles"})
  /\ Top.depth + 1 >= DepthLimit
  /\ stack' = WithTop(Kept(Past, "nested_profiles", NextChild))
  /\ diags' = diags \o Diagnose("NestingLimitExceeded", NextChild)
  /\ files' = files \cup {[node |-> NextChild, ctx |-> EmptyCtx]}
  /\ UNCHANGED <<doc, root, stage, incoming, result>>

(* Mutant of NestedPush: the cursor is not moved before the push.           *)
NestedPushUnmoved ==
  /\ Stepping({"nested_profiles"})
  /\ Top.depth + 1 < DepthLimit
  /\ stack' = Append(stack, FrameFor(NextChild, Top.scope, Top.depth + 1))
  /\ UNCHANGED <<doc, root, stage, incoming, diags, files, result>>

NestedPush ==
  /\ Stepping({"nested_profiles"})
  /\ Top.depth + 1 < DepthLimit
  /\ stack' = Append(WithTop(Past), FrameFor(NextChild, Top.scope, Top.depth + 1))
  /\ UNCHANGED <<doc, root, stage, incoming, diags, files, result>>

(* BeansBodyFrame::deliver, with no record of what is waited for.           *)
NestedDelivered ==
  /\ stage = "body"
  /\ \E n \in incoming : stack' = WithTop(Kept(Top, "nested_profiles", n))
  /\ incoming' = {}
  /\ UNCHANGED <<doc, root, stage, diags, files, result>>

BodyFinished ==
  /\ stage = "body" /\ incoming = {} /\ ~HasNext
  /\ files' = files \cup {[node |-> Top.node, ctx |-> Top.ctx]}
  /\ stack' = SubSeq(stack, 1, Len(stack) - 1)
  /\ IF Len(stack) = 1
     THEN result' = {Top.node} /\ stage' = "done" /\ UNCHANGED incoming
     ELSE incoming' = {Top.node} /\ UNCHANGED <<stage, result>>
  /\ UNCHANGED <<doc, root, diags>>

BodyStep == LeafChild \/ DescriptionChild \/ BeanChild \/ NamespacedChild \/ UnknownChild
              \/ NestedAtLimit \/ NestedPush \/ NestedDelivered \/ BodyFinished

Next == RejectRoot \/ EnterRoot \/ BodyStep

(* parse_root and run_beans_body are never suspended.                       *)
Spec == Init /\ [][Next]_vars /\ WF_vars(Next)
-----------------------------------------------------------------------------
(* Type invariant.                                                          *)
TypeOK ==
  /\ doc \in [Nodes -> Element]
  /\ root \in Option({RootElement})
  /\ stage \in {"root", "body", "done"}
  /\ stack \in Seq(Frame)
  /\ stage = "body" <=> stack # <<>>
  /\ incoming \in Option(Nodes)
  /\ incoming # {} => stage = "body"
  /\ diags \in Seq(Diag)
  /\ files \subseteq File
  /\ result \subseteq root /\ (result # {} => stage = "done")

(* A finished body goes into the body it stands in: the frames are the      *)
(* <beans> elements around the cursor, each the child its parent has just   *)
(* taken, and a finished body is the child the top frame has just taken.    *)
Taken(f) == Kids(f.node)[f.idx]

DeliversToParent ==
  /\ stage = "body" => root = {stack[1].node}
  /\ \A i \in 1 .. Len(stack) - 1 : stack[i].idx > 0 /\ stack[i + 1].node = Taken(stack[i])
  /\ \A n \in incoming : Top.idx > 0 /\ n = Taken(Top)

(* A body only ever holds children of its own element that have been read:  *)
(* no delivery, however deep it comes from, puts one into another body.     *)
HoldsOnly(ctx, n, read) ==
  \A slot \in Slot : \A j \in 1 .. Len(ctx[slot]) :
    \E i \in 1 .. read : ctx[slot][j] = Kids(n)[i]

NothingStrays ==
  /\ \A f \in files : HoldsOnly(f.ctx, f.node, Len(Kids(f.node)))
  /\ \A i \in 1 .. Len(stack) : HoldsOnly(stack[i].ctx, stack[i].node, stack[i].idx)

(* Bodies are nested at most DepthLimit deep, however they are nested in    *)
(* the document.                                                            *)
DepthBounded ==
  /\ \A i \in 1 .. Len(stack) : stack[i].depth = i - 1
  /\ Len(stack) <= DepthLimit

(* Every document is read to its end.                                       *)
Terminates == <>(stage = "done")
==============================================================================
