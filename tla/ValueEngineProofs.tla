-------------------------- MODULE ValueEngineProofs --------------------------
(* Theorems about the engine, for every document and every depth limit.     *)
EXTENDS RecursiveValues, StackLemmas

(* The inductive invariant.  The handshake and the height of the stack hold *)
(* each on the strength of the other's frames: a frame is pushed by the one *)
(* that then waits for it, at the depth that one gives it.                  *)
IInv == TypeOK /\ Handshake /\ OneFramePerLevel
-----------------------------------------------------------------------------
(* Lemmas about the operators of ValueEngine.                               *)

(* Every element of the tree has its attributes and children.               *)
LEMMA ElementType ==
  ASSUME doc \in [Nodes -> Element], NEW n \in Nodes
  PROVE  /\ doc[n] \in Element
         /\ doc[n].kind \in Kind /\ Kids(n) \in Seq(Nodes)
         /\ doc[n].flawed \in BOOLEAN /\ doc[n].key \in BOOLEAN /\ doc[n].value \in BOOLEAN
         /\ doc[n].keyRef \in RefAttr /\ doc[n].valueRef \in RefAttr
  <1>1. doc[n] \in Element
    OBVIOUS
  <1> QED
    BY <1>1 DEF Element, Kids

(* A child of an element is an element.                                     *)
LEMMA KidType ==
  ASSUME doc \in [Nodes -> Element], NEW n \in Nodes, NEW i \in 1 .. Len(Kids(n))
  PROVE  Kids(n)[i] \in Nodes
  <1>1. Kids(n) \in Seq(Nodes)
    BY ElementType
  <1> QED
    BY <1>1, ElementOfSeq

(* The candidate child of an injection is an element. *)
LEMMA CandidateType ==
  ASSUME doc \in [Nodes -> Element], NEW p \in Nodes
  PROVE  Candidate(p) \subseteq Nodes
  <1>1. \A i \in 1 .. Len(Kids(p)) : Kids(p)[i] \in Nodes
    BY KidType
  <1> QED
    BY <1>1 DEF Candidate

(* One diagnostic, or none, is a sequence of diagnostics. *)
LEMMA DiagnoseType ==
  ASSUME NEW b, NEW code \in Code, NEW n \in Nodes
  PROVE  DiagnoseIf(b, code, n) \in Seq(Diag)
  <1>1. [code |-> code, node |-> n] \in Diag
    BY DEF Diag
  <1> QED
    BY <1>1 DEF DiagnoseIf, Diagnose

(* What begin_resolve_value returns and diagnoses is well typed. *)
LEMMA ResolveType ==
  ASSUME doc \in [Nodes -> Element], NEW c \in Nodes, NEW d
  PROVE  /\ Resolved(c, d) \subseteq Value
         /\ AtMostOne(Resolved(c, d))
         /\ ResolveDiags(c, d) \in Seq(Diag)
  <1>1. /\ Val("null", c) \in Value /\ Val("collection", c) \in Value
        /\ Val("literal", c) \in Value /\ Val("ref", c) \in Value
    BY DEF Val, Value
  <1>2. \/ Resolved(c, d) = {} \/ Resolved(c, d) = {Val("null", c)}
        \/ Resolved(c, d) = {Val("collection", c)} \/ Resolved(c, d) = {Val("literal", c)}
        \/ Resolved(c, d) = {Val("ref", c)}
    <2>1. CASE CutOff(c, d)
      BY <2>1 DEF Resolved, CutOff
    <2>2. CASE ~CutOff(c, d)
      BY <2>2 DEF Resolved
    <2> QED
      BY <2>1, <2>2
  <1>3. /\ DiagnoseIf(CutOff(c, d), "NestingLimitExceeded", c) \in Seq(Diag)
        /\ DiagnoseIf(doc[c].kind = "ref" /\ doc[c].flawed, "RefWithoutTarget", c) \in Seq(Diag)
        /\ DiagnoseIf(doc[c].kind = "bean" /\ ~CutOff(c, d) /\ doc[c].flawed,
                      "BeanAttributes", c) \in Seq(Diag)
    BY DiagnoseType DEF Code
  <1>4. ResolveDiags(c, d) \in Seq(Diag)
    BY <1>3, ConcatProperties DEF ResolveDiags
  <1> QED
    BY <1>1, <1>2, <1>4 DEF AtMostOne

(* The value chosen between attributes and child is a value. *)
LEMMA ChosenType ==
  ASSUME NEW literal \in BOOLEAN, NEW ref \in RefAttr, NEW child \in SUBSET Value, NEW n \in Nodes
  PROVE  /\ Chosen(literal, ref, child, n) \in Value
         /\ ChosenDiags(literal, ref, n) \in Seq(Diag)
         /\ ConflictDiags(literal, ref, n) \in Seq(Diag)
  <1>1. /\ Val("null", n) \in Value /\ Val("literal", n) \in Value /\ Val("ref", n) \in Value
    BY DEF Val, Value
  <1>2. child # {} => (CHOOSE v \in child : TRUE) \in Value
    OBVIOUS
  <1>3. Chosen(literal, ref, child, n) \in Value
    BY <1>1, <1>2 DEF Chosen
  <1> QED
    BY <1>3, DiagnoseType DEF ChosenDiags, ConflictDiags, Code

(* What a slot receives is an item.                                         *)
LEMMA EnteringType ==
  ASSUME NEW slot \in Kind \cup {"item"},
         NEW n \in Nodes, NEW v \in Value
  PROVE  Entering(slot, n, v) \in Item
  BY DEF Entering, Item

(* An injection and its diagnostics are well typed. *)
LEMMA InjectionType ==
  ASSUME doc \in [Nodes -> Element], NEW p \in Nodes, NEW child \in SUBSET Value
  PROVE  /\ Injected(p, child) \in Item
         /\ InjectionDiags(p) \in Seq(Diag)
         /\ InjectionConflict(p) \in Seq(Diag)
  <1>1. doc[p].value \in BOOLEAN /\ doc[p].valueRef \in RefAttr
    BY ElementType
  <1>2. Chosen(doc[p].value, doc[p].valueRef, child, p) \in Value
    BY <1>1, ChosenType
  <1>3. doc[p].kind \in Kind \cup {"item"}
    BY ElementType
  <1>4. Injected(p, child) \in Item
    BY <1>2, <1>3, EnteringType DEF Injected
  <1> QED
    BY <1>1, <1>4, ChosenType DEF InjectionDiags, InjectionConflict

(* A map entry and its diagnostics are well typed. *)
LEMMA MapEntryType ==
  ASSUME doc \in [Nodes -> Element], NEW e \in Nodes,
         NEW key \in SUBSET Value, NEW value \in SUBSET Value
  PROVE  /\ MapEntry(e, key, value) \in Seq(Item)
         /\ MapEntryDiags(e) \in Seq(Diag)
  <1>1. /\ doc[e].value \in BOOLEAN /\ doc[e].valueRef \in RefAttr
        /\ doc[e].key \in BOOLEAN /\ doc[e].keyRef \in RefAttr
    BY ElementType
  <1>2. /\ Chosen(doc[e].key, doc[e].keyRef, key, e) \in Value
        /\ Chosen(doc[e].value, doc[e].valueRef, value, e) \in Value
        /\ ChosenDiags(doc[e].key, doc[e].keyRef, e) \in Seq(Diag)
        /\ ChosenDiags(doc[e].value, doc[e].valueRef, e) \in Seq(Diag)
    BY <1>1, ChosenType
  <1>3. /\ Entering("key", e, Chosen(doc[e].key, doc[e].keyRef, key, e)) \in Item
        /\ Entering("value", e, Chosen(doc[e].value, doc[e].valueRef, value, e)) \in Item
    BY <1>2, EnteringType DEF Kind
  <1> QED
    BY <1>2, <1>3, ConcatProperties DEF MapEntry, MapEntryDiags

(* The frame of an element that is descended into: it waits for nothing.    *)
LEMMA FrameForType ==
  ASSUME NEW c \in Nodes, NEW d \in Nat, doc[c].kind \in {"bean", "list", "map"}
  PROVE  /\ FrameFor(c, d) \in Frame
         /\ FrameOK(FrameFor(c, d)) /\ Idle(FrameFor(c, d))
         /\ FrameFor(c, d).node = c
         /\ Level(FrameFor(c, d)) = d + 1
  <1> DEFINE f == FrameFor(c, d)
  <1>1. /\ f.kind = doc[c].kind /\ f.node = c /\ f.idx = 0
        /\ f.depth = IF doc[c].kind = "bean" THEN d + 1 ELSE d
        /\ f.items = <<>> /\ f.waiting = {} /\ f.entry = {}
    BY DEF FrameFor
  <1>2. f \in Frame
    BY DEF FrameFor, Frame
  <1> QED
    BY <1>1, <1>2 DEF FrameOK, Idle, AtMostOne, Level
-----------------------------------------------------------------------------
(* The three things a step does to the stack.                               *)

(* The top of a stack of frames, and the stack with another top.            *)
LEMMA TopType ==
  ASSUME TypeOK, stack # <<>>
  PROVE  /\ Len(stack) \in Nat /\ Len(stack) >= 1
         /\ Top = stack[Len(stack)]
         /\ Top \in Frame /\ FrameOK(Top)
  <1>1. stack \in Seq(Frame) /\ \A i \in 1 .. Len(stack) : FrameOK(stack[i])
    BY DEF TypeOK
  <1>2. Len(stack) \in 1 .. Len(stack)
    BY <1>1, EmptySeq
  <1>3. stack[Len(stack)] \in Frame
    BY <1>1, <1>2, ElementOfSeq
  <1> QED
    BY <1>1, <1>2, <1>3 DEF Top

(* What a frame awaits depends on the tree only.                            *)
LEMMA AwaitedStable ==
  ASSUME UNCHANGED doc, NEW f, NEW i, stack'[i] = f
  PROVE  Awaited(stack[i])' = Awaited(f)
  BY DEF Awaited, Candidate, AwaitedByEntry, Kids

(* What a frame awaits depends on the frame and the document only. *)
LEMMA AwaitedByTop ==
  ASSUME UNCHANGED doc, NEW f, Top' = f
  PROVE  Awaited(Top)' = Awaited(f)
  BY DEF Awaited, Candidate, AwaitedByEntry, Kids

(* What the three facts say of the stack alone.                             *)
StackOK ==
  /\ stack \in Seq(Frame)
  /\ \A i \in 1 .. Len(stack) : FrameOK(stack[i])
  /\ \A i \in 1 .. Len(stack) - 1 : stack[i + 1].node \in Awaited(stack[i])
  /\ OneFramePerLevel

(* Replacing the top frame by one of the same element and depth keeps the stack sound. *)
LEMMA Replaced ==
  ASSUME StackOK, stack # <<>>, UNCHANGED doc,
         NEW f \in Frame, FrameOK(f),
         f.kind = Top.kind, f.node = Top.node, f.depth = Top.depth,
         stack' = WithTop(f)
  PROVE  StackOK' /\ Top' = f /\ stack' # <<>>
  <1> DEFINE n == Len(stack)
  <1>1. /\ stack' \in Seq(Frame) /\ Len(stack') = n
        /\ \A i \in 1 .. n : stack'[i] = IF i = n THEN f ELSE stack[i]
    BY ReplaceLast DEF StackOK, WithTop
  <1>2. n \in Nat /\ n >= 1
    BY EmptySeq DEF StackOK
  <1>3. Top' = f
    BY <1>1, <1>2 DEF Top
  <1>4. \A i \in 1 .. n : FrameOK(stack'[i])
    BY <1>1 DEF StackOK
  <1>5. \A i \in 1 .. n : stack'[i].node = stack[i].node /\ Level(stack'[i]) = Level(stack[i])
    BY <1>1, <1>2 DEF Top, Level
  <1>6. \A i \in 1 .. n - 1 : stack'[i + 1].node \in Awaited(stack[i])
    BY <1>2, <1>5 DEF StackOK
  <1>7. \A i \in 1 .. n - 1 : (stack[i + 1].node \in Awaited(stack[i]))'
    <2>1. SUFFICES ASSUME NEW i \in 1 .. n - 1
                   PROVE  (stack[i + 1].node \in Awaited(stack[i]))'
      OBVIOUS
    <2>2. stack'[i] = stack[i]
      BY <1>1, <1>2
    <2>3. Awaited(stack[i])' = Awaited(stack[i])
      BY <2>2, AwaitedStable
    <2> QED
      BY <1>6, <2>3
  <1>8. OneFramePerLevel'
    BY <1>1, <1>5 DEF StackOK, OneFramePerLevel
  <1> QED
    BY <1>1, <1>2, <1>3, <1>4, <1>7, <1>8, EmptySeq DEF StackOK

(* A frame is pushed over the one that has deferred it.                     *)
LEMMA Pushed ==
  ASSUME StackOK, stack # <<>>, UNCHANGED doc, doc \in [Nodes -> Element],
         NEW f \in Frame, FrameOK(f),
         f.kind = Top.kind, f.node = Top.node, f.depth = Top.depth,
         NEW c \in Nodes, NEW d \in Nat, Descends(c, d), d = Level(Top), c \in Awaited(f),
         Push(f, c, d)
  PROVE  StackOK' /\ stack' # <<>> /\ Idle(Top')
  <1> DEFINE n == Len(stack)
             s == WithTop(f)
             g == FrameFor(c, d)
  <1>1. n \in Nat /\ n >= 1
    BY EmptySeq DEF StackOK
  <1>2. /\ s \in Seq(Frame) /\ Len(s) = n
        /\ \A i \in 1 .. n : s[i] = IF i = n THEN f ELSE stack[i]
    BY ReplaceLast DEF StackOK, WithTop
  <1>3. /\ d < DepthLimit
        /\ g \in Frame /\ FrameOK(g) /\ Idle(g) /\ g.node = c /\ Level(g) = d + 1
    BY FrameForType DEF Descends
  <1>4. stack' = Append(s, g)
    BY DEF Push
  <1> HIDE DEF s, g
  <1>5. /\ stack' \in Seq(Frame) /\ Len(stack') = n + 1 /\ stack' # <<>>
        /\ \A i \in 1 .. n : stack'[i] = IF i = n THEN f ELSE stack[i]
        /\ stack'[n + 1] = g
    BY <1>2, <1>3, <1>4, AppendProperties
  <1>6. Top' = g
    BY <1>5 DEF Top
  <1>7. \A i \in 1 .. Len(stack') : FrameOK(stack'[i])
    BY <1>1, <1>3, <1>5 DEF StackOK
  <1>8. \A i \in 1 .. n : stack'[i].node = stack[i].node /\ Level(stack'[i]) = Level(stack[i])
    BY <1>1, <1>5 DEF Top, Level
  <1>9. \A i \in 1 .. n : (stack[i + 1].node \in Awaited(stack[i]))'
    <2>1. ASSUME NEW i \in 1 .. n - 1
          PROVE  (stack[i + 1].node \in Awaited(stack[i]))'
      <3>1. stack'[i] = stack[i] /\ stack'[i + 1].node = stack[i + 1].node
        BY <1>1, <1>5, <1>8
      <3>2. Awaited(stack[i])' = Awaited(stack[i])
        BY <3>1, AwaitedStable
      <3> QED
        BY <3>1, <3>2 DEF StackOK
    <2>2. ASSUME NEW i, i = n
          PROVE  (stack[i + 1].node \in Awaited(stack[i]))'
      <3>1. stack'[i] = f /\ stack'[i + 1].node = c
        BY <1>1, <1>3, <1>5, <2>2
      <3>2. Awaited(stack[i])' = Awaited(f)
        BY <3>1, AwaitedStable
      <3> QED
        BY <3>1, <3>2
    <2>3. \A i \in 1 .. n : i \in 1 .. n - 1 \/ i = n
      BY <1>1
    <2> QED
      BY <2>1, <2>2, <2>3
  <1>10. OneFramePerLevel'
    <2>1. Level(stack[n]) = n - 1 /\ d = n - 1
      BY <1>1 DEF StackOK, OneFramePerLevel, Top
    <2>2. n + 1 <= DepthLimit + 1
      BY <1>1, <1>3, <2>1, ConstantsOK
    <2>3. \A i \in 1 .. n + 1 : Level(stack'[i]) = i - 1
      BY <1>1, <1>3, <1>5, <1>8, <2>1 DEF StackOK, OneFramePerLevel
    <2> QED
      BY <1>5, <2>2, <2>3 DEF OneFramePerLevel
  <1> QED
    BY <1>1, <1>3, <1>5, <1>6, <1>7, <1>9, <1>10 DEF StackOK

(* A finished frame leaves the one that waits for it on top.                *)
LEMMA Popped ==
  ASSUME StackOK, stack # <<>>, UNCHANGED doc,
         stack' = SubSeq(stack, 1, Len(stack) - 1)
  PROVE  /\ StackOK'
         /\ stack' = <<>> <=> Len(stack) = 1
         /\ Len(stack) # 1 => Top.node \in Awaited(Top)'
  <1> DEFINE n == Len(stack)
  <1>1. n \in Nat /\ n >= 1
    BY EmptySeq DEF StackOK
  <1>2. stack \in Seq(Frame)
    BY DEF StackOK
  <1>3. /\ stack' \in Seq(Frame) /\ Len(stack') = n - 1
        /\ \A i \in 1 .. n - 1 : stack'[i] = stack[i]
        /\ stack' = <<>> <=> n = 1
    BY <1>2, RemoveLast
  <1>4. \A i \in 1 .. n - 2 : (stack[i + 1].node \in Awaited(stack[i]))'
    <2>1. SUFFICES ASSUME NEW i \in 1 .. n - 2
                   PROVE  (stack[i + 1].node \in Awaited(stack[i]))'
      OBVIOUS
    <2>2. stack'[i] = stack[i] /\ stack'[i + 1] = stack[i + 1]
      BY <1>1, <1>3
    <2>3. Awaited(stack[i])' = Awaited(stack[i])
      BY <2>2, AwaitedStable
    <2>4. stack[i + 1].node \in Awaited(stack[i])
      BY <1>1 DEF StackOK
    <2> QED
      BY <2>2, <2>3, <2>4
  <1>5. OneFramePerLevel'
    BY <1>1, <1>3, ConstantsOK DEF StackOK, OneFramePerLevel
  <1>6. StackOK'
    BY <1>1, <1>3, <1>4, <1>5 DEF StackOK
  <1>7. n # 1 => Top.node \in Awaited(Top)'
    <2>1. SUFFICES ASSUME n # 1
                   PROVE  Top.node \in Awaited(Top)'
      OBVIOUS
    <2>2. Top' = stack[n - 1]
      BY <1>1, <1>3, <2>1 DEF Top
    <2>3. Awaited(Top)' = Awaited(stack[n - 1])
      BY <2>2, AwaitedByTop
    <2>4. n - 1 \in 1 .. n - 1 /\ (n - 1) + 1 = n
      <3> HIDE DEF n
      <3>1. n >= 2
        BY <1>1, <2>1
      <3> QED
        BY <1>1, <3>1
    <2>5. stack[n].node \in Awaited(stack[n - 1])
      BY <2>4 DEF StackOK
    <2> QED
      BY <2>3, <2>5 DEF Top
  <1> QED
    BY <1>3, <1>6, <1>7
-----------------------------------------------------------------------------
(* The invariant, for the three kinds of steps.                             *)

LEMMA StackFromInv ==
  ASSUME IInv
  PROVE  StackOK
  BY DEF IInv, TypeOK, Handshake, StackOK

(* A step that leaves the top frame idle, with nothing coming in.           *)
LEMMA Advanced ==
  ASSUME IInv, stack # <<>>, UNCHANGED <<doc, built, result>>, incoming' = {},
         diags' \in Seq(Diag),
         NEW f \in Frame, FrameOK(f), Idle(f),
         f.kind = Top.kind, f.node = Top.node, f.depth = Top.depth,
         stack' = WithTop(f)
  PROVE  IInv'
  <1>1. StackOK' /\ Top' = f /\ stack' # <<>>
    BY StackFromInv, Replaced
  <1>2. TypeOK'
    BY <1>1 DEF IInv, TypeOK, StackOK, AtMostOne
  <1>3. Handshake'
    <2>1. Idle(Top)'
      BY <1>1 DEF Idle
    <2> QED
      BY <1>1, <2>1 DEF Handshake, StackOK
  <1> QED
    BY <1>1, <1>2, <1>3 DEF IInv, StackOK

(* A step that pushes the frame of the element the top frame then waits for. *)
LEMMA Deferred ==
  ASSUME IInv, stack # <<>>, UNCHANGED <<doc, incoming, built, result>>, incoming = {},
         diags' \in Seq(Diag),
         NEW f \in Frame, FrameOK(f),
         f.kind = Top.kind, f.node = Top.node, f.depth = Top.depth,
         NEW c \in Nodes, NEW d \in Nat, Descends(c, d), d = Level(Top), c \in Awaited(f),
         Push(f, c, d)
  PROVE  IInv'
  <1>1. StackOK' /\ stack' # <<>> /\ Idle(Top')
    BY StackFromInv, Pushed DEF IInv, TypeOK
  <1>2. TypeOK'
    BY <1>1 DEF IInv, TypeOK, StackOK, AtMostOne
  <1>3. Handshake'
    <2>1. Idle(Top)'
      BY <1>1 DEF Idle
    <2> QED
      BY <1>1, <2>1 DEF Handshake, StackOK
  <1> QED
    BY <1>1, <1>2, <1>3 DEF IInv, StackOK

(* A frame returns: its value goes to the frame that waits for it.          *)
LEMMA Returned ==
  ASSUME IInv, NEW kind, NEW form \in {"inner", "collection"}, Finished(kind, form)
  PROVE  IInv'
  <1>1. result = {} /\ incoming = {} /\ stack # <<>>
    BY DEF Finished, Stepping, IInv, TypeOK
  <1>2. Top \in Frame
    BY <1>1, TopType DEF IInv
  <1>3. Val(form, Top.node) \in Value
    BY <1>2 DEF Val, Value, Frame
  <1>4. [node |-> Top.node, items |-> Top.items] \in Built
    BY <1>2 DEF Built, Frame
  <1>5. /\ StackOK'
        /\ stack' = <<>> <=> Len(stack) = 1
        /\ Len(stack) # 1 => Top.node \in Awaited(Top)'
    BY <1>1, StackFromInv, Popped DEF Finished
  <1>6. CASE Len(stack) = 1
    <2>1. result' = {Val(form, Top.node)} /\ incoming' = {} /\ stack' = <<>>
      BY <1>1, <1>5, <1>6 DEF Finished
    <2>2. TypeOK'
      BY <1>3, <1>4, <1>5, <2>1 DEF IInv, TypeOK, StackOK, AtMostOne, Finished
    <2>3. Handshake'
      BY <1>5, <2>1 DEF Handshake, StackOK
    <2> QED
      BY <1>5, <2>2, <2>3 DEF IInv, StackOK
  <1>7. CASE Len(stack) # 1
    <2>1. incoming' = {Val(form, Top.node)} /\ result' = {} /\ stack' # <<>>
      BY <1>1, <1>5, <1>7 DEF Finished
    <2>2. TypeOK'
      BY <1>3, <1>4, <1>5, <2>1 DEF IInv, TypeOK, StackOK, AtMostOne, Finished
    <2>3. \A v \in incoming' : v.node \in Awaited(Top)'
      BY <1>5, <1>7, <2>1 DEF Val
    <2>4. Handshake'
      BY <1>5, <2>1, <2>3 DEF Handshake, StackOK
    <2> QED
      BY <1>5, <2>2, <2>4 DEF IInv, StackOK
  <1> QED
    BY <1>6, <1>7
-----------------------------------------------------------------------------
(* The steps, one action at a time.                                         *)

(* What every step starts from.                                             *)
LEMMA Ready ==
  ASSUME IInv, stack # <<>>
  PROVE  /\ doc \in [Nodes -> Element] /\ diags \in Seq(Diag)
         /\ Top \in Frame /\ FrameOK(Top)
         /\ Top.node \in Nodes /\ Top.idx \in Nat /\ Top.depth \in Nat
         /\ Top.items \in Seq(Item) /\ Top.waiting \in SUBSET Nodes
         /\ Top.entry \in SUBSET EntryScan /\ incoming \in SUBSET Value
         /\ incoming = {} => Idle(Top)
  <1>1. Top \in Frame /\ FrameOK(Top)
    BY TopType DEF IInv
  <1> QED
    BY <1>1 DEF Frame, IInv, TypeOK, Handshake

(* The child under the cursor is an element. *)
LEMMA NextChildType ==
  ASSUME IInv, stack # <<>>, HasNext
  PROVE  NextChild \in Nodes
  <1>1. Top.node \in Nodes /\ Top.idx \in Nat /\ doc \in [Nodes -> Element]
    BY Ready
  <1>2. Kids(Top.node) \in Seq(Nodes)
    BY <1>1, ElementType
  <1>3. Top.idx + 1 \in 1 .. Len(Kids(Top.node))
    BY <1>1, <1>2, LenProperties DEF HasNext
  <1> QED
    BY <1>1, <1>3, KidType DEF NextChild

(* The top frame past its next child.                                       *)
LEMMA PastType ==
  ASSUME IInv, stack # <<>>
  PROVE  /\ Past \in Frame
         /\ Past.kind = Top.kind /\ Past.node = Top.node /\ Past.depth = Top.depth
         /\ Past.items = Top.items /\ Past.waiting = Top.waiting /\ Past.entry = Top.entry
         /\ Past.idx = Top.idx + 1
  <1>1. Top \in Frame /\ Top.idx + 1 \in Nat
    BY Ready
  <1> QED
    BY <1>1 DEF Past, Frame

(* A frame whose items alone have changed.                                  *)
LEMMA ItemsChanged ==
  ASSUME NEW f \in Frame, NEW items \in Seq(Item)
  PROVE  LET g == [f EXCEPT !.items = items]
         IN  /\ g \in Frame
             /\ g.kind = f.kind /\ g.node = f.node /\ g.depth = f.depth
             /\ g.idx = f.idx /\ g.waiting = f.waiting /\ g.entry = f.entry
  BY DEF Frame

(* A child of a <bean> that is no injection preserves the invariant. *)
LEMMA BeanOtherStep ==
  ASSUME IInv, BeanOther
  PROVE  IInv'
  <1>1. stack # <<>> /\ result = {} /\ incoming = {}
    BY DEF BeanOther, Stepping, IInv, TypeOK
  <1>2. NextChild \in Nodes
    BY <1>1, NextChildType DEF BeanOther
  <1>3. diags' \in Seq(Diag)
    <2>1. DiagnoseIf(doc[NextChild].kind # "meta" /\ (doc[NextChild].kind = "other" => doc[NextChild].flawed),
                     "BeanChild", NextChild) \in Seq(Diag)
      BY <1>2, DiagnoseType DEF Code
    <2> QED
      BY <1>1, <2>1, Ready, ConcatProperties DEF BeanOther
  <1>4. FrameOK(Past) /\ Idle(Past)
    BY <1>1, Ready, PastType DEF FrameOK, Idle
  <1> QED
    BY <1>1, <1>3, <1>4, PastType, Advanced DEF BeanOther

(* The parts of a <property> or <constructor-arg> that end its step.        *)
LEMMA InjectionEnds ==
  ASSUME IInv, stack # <<>>, Stepping("bean"), HasNext,
         NEW child \in SUBSET Value
  PROVE  LET f == [Past EXCEPT !.items = Append(@, Injected(NextChild, child))]
         IN  /\ f \in Frame /\ FrameOK(f) /\ Idle(f)
             /\ f.kind = Top.kind /\ f.node = Top.node /\ f.depth = Top.depth
  <1> DEFINE items == Append(Top.items, Injected(NextChild, child))
             f == [Past EXCEPT !.items = items]
  <1>1. Injected(NextChild, child) \in Item
    BY NextChildType, InjectionType, Ready
  <1>2. items \in Seq(Item)
    BY <1>1, Ready, AppendProperties
  <1>3. [Past EXCEPT !.items = Append(@, Injected(NextChild, child))] = f
    BY PastType
  <1> HIDE DEF items
  <1>4. /\ f \in Frame
        /\ f.kind = Top.kind /\ f.node = Top.node /\ f.depth = Top.depth
        /\ f.waiting = Top.waiting /\ f.entry = Top.entry
    BY <1>2, PastType, ItemsChanged
  <1> HIDE DEF f
  <1>5. FrameOK(f) /\ Idle(f)
    BY <1>4, Ready DEF FrameOK, Idle, Stepping
  <1> QED
    BY <1>3, <1>4, <1>5

(* An injection without a child preserves the invariant. *)
LEMMA InjectPlainStep ==
  ASSUME IInv, InjectPlain
  PROVE  IInv'
  <1> DEFINE p == NextChild
             f == [Past EXCEPT !.items = Append(@, Injected(p, {}))]
  <1>1. stack # <<>> /\ result = {} /\ incoming = {}
    BY DEF InjectPlain, Stepping, IInv, TypeOK
  <1>2. p \in Nodes
    BY <1>1, NextChildType DEF InjectPlain
  <1>3. diags' \in Seq(Diag)
    <2>1. InjectionConflict(p) \in Seq(Diag) /\ InjectionDiags(p) \in Seq(Diag)
      BY <1>1, <1>2, Ready, InjectionType DEF InjectPlain
    <2> QED
      BY <1>1, <2>1, Ready, ConcatProperties DEF InjectPlain
  <1>4. /\ f \in Frame /\ FrameOK(f) /\ Idle(f)
        /\ f.kind = Top.kind /\ f.node = Top.node /\ f.depth = Top.depth
    BY <1>1, InjectionEnds DEF InjectPlain
  <1>5. stack' = WithTop(f)
    BY DEF InjectPlain
  <1> HIDE DEF f
  <1> QED
    BY <1>1, <1>3, <1>4, <1>5, Advanced DEF InjectPlain

(* An injection whose child is resolved at once preserves the invariant. *)
LEMMA InjectResolvedStep ==
  ASSUME IInv, InjectResolved
  PROVE  IInv'
  <1> DEFINE p == NextChild
  <1>1. stack # <<>> /\ result = {} /\ incoming = {}
    BY DEF InjectResolved, Stepping, IInv, TypeOK
  <1>2. p \in Nodes
    BY <1>1, NextChildType DEF InjectResolved
  <1>3. PICK c \in Candidate(p) :
          /\ stack' = WithTop([Past EXCEPT !.items = Append(@, Injected(p, Resolved(c, Top.depth)))])
          /\ diags' = diags \o InjectionConflict(p) \o ResolveDiags(c, Top.depth) \o InjectionDiags(p)
    BY DEF InjectResolved
  <1> DEFINE f == [Past EXCEPT !.items = Append(@, Injected(p, Resolved(c, Top.depth)))]
  <1>4. c \in Nodes
    BY <1>1, <1>2, Ready, CandidateType
  <1>5. Resolved(c, Top.depth) \in SUBSET Value /\ ResolveDiags(c, Top.depth) \in Seq(Diag)
    BY <1>1, <1>4, Ready, ResolveType
  <1>6. diags' \in Seq(Diag)
    <2>1. InjectionConflict(p) \in Seq(Diag) /\ InjectionDiags(p) \in Seq(Diag)
      BY <1>1, <1>2, Ready, InjectionType DEF InjectResolved
    <2>2. diags \o InjectionConflict(p) \o ResolveDiags(c, Top.depth) \in Seq(Diag)
      BY <1>1, <1>5, <2>1, Ready, ConcatProperties
    <2> QED
      BY <1>3, <2>1, <2>2, ConcatProperties
  <1>7. /\ f \in Frame /\ FrameOK(f) /\ Idle(f)
        /\ f.kind = Top.kind /\ f.node = Top.node /\ f.depth = Top.depth
    BY <1>1, <1>5, InjectionEnds DEF InjectResolved
  <1>8. stack' = WithTop(f)
    BY <1>3
  <1> HIDE DEF f
  <1> QED
    BY <1>1, <1>6, <1>7, <1>8, Advanced DEF InjectResolved

(* BeanFrame pushes a frame it waits for, one level up. *)
LEMMA InjectDeferredStep ==
  ASSUME IInv, InjectDeferred
  PROVE  IInv'
  <1> DEFINE p == NextChild
             f == [Past EXCEPT !.waiting = {p}]
  <1>1. stack # <<>> /\ result = {} /\ incoming = {} /\ Top.kind = "bean"
    BY DEF InjectDeferred, Stepping, IInv, TypeOK
  <1>2. p \in Nodes
    BY <1>1, NextChildType DEF InjectDeferred
  <1>3. PICK c \in Candidate(p) :
          /\ Descends(c, Top.depth)
          /\ Push(f, c, Top.depth)
          /\ diags' = diags \o InjectionConflict(p) \o ResolveDiags(c, Top.depth)
    BY DEF InjectDeferred
  <1>4. c \in Nodes
    BY <1>1, <1>2, Ready, CandidateType
  <1>5. diags' \in Seq(Diag)
    <2>1. InjectionConflict(p) \in Seq(Diag)
      BY <1>1, <1>2, Ready, InjectionType DEF InjectDeferred
    <2>2. ResolveDiags(c, Top.depth) \in Seq(Diag)
      BY <1>1, <1>4, Ready, ResolveType
    <2>3. diags \o InjectionConflict(p) \in Seq(Diag)
      BY <1>1, <2>1, Ready, ConcatProperties
    <2> QED
      BY <1>3, <2>2, <2>3, ConcatProperties
  <1>6. f \in Frame
    BY <1>1, <1>2, PastType DEF Frame
  <1>7. /\ f.kind = Top.kind /\ f.node = Top.node /\ f.depth = Top.depth
        /\ f.waiting = {p} /\ f.entry = Top.entry
    BY <1>1, PastType DEF Frame
  <1> HIDE DEF f, p
  <1>8. FrameOK(f)
    BY <1>1, <1>7, Ready DEF FrameOK, AtMostOne
  <1>9. c \in Awaited(f)
    BY <1>1, <1>7 DEF Awaited
  <1>10. Top.depth \in Nat /\ Top.depth = Level(Top)
    BY <1>1, Ready DEF Level
  <1>11. UNCHANGED <<doc, incoming, built, result>>
    BY DEF InjectDeferred
  <1> QED
    BY <1>1, <1>3, <1>4, <1>5, <1>6, <1>7, <1>8, <1>9, <1>10, <1>11, Deferred

(* BeanFrame::deliver leaves the frame waiting for nothing. *)
LEMMA InjectDeliveredStep ==
  ASSUME IInv, InjectDelivered
  PROVE  IInv'
  <1>1. stack # <<>> /\ result = {} /\ incoming # {} /\ Top.kind = "bean"
    BY DEF InjectDelivered, Delivering, IInv, TypeOK
  <1>2. PICK v \in incoming, p \in Top.waiting :
          /\ stack' = WithTop([Top EXCEPT !.waiting = {}, !.items = Append(@, Injected(p, {v}))])
          /\ diags' = diags \o InjectionDiags(p)
    BY DEF InjectDelivered
  <1> DEFINE items == Append(Top.items, Injected(p, {v}))
             f == [Top EXCEPT !.waiting = {}, !.items = Append(@, Injected(p, {v}))]
  <1>3. p \in Nodes /\ {v} \in SUBSET Value
    BY <1>1, Ready
  <1>4. Injected(p, {v}) \in Item /\ InjectionDiags(p) \in Seq(Diag)
    BY <1>1, <1>3, Ready, InjectionType
  <1>5. items \in Seq(Item)
    BY <1>1, <1>4, Ready, AppendProperties
  <1>6. diags' \in Seq(Diag)
    BY <1>1, <1>2, <1>4, Ready, ConcatProperties
  <1>7. f = [Top EXCEPT !.waiting = {}, !.items = items]
    BY <1>1, Ready DEF Frame
  <1> HIDE DEF items
  <1>8. f \in Frame
    BY <1>1, <1>5, <1>7, Ready DEF Frame
  <1>9. /\ f.kind = Top.kind /\ f.node = Top.node /\ f.depth = Top.depth
        /\ f.waiting = {} /\ f.entry = Top.entry
    BY <1>1, <1>7, Ready DEF Frame
  <1>10. stack' = WithTop(f)
    BY <1>2
  <1> HIDE DEF f
  <1>11. FrameOK(f) /\ Idle(f)
    BY <1>1, <1>9, Ready DEF FrameOK, Idle, AtMostOne
  <1> QED
    BY <1>1, <1>6, <1>8, <1>9, <1>10, <1>11, Advanced DEF InjectDelivered

(* An item that is resolved at once preserves the invariant. *)
LEMMA ItemResolvedStep ==
  ASSUME IInv, ItemResolved
  PROVE  IInv'
  <1> DEFINE c == NextChild
             value == Resolved(c, Top.depth + 1)
             f == Gathered(Past, c, value)
  <1>1. stack # <<>> /\ result = {} /\ incoming = {}
    BY DEF ItemResolved, Stepping, IInv, TypeOK
  <1>2. c \in Nodes
    BY <1>1, NextChildType DEF ItemResolved
  <1>3. value \subseteq Value /\ ResolveDiags(c, Top.depth + 1) \in Seq(Diag)
    BY <1>1, <1>2, Ready, ResolveType
  <1>4. diags' \in Seq(Diag)
    BY <1>1, <1>3, Ready, ConcatProperties DEF ItemResolved
  <1>5. stack' = WithTop(f)
    BY DEF ItemResolved
  <1> HIDE DEF c, value
  <1>6. /\ f \in Frame
        /\ f.kind = Top.kind /\ f.node = Top.node /\ f.depth = Top.depth
        /\ f.waiting = Top.waiting /\ f.entry = Top.entry
    <2>1. CASE value = {}
      BY <1>1, <2>1, PastType DEF Gathered
    <2>2. CASE value # {}
      <3> DEFINE item == Entering("item", c, CHOOSE v \in value : TRUE)
                 items == Append(Past.items, item)
      <3>1. item \in Item
        BY <1>2, <1>3, <2>2, EnteringType
      <3>2. items \in Seq(Item)
        <4> HIDE DEF item
        <4> QED
          BY <1>1, <3>1, PastType, Ready, AppendProperties
      <3>3. f = [Past EXCEPT !.items = items]
        BY <2>2 DEF Gathered
      <3> HIDE DEF items
      <3> QED
        BY <1>1, <3>2, <3>3, PastType, ItemsChanged
    <2> QED
      BY <2>1, <2>2
  <1> HIDE DEF f
  <1>7. FrameOK(f) /\ Idle(f)
    BY <1>1, <1>6, Ready DEF FrameOK, Idle
  <1> QED
    BY <1>1, <1>4, <1>5, <1>6, <1>7, Advanced DEF ItemResolved

(* ListLikeFrame pushes the frame of its current child, one level up. *)
LEMMA ItemDeferredStep ==
  ASSUME IInv, ItemDeferred
  PROVE  IInv'
  <1> DEFINE c == NextChild
             d == Top.depth + 1
  <1>1. stack # <<>> /\ result = {} /\ incoming = {} /\ Top.kind = "list" /\ HasNext
    BY DEF ItemDeferred, Stepping, IInv, TypeOK
  <1>2. c \in Nodes /\ d \in Nat
    BY <1>1, NextChildType, Ready
  <1>3. diags' \in Seq(Diag)
    BY <1>1, <1>2, Ready, ResolveType, ConcatProperties DEF ItemDeferred
  <1>4. FrameOK(Past)
    BY <1>1, Ready, PastType DEF FrameOK
  <1>5. d = Level(Top)
    BY <1>1 DEF Level
  <1>6. c \in Awaited(Past)
    <2>1. Past.kind = "list" /\ Past.node = Top.node /\ Past.idx = Top.idx + 1
      BY <1>1, PastType
    <2>2. Past.idx # 0
      BY <1>1, <2>1, Ready
    <2> QED
      BY <2>1, <2>2 DEF Awaited, NextChild
  <1>7. /\ Descends(c, d) /\ Push(Past, c, d)
        /\ UNCHANGED <<doc, incoming, built, result>>
    BY DEF ItemDeferred
  <1> HIDE DEF c, d
  <1> QED
    BY <1>1, <1>2, <1>3, <1>4, <1>5, <1>6, <1>7, PastType, Deferred

(* ListLikeFrame::deliver preserves the invariant. *)
LEMMA ItemDeliveredStep ==
  ASSUME IInv, ItemDelivered
  PROVE  IInv'
  <1>1. stack # <<>> /\ result = {} /\ incoming # {} /\ Top.kind = "list"
    BY DEF ItemDelivered, Delivering, IInv, TypeOK
  <1>2. PICK v \in incoming : stack' = WithTop(Gathered(Top, v.node, {v}))
    BY DEF ItemDelivered
  <1> DEFINE item == Entering("item", v.node, v)
             items == Append(Top.items, item)
             f == [Top EXCEPT !.items = items]
  <1>3. v \in Value /\ v.node \in Nodes
    BY <1>1, Ready DEF Value
  <1>4. items \in Seq(Item)
    <2>1. item \in Item
      BY <1>3, EnteringType
    <2> HIDE DEF item
    <2> QED
      BY <1>1, <2>1, Ready, AppendProperties
  <1>5. stack' = WithTop(f)
    <2>1. (CHOOSE w \in {v} : TRUE) = v
      OBVIOUS
    <2>2. Gathered(Top, v.node, {v}) = f
      BY <2>1 DEF Gathered
    <2> QED
      BY <1>2, <2>2
  <1> HIDE DEF items
  <1>6. /\ f \in Frame
        /\ f.kind = Top.kind /\ f.node = Top.node /\ f.depth = Top.depth
        /\ f.waiting = Top.waiting /\ f.entry = Top.entry
    BY <1>1, <1>4, Ready, ItemsChanged
  <1> HIDE DEF f
  <1>7. FrameOK(f) /\ Idle(f)
    BY <1>1, <1>6, Ready DEF FrameOK, Idle
  <1>8. incoming' = {} /\ UNCHANGED <<doc, diags, built, result>>
    BY DEF ItemDelivered
  <1> QED
    BY <1>1, <1>5, <1>6, <1>7, <1>8, Ready, Advanced

(* A child of a map that is no <entry> preserves the invariant. *)
LEMMA MapSkipStep ==
  ASSUME IInv, MapSkip
  PROVE  IInv'
  <1>1. stack # <<>> /\ result = {} /\ incoming = {}
    BY DEF MapSkip, Stepping, IInv, TypeOK
  <1>2. FrameOK(Past) /\ Idle(Past)
    BY <1>1, Ready, PastType DEF FrameOK, Idle
  <1> QED
    BY <1>1, <1>2, PastType, Ready, Advanced DEF MapSkip

(* A frame in which the entry that is being scanned has changed.            *)
LEMMA EntryChanged ==
  ASSUME NEW f \in Frame, NEW entry \in SUBSET EntryScan
  PROVE  LET g == [f EXCEPT !.entry = entry]
         IN  /\ g \in Frame
             /\ g.kind = f.kind /\ g.node = f.node /\ g.depth = f.depth
             /\ g.idx = f.idx /\ g.waiting = f.waiting /\ g.entry = entry
  BY DEF Frame

(* Beginning an <entry> preserves the invariant: its scan waits for nothing. *)
LEMMA EntryBeginStep ==
  ASSUME IInv, EntryBegin
  PROVE  IInv'
  <1> DEFINE e == NextChild
             f == [Past EXCEPT !.entry = {BeginEntry(e)}]
  <1>1. /\ stack # <<>> /\ result = {} /\ incoming = {} /\ Top.kind = "map" /\ HasNext
        /\ stack' = WithTop(f)
        /\ UNCHANGED <<doc, incoming, built, result>>
    BY DEF EntryBegin, Stepping, IInv, TypeOK
  <1>2. e \in Nodes
    BY <1>1, NextChildType
  <1>3. diags' \in Seq(Diag)
    <2>1. /\ doc[e].value \in BOOLEAN /\ doc[e].valueRef \in RefAttr
          /\ doc[e].key \in BOOLEAN /\ doc[e].keyRef \in RefAttr
      BY <1>1, <1>2, Ready, ElementType
    <2>2. /\ ConflictDiags(doc[e].key, doc[e].keyRef, e) \in Seq(Diag)
          /\ ConflictDiags(doc[e].value, doc[e].valueRef, e) \in Seq(Diag)
      BY <1>2, <2>1, DiagnoseType DEF ConflictDiags, Code
    <2>3. diags \o ConflictDiags(doc[e].key, doc[e].keyRef, e) \in Seq(Diag)
      BY <1>1, <2>2, Ready, ConcatProperties
    <2> QED
      BY <2>2, <2>3, ConcatProperties DEF EntryBegin
  <1>4. BeginEntry(e) \in EntryScan /\ BeginEntry(e).waiting = {}
    BY <1>2 DEF BeginEntry, EntryScan
  <1> HIDE DEF e
  <1>5. /\ f \in Frame
        /\ f.kind = Top.kind /\ f.node = Top.node /\ f.depth = Top.depth
        /\ f.waiting = Top.waiting /\ f.entry = {BeginEntry(e)}
    <2>1. {BeginEntry(e)} \in SUBSET EntryScan
      BY <1>4
    <2>2. /\ Past \in Frame
          /\ Past.kind = Top.kind /\ Past.node = Top.node /\ Past.depth = Top.depth
          /\ Past.waiting = Top.waiting
      BY <1>1, PastType
    <2>3. /\ f \in Frame
          /\ f.kind = Past.kind /\ f.node = Past.node /\ f.depth = Past.depth
          /\ f.waiting = Past.waiting /\ f.entry = {BeginEntry(e)}
      BY <2>1, <2>2, EntryChanged
    <2> QED
      BY <2>2, <2>3
  <1> HIDE DEF f
  <1>6. Top.waiting = {}
    BY <1>1, Ready DEF FrameOK
  <1>7. FrameOK(f)
    BY <1>1, <1>5, <1>6 DEF FrameOK, AtMostOne
  <1>8. Idle(f)
    BY <1>4, <1>5, <1>6 DEF Idle
  <1> QED
    BY <1>1, <1>3, <1>5, <1>7, <1>8, Advanced

(* The frame of a map with its scan at another point.                       *)
LEMMA WithEntryType ==
  ASSUME IInv, stack # <<>>, Top.kind = "map", NEW scan \in EntryScan
  PROVE  /\ WithEntry(scan) \in Frame /\ FrameOK(WithEntry(scan))
         /\ WithEntry(scan).kind = Top.kind /\ WithEntry(scan).node = Top.node
         /\ WithEntry(scan).depth = Top.depth /\ WithEntry(scan).entry = {scan}
         /\ scan.waiting = {} => Idle(WithEntry(scan))
  <1> DEFINE f == [Top EXCEPT !.entry = {scan}]
  <1>1. /\ f \in Frame
        /\ f.kind = Top.kind /\ f.node = Top.node /\ f.depth = Top.depth
        /\ f.waiting = Top.waiting /\ f.entry = {scan}
    <2>1. {scan} \in SUBSET EntryScan /\ Top \in Frame
      BY Ready
    <2> QED
      BY <2>1, EntryChanged
  <1>2. WithEntry(scan) = f
    BY DEF WithEntry
  <1> HIDE DEF f
  <1>3. Top.waiting = {}
    BY Ready DEF FrameOK
  <1>4. FrameOK(f)
    BY <1>1, <1>3 DEF FrameOK, AtMostOne
  <1>5. ASSUME scan.waiting = {} PROVE Idle(f)
    BY <1>1, <1>3, <1>5 DEF Idle
  <1> QED
    BY <1>1, <1>2, <1>4, <1>5

(* The scan of an entry, its children, and the scan past the next of them.  *)
LEMMA ScanType ==
  ASSUME IInv, stack # <<>>, NEW entry \in Top.entry, EntryHasNext(entry)
  PROVE  /\ entry \in EntryScan /\ EntryPast(entry) \in EntryScan
         /\ entry.idx \in Nat
         /\ EntryPast(entry).node = entry.node /\ EntryPast(entry).idx = entry.idx + 1
         /\ EntryPast(entry).waiting = entry.waiting
         /\ EntryChild(entry) \in Nodes
         /\ Kids(EntryChild(entry)) # <<>> => KeyChild(entry) \in Nodes
  <1>1. entry \in EntryScan /\ doc \in [Nodes -> Element]
    BY Ready
  <1>2. entry.idx + 1 \in Nat /\ entry.idx \in Nat /\ entry.node \in Nodes
    BY <1>1 DEF EntryScan
  <1>3. /\ EntryPast(entry) \in EntryScan
        /\ EntryPast(entry).node = entry.node /\ EntryPast(entry).idx = entry.idx + 1
        /\ EntryPast(entry).waiting = entry.waiting
    BY <1>1, <1>2 DEF EntryPast, EntryScan
  <1>4. Kids(entry.node) \in Seq(Nodes)
    BY <1>1, <1>2, ElementType
  <1>5. entry.idx + 1 \in 1 .. Len(Kids(entry.node))
    BY <1>2, <1>4, LenProperties DEF EntryHasNext
  <1>6. EntryChild(entry) \in Nodes
    BY <1>1, <1>2, <1>5, KidType DEF EntryChild
  <1>7. ASSUME Kids(EntryChild(entry)) # <<>>
        PROVE  KeyChild(entry) \in Nodes
    <2>1. Kids(EntryChild(entry)) \in Seq(Nodes)
      BY <1>1, <1>6, ElementType
    <2>2. 1 \in 1 .. Len(Kids(EntryChild(entry)))
      BY <1>7, <2>1, EmptySeq
    <2> QED
      BY <1>1, <1>6, <2>2, KidType DEF KeyChild
  <1> QED
    BY <1>1, <1>2, <1>3, <1>6, <1>7

(* A child of an <entry> that is not tried preserves the invariant. *)
LEMMA EntrySkipStep ==
  ASSUME IInv, EntrySkip
  PROVE  IInv'
  <1>1. /\ stack # <<>> /\ result = {} /\ incoming = {} /\ Top.kind = "map"
        /\ UNCHANGED <<doc, incoming, diags, built, result>>
    BY DEF EntrySkip, Stepping, IInv, TypeOK
  <1>2. PICK entry \in Top.entry :
          EntryHasNext(entry) /\ stack' = WithTop(WithEntry(EntryPast(entry)))
    BY DEF EntrySkip
  <1> DEFINE scan == EntryPast(entry)
  <1>3. scan \in EntryScan /\ scan.waiting = {}
    BY <1>1, <1>2, ScanType, Ready DEF Idle
  <1> HIDE DEF scan
  <1>4. stack' = WithTop(WithEntry(scan))
    BY <1>2 DEF scan
  <1> QED
    BY <1>1, <1>3, <1>4, WithEntryType, Ready, Advanced

(* A key that is resolved at once preserves the invariant. *)
LEMMA KeyResolvedStep ==
  ASSUME IInv, KeyResolved
  PROVE  IInv'
  <1>1. /\ stack # <<>> /\ result = {} /\ incoming = {} /\ Top.kind = "map"
        /\ UNCHANGED <<doc, incoming, built, result>>
    BY DEF KeyResolved, Stepping, IInv, TypeOK
  <1>2. PICK entry \in Top.entry :
          /\ TriesKey(entry)
          /\ stack' = WithTop(WithEntry([EntryPast(entry) EXCEPT !.key = Resolved(KeyChild(entry), EntryDepth)]))
          /\ diags' = diags \o ResolveDiags(KeyChild(entry), EntryDepth)
    BY DEF KeyResolved
  <1> DEFINE c == KeyChild(entry)
             value == Resolved(c, EntryDepth)
             scan == [EntryPast(entry) EXCEPT !.key = value]
  <1>3. /\ c \in Nodes /\ EntryPast(entry) \in EntryScan /\ EntryPast(entry).waiting = {}
    BY <1>1, <1>2, ScanType, Ready DEF TriesKey, Idle
  <1>4. value \in SUBSET Value /\ ResolveDiags(c, EntryDepth) \in Seq(Diag)
    BY <1>1, <1>3, Ready, ResolveType
  <1>5. diags' \in Seq(Diag)
    BY <1>1, <1>2, <1>4, Ready, ConcatProperties
  <1>6. stack' = WithTop(WithEntry(scan))
    BY <1>2
  <1> HIDE DEF c, value
  <1>7. scan \in EntryScan /\ scan.waiting = {}
    BY <1>3, <1>4 DEF EntryScan
  <1> HIDE DEF scan
  <1> QED
    BY <1>1, <1>5, <1>6, <1>7, WithEntryType, Advanced

(* A value that is resolved at once preserves the invariant. *)
LEMMA ValueResolvedStep ==
  ASSUME IInv, ValueResolved
  PROVE  IInv'
  <1>1. /\ stack # <<>> /\ result = {} /\ incoming = {} /\ Top.kind = "map"
        /\ UNCHANGED <<doc, incoming, built, result>>
    BY DEF ValueResolved, Stepping, IInv, TypeOK
  <1>2. PICK entry \in Top.entry :
          /\ TriesValue(entry)
          /\ stack' = WithTop(WithEntry([EntryPast(entry) EXCEPT
                         !.seenValue = TRUE, !.value = Resolved(EntryChild(entry), EntryDepth)]))
          /\ diags' = diags \o ResolveDiags(EntryChild(entry), EntryDepth)
    BY DEF ValueResolved
  <1> DEFINE c == EntryChild(entry)
             value == Resolved(c, EntryDepth)
             scan == [EntryPast(entry) EXCEPT !.seenValue = TRUE, !.value = value]
  <1>3. /\ c \in Nodes /\ EntryPast(entry) \in EntryScan /\ EntryPast(entry).waiting = {}
    BY <1>1, <1>2, ScanType, Ready DEF TriesValue, Idle
  <1>4. value \in SUBSET Value /\ ResolveDiags(c, EntryDepth) \in Seq(Diag)
    BY <1>1, <1>3, Ready, ResolveType
  <1>5. diags' \in Seq(Diag)
    BY <1>1, <1>2, <1>4, Ready, ConcatProperties
  <1>6. stack' = WithTop(WithEntry(scan))
    BY <1>2
  <1> HIDE DEF c, value
  <1>7. scan \in EntryScan /\ scan.waiting = {}
    BY <1>3, <1>4 DEF EntryScan
  <1> HIDE DEF scan
  <1> QED
    BY <1>1, <1>5, <1>6, <1>7, WithEntryType, Advanced

(* The depth an <entry> is read at is a level of the map's own.             *)
LEMMA EntryDepthType ==
  ASSUME IInv, stack # <<>>, Top.kind = "map"
  PROVE  EntryDepth \in Nat /\ EntryDepth = Level(Top)
  BY Ready DEF EntryDepth, Level

(* A deferred key is awaited in the key slot by the frame below it. *)
LEMMA KeyDeferredStep ==
  ASSUME IInv, KeyDeferred
  PROVE  IInv'
  <1>1. /\ stack # <<>> /\ result = {} /\ incoming = {} /\ Top.kind = "map"
        /\ UNCHANGED <<doc, incoming, built, result>>
    BY DEF KeyDeferred, Stepping, IInv, TypeOK
  <1>2. PICK entry \in Top.entry :
          /\ TriesKey(entry) /\ Descends(KeyChild(entry), EntryDepth)
          /\ Push(WithEntry([EntryPast(entry) EXCEPT !.waiting = {"key"}]), KeyChild(entry), EntryDepth)
          /\ diags' = diags \o ResolveDiags(KeyChild(entry), EntryDepth)
    BY DEF KeyDeferred
  <1> DEFINE c == KeyChild(entry)
             scan == [EntryPast(entry) EXCEPT !.waiting = {"key"}]
             f == WithEntry(scan)
  <1>3. /\ c \in Nodes /\ entry.idx \in Nat /\ EntryPast(entry) \in EntryScan
        /\ EntryPast(entry).node = entry.node /\ EntryPast(entry).idx = entry.idx + 1
    BY <1>1, <1>2, ScanType DEF TriesKey
  <1>4. diags' \in Seq(Diag)
    <2>1. ResolveDiags(c, EntryDepth) \in Seq(Diag)
      BY <1>1, <1>3, Ready, ResolveType
    <2> QED
      BY <1>1, <1>2, <2>1, Ready, ConcatProperties
  <1>5. /\ scan \in EntryScan /\ scan.waiting = {"key"}
        /\ scan.node = entry.node /\ scan.idx = entry.idx + 1
    BY <1>3 DEF EntryScan
  <1>6. AwaitedByEntry(scan) = {c}
    <2>1. Kids(scan.node)[scan.idx] = EntryChild(entry)
      BY <1>5 DEF EntryChild
    <2> HIDE DEF scan
    <2> QED
      BY <1>5, <2>1 DEF AwaitedByEntry, KeyChild
  <1>7. Push(f, c, EntryDepth) /\ Descends(c, EntryDepth)
    BY <1>2
  <1> HIDE DEF c, scan
  <1>8. /\ f \in Frame /\ FrameOK(f) /\ f.kind = Top.kind /\ f.node = Top.node
        /\ f.depth = Top.depth /\ f.entry = {scan}
    BY <1>1, <1>5, WithEntryType
  <1> HIDE DEF f
  <1>9. c \in Awaited(f)
    BY <1>1, <1>6, <1>8 DEF Awaited
  <1> QED
    BY <1>1, <1>3, <1>4, <1>7, <1>8, <1>9, EntryDepthType, Deferred

(* A deferred value is awaited in the value slot by the frame below it. *)
LEMMA ValueDeferredStep ==
  ASSUME IInv, ValueDeferred
  PROVE  IInv'
  <1>1. /\ stack # <<>> /\ result = {} /\ incoming = {} /\ Top.kind = "map"
        /\ UNCHANGED <<doc, incoming, built, result>>
    BY DEF ValueDeferred, Stepping, IInv, TypeOK
  <1>2. PICK entry \in Top.entry :
          /\ TriesValue(entry) /\ Descends(EntryChild(entry), EntryDepth)
          /\ Push(WithEntry([EntryPast(entry) EXCEPT !.seenValue = TRUE, !.waiting = {"value"}]),
                  EntryChild(entry), EntryDepth)
          /\ diags' = diags \o ResolveDiags(EntryChild(entry), EntryDepth)
    BY DEF ValueDeferred
  <1> DEFINE c == EntryChild(entry)
             scan == [EntryPast(entry) EXCEPT !.seenValue = TRUE, !.waiting = {"value"}]
             f == WithEntry(scan)
  <1>3. /\ c \in Nodes /\ entry.idx \in Nat /\ EntryPast(entry) \in EntryScan
        /\ EntryPast(entry).node = entry.node /\ EntryPast(entry).idx = entry.idx + 1
    BY <1>1, <1>2, ScanType DEF TriesValue
  <1>4. diags' \in Seq(Diag)
    <2>1. ResolveDiags(c, EntryDepth) \in Seq(Diag)
      BY <1>1, <1>3, Ready, ResolveType
    <2> QED
      BY <1>1, <1>2, <2>1, Ready, ConcatProperties
  <1>5. /\ scan \in EntryScan /\ scan.waiting = {"value"}
        /\ scan.node = entry.node /\ scan.idx = entry.idx + 1
    BY <1>3 DEF EntryScan
  <1>6. AwaitedByEntry(scan) = {c}
    <2>1. Kids(scan.node)[scan.idx] = c
      BY <1>5 DEF EntryChild
    <2> HIDE DEF scan, c
    <2> QED
      BY <1>5, <2>1 DEF AwaitedByEntry
  <1>7. Push(f, c, EntryDepth) /\ Descends(c, EntryDepth)
    BY <1>2
  <1> HIDE DEF c, scan
  <1>8. /\ f \in Frame /\ FrameOK(f) /\ f.kind = Top.kind /\ f.node = Top.node
        /\ f.depth = Top.depth /\ f.entry = {scan}
    BY <1>1, <1>5, WithEntryType
  <1> HIDE DEF f
  <1>9. c \in Awaited(f)
    BY <1>1, <1>6, <1>8 DEF Awaited
  <1> QED
    BY <1>1, <1>3, <1>4, <1>7, <1>8, <1>9, EntryDepthType, Deferred

(* EntryScan::deliver leaves the scan waiting for nothing. *)
LEMMA EntryDeliveredStep ==
  ASSUME IInv, EntryDelivered
  PROVE  IInv'
  <1>1. /\ stack # <<>> /\ result = {} /\ Top.kind = "map" /\ incoming' = {}
        /\ UNCHANGED <<doc, diags, built, result>>
    BY DEF EntryDelivered, Delivering, IInv, TypeOK
  <1>2. PICK v \in incoming, entry \in Top.entry : \E slot \in entry.waiting :
          stack' = WithTop(WithEntry(Delivered(entry, slot, v)))
    BY DEF EntryDelivered
  <1>3. PICK slot \in entry.waiting : stack' = WithTop(WithEntry(Delivered(entry, slot, v)))
    BY <1>2
  <1> DEFINE scan == Delivered(entry, slot, v)
  <1>4. entry \in EntryScan /\ {v} \in SUBSET Value
    BY <1>1, Ready
  <1>5. scan \in EntryScan /\ scan.waiting = {}
    BY <1>4 DEF Delivered, EntryScan
  <1>6. stack' = WithTop(WithEntry(scan)) /\ diags' \in Seq(Diag)
    BY <1>1, <1>3, Ready
  <1> HIDE DEF scan
  <1> QED
    BY <1>1, <1>5, <1>6, WithEntryType, Advanced

(* Finishing an <entry> preserves the invariant. *)
LEMMA EntryFinishedStep ==
  ASSUME IInv, EntryFinished
  PROVE  IInv'
  <1>1. /\ stack # <<>> /\ result = {} /\ incoming = {} /\ Top.kind = "map"
        /\ UNCHANGED <<doc, incoming, built, result>>
    BY DEF EntryFinished, Stepping, IInv, TypeOK
  <1>2. PICK entry \in Top.entry :
          /\ stack' = WithTop([Top EXCEPT !.entry = {},
               !.items = @ \o MapEntry(entry.node, entry.key, entry.value)])
          /\ diags' = diags \o MapEntryDiags(entry.node)
    BY DEF EntryFinished
  <1> DEFINE items == Top.items \o MapEntry(entry.node, entry.key, entry.value)
             f == [Top EXCEPT !.entry = {}, !.items = items]
  <1>3. entry.node \in Nodes /\ entry.key \in SUBSET Value /\ entry.value \in SUBSET Value
    <2>1. entry \in EntryScan
      BY <1>1, Ready
    <2> QED
      BY <2>1 DEF EntryScan
  <1>4. /\ MapEntry(entry.node, entry.key, entry.value) \in Seq(Item)
        /\ MapEntryDiags(entry.node) \in Seq(Diag)
    BY <1>1, <1>3, Ready, MapEntryType
  <1>5. items \in Seq(Item) /\ diags' \in Seq(Diag)
    BY <1>1, <1>2, <1>4, Ready, ConcatProperties
  <1>6. stack' = WithTop(f)
    BY <1>1, <1>2, Ready DEF Frame
  <1> HIDE DEF items
  <1>7. /\ f \in Frame /\ f.kind = Top.kind /\ f.node = Top.node /\ f.depth = Top.depth
        /\ f.waiting = Top.waiting /\ f.entry = {}
    BY <1>1, <1>5, Ready DEF Frame
  <1> HIDE DEF f
  <1>8. FrameOK(f) /\ Idle(f)
    BY <1>1, <1>7, Ready DEF FrameOK, Idle, AtMostOne
  <1> QED
    BY <1>1, <1>5, <1>6, <1>7, <1>8, Advanced
-----------------------------------------------------------------------------
(* The invariant holds of the frame run starts with,                        *)
LEMMA InitIInv ==
  ASSUME Init
  PROVE  IInv
  <1> DEFINE f == [FrameFor(RootBean, 0) EXCEPT !.depth = 0]
  <1>1. doc \in [Nodes -> Element] /\ RootBean \in Nodes /\ doc[RootBean].kind = "bean"
    BY ConstantsOK DEF Init
  <1>2. /\ f \in Frame /\ f.kind = "bean" /\ f.depth = 0
        /\ f.waiting = {} /\ f.entry = {}
    <2> DEFINE g == FrameFor(RootBean, 0)
    <2>1. g \in Frame /\ FrameOK(g) /\ Idle(g)
      BY <1>1, FrameForType
    <2>2. g.kind = "bean" /\ g.waiting = {} /\ g.entry = {}
      BY <1>1 DEF FrameFor
    <2> HIDE DEF g
    <2>3. f = [g EXCEPT !.depth = 0]
      BY DEF g
    <2> HIDE DEF f
    <2> QED
      BY <2>1, <2>2, <2>3 DEF Frame
  <1>3. stack = <<f>> /\ incoming = {} /\ built = {} /\ result = {}
    BY DEF Init
  <1>4. diags \in Seq(Diag)
    BY <1>1, DiagnoseType DEF Init, Code
  <1> HIDE DEF f
  <1>5. stack \in Seq(Frame) /\ Len(stack) = 1 /\ stack[1] = f /\ stack # <<>>
    BY <1>2, <1>3
  <1>6. FrameOK(f) /\ Idle(f) /\ Level(f) = 0
    BY <1>2 DEF FrameOK, Idle, AtMostOne, Level
  <1>7. TypeOK
    BY <1>1, <1>3, <1>4, <1>5, <1>6 DEF TypeOK, AtMostOne
  <1>8. Handshake
    BY <1>3, <1>5, <1>6 DEF Handshake, Top
  <1>9. OneFramePerLevel
    BY <1>5, <1>6, ConstantsOK DEF OneFramePerLevel
  <1> QED
    BY <1>7, <1>8, <1>9 DEF IInv

(* and every step preserves it.                                             *)
LEMMA NextIInv ==
  ASSUME IInv, [Next]_vars
  PROVE  IInv'
  <1>1. CASE BeanStep
    <2>1. CASE BeanFinished
      BY <2>1, Returned DEF BeanFinished
    <2> QED
      BY <1>1, <2>1, BeanOtherStep, InjectPlainStep, InjectResolvedStep,
         InjectDeferredStep, InjectDeliveredStep DEF BeanStep
  <1>2. CASE ListStep
    <2>1. CASE ListFinished
      BY <2>1, Returned DEF ListFinished
    <2> QED
      BY <1>2, <2>1, ItemResolvedStep, ItemDeferredStep, ItemDeliveredStep DEF ListStep
  <1>3. CASE MapStep
    <2>1. CASE MapFinished
      BY <2>1, Returned DEF MapFinished
    <2> QED
      BY <1>3, <2>1, MapSkipStep, EntryBeginStep, EntrySkipStep, KeyResolvedStep,
         KeyDeferredStep, ValueResolvedStep, ValueDeferredStep, EntryDeliveredStep,
         EntryFinishedStep DEF MapStep
  <1>4. CASE UNCHANGED vars
    <2>1. UNCHANGED <<doc, stack, incoming, diags, built, result>>
      BY <1>4 DEF vars
    <2>2. TypeOK'
      BY <2>1 DEF IInv, TypeOK
    <2>3. OneFramePerLevel'
      BY <2>1 DEF IInv, OneFramePerLevel
    <2>4. Handshake'
      <3>1. \A i \in 1 .. Len(stack) - 1 : (stack[i + 1].node \in Awaited(stack[i]))'
        <4>1. SUFFICES ASSUME NEW i \in 1 .. Len(stack) - 1
                       PROVE  (stack[i + 1].node \in Awaited(stack[i]))'
          OBVIOUS
        <4>2. Awaited(stack[i])' = Awaited(stack[i])
          BY <2>1, AwaitedStable
        <4> QED
          BY <2>1, <4>2 DEF IInv, Handshake
      <3>2. Top' = Top /\ Awaited(Top)' = Awaited(Top)
        BY <2>1, AwaitedByTop DEF Top
      <3>3. Idle(Top)' = Idle(Top)
        BY <3>2 DEF Idle
      <3> QED
        BY <2>1, <3>1, <3>2, <3>3 DEF IInv, Handshake
    <2> QED
      BY <2>2, <2>3, <2>4 DEF IInv
  <1> QED
    BY <1>1, <1>2, <1>3, <1>4 DEF Next

(* The three facts together, in every state of every run.                   *)
THEOREM Invariance == Spec => []IInv
  <1>1. Init => IInv
    BY InitIInv
  <1>2. IInv /\ [Next]_vars => IInv'
    BY NextIInv
  <1> QED
    BY <1>1, <1>2, PTL DEF Spec

(* The engine's state is well formed: one value at most is on its way, and  *)
(* run has returned exactly when its stack is empty.                        *)
THEOREM TypeCorrect == Spec => []TypeOK
  <1>1. IInv => TypeOK
    BY DEF IInv
  <1> QED
    BY <1>1, Invariance, PTL

(* deliver is only ever called on the frame that has asked for the value:   *)
(* its panic and the debug_asserts of step are out of reach of any tree.    *)
THEOREM NoResultGoesAstray == Spec => []Handshake
  <1>1. IInv => Handshake
    BY DEF IInv
  <1> QED
    BY <1>1, Invariance, PTL

(* However deep the document, the stack never holds more than the limit and *)
(* one frame, and the depths the two ways of counting hand on agree.        *)
THEOREM HeightIsBounded == Spec => []OneFramePerLevel
  <1>1. IInv => OneFramePerLevel
    BY DEF IInv
  <1> QED
    BY <1>1, Invariance, PTL
-----------------------------------------------------------------------------
(* The engine and the recursion it stands in for.                           *)

(* What is still to be said when the frame f, whose children are resolved   *)
(* at depth d, goes on, with what it waits for left out: the end of the     *)
(* injection or the rest of the entry it is in, and its other children.     *)
The(S) == CHOOSE x \in S : TRUE

RestOfEntry(x, d) ==
  Onward(EntrySays(Said, x.node, d), Len(Kids(x.node)))[x.idx + 1] \o MapEntryDiags(x.node)

RestOfSlot(f, d) ==
  IF f.waiting # {} THEN InjectionDiags(The(f.waiting))
  ELSE IF f.entry # {} THEN RestOfEntry(The(f.entry), d)
  ELSE <<>>

LeftToSay(f, d) ==
  RestOfSlot(f, d) \o Onward(Says(Said, f.node, d), Len(Kids(f.node)))[f.idx + 1]

(* The calls it has still to make, and what they and it will have gathered. *)
LookFrom(n, d, i) == UNION {Looked(n, d, Kids(n)[j]) : j \in i .. Len(Kids(n))}
AskFrom(e, d, i)  == UNION {Asked(e, d, j) : j \in i .. Len(Kids(e))}

LeftToLook(f, d) ==
  LookFrom(f.node, d, f.idx + 1) \cup UNION {AskFrom(x.node, d, x.idx + 1) : x \in f.entry}

LeftToGather(f, d) ==
  {[node |-> f.node, items |-> Gathers(f.node, d)]}
    \cup UNION {Facts[d + 1][c] : c \in {c \in LeftToLook(f, d) : Descends(c, d)}}

(* The scan of an entry has the key and the value of the children before    *)
(* its cursor, and not of the one under it while that is waited for.        *)
Before(x, slot, i) == i <= x.idx /\ (x.waiting = {slot} => i < x.idx)

KeySoFar(x, d) ==
  UNION {Yields(InKey(x.node, i), d) :
           i \in {j \in Earliest(Found(x.node, d)) : Before(x, "key", j)}}
ValueSoFar(x, d) ==
  UNION {Yields(Kids(x.node)[i], d) : i \in {j \in ValueAt(x.node) : Before(x, "value", j)}}

ScanFits(x, d) ==
  /\ x.idx <= Len(Kids(x.node)) /\ x.key = KeySoFar(x, d) /\ x.value = ValueSoFar(x, d)
  /\ x.seenValue <=> \E i \in ValueAt(x.node) : i <= x.idx
  /\ x.waiting = {"key"} => x.idx \in Earliest(Found(x.node, d))
  /\ x.waiting = {"value"} => x.idx \in ValueAt(x.node)

(* A frame is at a child of its element, and has gathered the items of the  *)
(* children before the one it is busy with.                                 *)
FrameFits(f, d) ==
  /\ f.kind = doc[f.node].kind
  /\ f.idx <= Len(Kids(f.node))
  /\ \A p \in f.waiting : f.idx > 0 /\ p = Kids(f.node)[f.idx] /\ Injects(p)
  /\ \A x \in f.entry :
       /\ f.idx > 0 /\ x.node = Kids(f.node)[f.idx] /\ doc[x.node].kind = "entry"
       /\ ScanFits(x, d)

Gathering(f, d, awaits) ==
  /\ awaits => f.idx > 0
  /\ f.items \o Onward(AddsOf(f.node, d), Len(Kids(f.node)))
                  [IF awaits \/ f.entry # {} THEN f.idx ELSE f.idx + 1] = Gathers(f.node, d)

(* All that is to be said is what has been and what the frames have left,   *)
(* from the top down: left[k] is what the lowest k have.                    *)
SaidSoFar ==
  \E left \in [0 .. Len(stack) -> Seq(Diag)] :
    /\ left[0] = <<>>
    /\ \A k \in 1 .. Len(stack) : left[k] = LeftToSay(stack[k], k - 1) \o left[k - 1]
    /\ RecursionSays = diags \o left[Len(stack)]

GatheredSoFar ==
  Facts[0][RootBean] = built \cup UNION {LeftToGather(stack[k], k - 1) : k \in 1 .. Len(stack)}

Awaits(k) == k < Len(stack) \/ incoming # {}

(* The inductive invariant: every frame fits the element it is for, has     *)
(* gathered what the children before its cursor add, and was called for by  *)
(* the frame below; nothing of the recursion is lost or done twice.         *)
RInv ==
  /\ doc[RootBean].kind = "bean"
  /\ stack # <<>> => stack[1].node = RootBean
  /\ \A k \in 1 .. Len(stack) :
       FrameFits(stack[k], k - 1) /\ Gathering(stack[k], k - 1, Awaits(k))
  /\ \A k \in 2 .. Len(stack) : Descends(stack[k].node, k - 2)
  /\ \A v \in incoming : v = Val(Form(v.node), v.node) /\ Descends(v.node, Len(stack) - 1)
  /\ \A v \in result : v = Val("inner", RootBean)
  /\ SaidSoFar /\ GatheredSoFar
-----------------------------------------------------------------------------
(* Sequences one after the other.                                           *)

(* The recursive definition of Onward, as an equation.                      *)
OnwardIs(s, n, f) == f = [k \in 1 .. n + 1 |-> IF k > n THEN <<>> ELSE s[k] \o f[k + 1]]

(* There is one function it can be, whatever has defined the sequences.     *)
LEMMA OneOnward ==
  ASSUME NEW n \in Nat, NEW s, NEW t, \A k \in 1 .. n : s[k] = t[k],
         NEW f, NEW g, OnwardIs(s, n, f), OnwardIs(t, n, g)
  PROVE  f = g
  <1> DEFINE Off == {m \in 0 .. n : f[n + 1 - m] # g[n + 1 - m]}
  <1>1. \A k \in 1 .. n + 1 : /\ f[k] = IF k > n THEN <<>> ELSE s[k] \o f[k + 1]
                             /\ g[k] = IF k > n THEN <<>> ELSE t[k] \o g[k + 1]
    BY DEF OnwardIs
  <1>2. Off = {}
    <2>1. SUFFICES ASSUME Off # {} PROVE FALSE
      OBVIOUS
    <2>2. PICK m \in Off : \A l \in Off : m <= l
      <3>1. Off \subseteq Nat
        OBVIOUS
      <3> HIDE DEF Off
      <3> QED
        BY <2>1, <3>1, Least
    <2> DEFINE k == n + 1 - m
    <2>3. m \in 0 .. n /\ k \in 1 .. n + 1 /\ f[k] # g[k]
      BY <2>2
    <2>4. CASE k > n
      BY <1>1, <2>3, <2>4
    <2>5. CASE ~(k > n)
      <3>1. k \in 1 .. n /\ k + 1 \in 1 .. n + 1 /\ m - 1 \in 0 .. n /\ ~(m <= m - 1)
            /\ n + 1 - (m - 1) = k + 1
        BY <2>3, <2>5
      <3>2. m - 1 \notin Off
        BY <2>2, <3>1
      <3>3. f[k + 1] = g[k + 1]
        BY <3>1, <3>2
      <3> HIDE DEF k, Off
      <3>4. f[k] = s[k] \o f[k + 1] /\ g[k] = t[k] \o g[k + 1] /\ s[k] = t[k]
        BY <1>1, <2>3, <2>5, <3>1
      <3> QED
        BY <2>3, <3>3, <3>4
    <2> QED
      BY <2>4, <2>5
  <1>3. \A k \in 1 .. n + 1 : f[k] = g[k]
    <2>1. SUFFICES ASSUME NEW k \in 1 .. n + 1 PROVE f[k] = g[k]
      OBVIOUS
    <2>2. n + 1 - k \in 0 .. n /\ n + 1 - (n + 1 - k) = k
      OBVIOUS
    <2>3. ~(f[n + 1 - (n + 1 - k)] # g[n + 1 - (n + 1 - k)])
      BY <1>2, <2>2
    <2> QED
      BY <2>2, <2>3
  <1>4. f = [k \in 1 .. n + 1 |-> f[k]] /\ g = [k \in 1 .. n + 1 |-> g[k]]
    BY DEF OnwardIs
  <1> QED
    BY <1>3, <1>4

(* From each sequence on: that sequence, and on from the next.              *)
LEMMA OnwardReads ==
  ASSUME NEW S, NEW n \in Nat, NEW s, \A k \in 1 .. n : s[k] \in Seq(S)
  PROVE  /\ OnwardIs(s, n, Onward(s, n))
         /\ \A k \in 1 .. n + 1 : Onward(s, n)[k] \in Seq(S)
         /\ Onward(s, n)[n + 1] = <<>>
         /\ \A k \in 1 .. n : Onward(s, n)[k] = s[k] \o Onward(s, n)[k + 1]
  <1> DEFINE At(f, k) == IF k > n THEN <<>> ELSE s[k] \o f[k + 1]
             Fits(f, m) == f \in [1 .. n + 1 -> Seq(S)] /\ \A k \in n + 1 - m .. n + 1 : f[k] = At(f, k)
             Off == {m \in 0 .. n : ~\E f : Fits(f, m)}
  <1>1. Off = {}
    <2>1. SUFFICES ASSUME Off # {} PROVE FALSE
      OBVIOUS
    <2>2. PICK m \in Off : \A l \in Off : m <= l
      <3>1. Off \subseteq Nat
        OBVIOUS
      <3> HIDE DEF Off
      <3> QED
        BY <2>1, <3>1, Least
    <2>3. m \in 0 .. n /\ ~\E f : Fits(f, m)
      BY <2>2
    <2>4. CASE m = 0
      <3> DEFINE f == [k \in 1 .. n + 1 |-> <<>>]
      <3>1. f \in [1 .. n + 1 -> Seq(S)]
        OBVIOUS
      <3>2. \A k \in n + 1 - 0 .. n + 1 : k > n /\ k \in 1 .. n + 1
        OBVIOUS
      <3>3. Fits(f, 0)
        BY <3>1, <3>2
      <3> QED
        BY <2>3, <2>4, <3>3
    <2>5. CASE m # 0
      <3> DEFINE j == n + 1 - m
      <3>1. m - 1 \in 0 .. n /\ ~(m <= m - 1) /\ j \in 1 .. n /\ n + 1 - (m - 1) = j + 1
            /\ j + 1 \in 1 .. n + 1
        BY <2>3, <2>5
      <3>2. PICK g : Fits(g, m - 1)
        BY <2>2, <3>1
      <3>3. g \in [1 .. n + 1 -> Seq(S)] /\ \A k \in j + 1 .. n + 1 : g[k] = At(g, k)
        BY <3>1, <3>2
      <3> DEFINE f == [g EXCEPT ![j] = s[j] \o g[j + 1]]
      <3> HIDE DEF j
      <3>4. s[j] \o g[j + 1] \in Seq(S)
        BY <3>1, <3>3, ConcatProperties
      <3>5. f \in [1 .. n + 1 -> Seq(S)]
        BY <3>3, <3>4
      <3>6. f[j] = s[j] \o g[j + 1] /\ \A k \in 1 .. n + 1 : k # j => f[k] = g[k]
        <4>1. j \in 1 .. n + 1
          BY <3>1
        <4> HIDE DEF At, Fits, Off
        <4> QED
          BY <3>3, <4>1
      <3> HIDE DEF f
      <3>7. ASSUME NEW k \in j .. n + 1 PROVE f[k] = At(f, k)
        <4>1. CASE k = j
          <5>1. ~(j > n) /\ j + 1 # j
            BY <3>1
          <5>2. f[j + 1] = g[j + 1]
            BY <3>1, <3>6, <5>1
          <5> QED
            BY <3>6, <4>1, <5>1, <5>2
        <4>2. CASE k # j
          <5>1. k \in j + 1 .. n + 1 /\ k \in 1 .. n + 1 /\ k + 1 # j
            BY <3>1, <4>2
          <5>2. k > n \/ k + 1 \in 1 .. n + 1
            BY <5>1, <3>1
          <5> QED
            BY <3>3, <3>6, <5>1, <5>2
        <4> QED
          BY <4>1, <4>2
      <3>8. Fits(f, m)
        BY <3>5, <3>7 DEF j
      <3> QED
        BY <2>3, <3>8
    <2> QED
      BY <2>4, <2>5
  <1>2. n \in 0 .. n /\ n + 1 - n = 1
    OBVIOUS
  <1>3. PICK f : Fits(f, n)
    BY <1>1, <1>2
  <1>4. f \in [1 .. n + 1 -> Seq(S)] /\ \A k \in 1 .. n + 1 : f[k] = At(f, k)
    BY <1>2, <1>3
  <1>5. OnwardIs(s, n, f)
    BY <1>4 DEF OnwardIs
  <1>6. OnwardIs(s, n, Onward(s, n))
    BY <1>5 DEF Onward, OnwardIs
  <1>7. f = Onward(s, n)
    BY <1>5, <1>6, OneOnward
  <1>8. \A k \in 1 .. n : k \in 1 .. n + 1 /\ ~(k > n)
    OBVIOUS
  <1>9. n + 1 \in 1 .. n + 1 /\ n + 1 > n
    OBVIOUS
  <1> QED
    BY <1>4, <1>6, <1>7, <1>8, <1>9

(* All of them, when each is a sequence.                                    *)
LEMMA JoinedType ==
  ASSUME NEW S, NEW n \in Nat, NEW s, \A k \in 1 .. n : s[k] \in Seq(S)
  PROVE  Joined(s, n) \in Seq(S)
  <1>1. 1 \in 1 .. n + 1
    OBVIOUS
  <1> QED
    BY <1>1, OnwardReads DEF Joined
-----------------------------------------------------------------------------
(* The operators of the recursion.                                          *)

(* What is looked into is an element of the tree, and each time one.        *)
LEMMA LookedType ==
  ASSUME doc \in [Nodes -> Element], NEW n \in Nodes, NEW d
  PROVE  /\ AtMostOne(Candidate(n))
         /\ \A i \in Filled(n) : i \in 1 .. Len(Kids(n)) /\ InKey(n, i) \in Nodes
         /\ \A i \in ValueAt(n) : i \in 1 .. Len(Kids(n)) /\ Kids(n)[i] \in Nodes
         /\ \A i : Asked(n, d, i) \subseteq Nodes
         /\ \A c \in Nodes : Looked(n, d, c) \subseteq Nodes
         /\ Below(n, d) \subseteq Nodes
  <1>1. Kids(n) \in Seq(Nodes) /\ Len(Kids(n)) \in Nat
    BY ElementType, LenProperties
  <1>2. AtMostOne(Candidate(n))
    <2> DEFINE others == {i \in 1 .. Len(Kids(n)) : doc[Kids(n)[i]].kind # "meta"}
    <2>1. \A i, j \in {i \in others : \A j \in others : i <= j} : i = j
      BY <1>1
    <2> QED
      BY <2>1 DEF Candidate, AtMostOne
  <1>3. \A m \in Nodes : \A i \in Filled(m) : i \in 1 .. Len(Kids(m)) /\ InKey(m, i) \in Nodes
    <2>1. SUFFICES ASSUME NEW m \in Nodes, NEW i \in Filled(m)
                   PROVE  i \in 1 .. Len(Kids(m)) /\ InKey(m, i) \in Nodes
      OBVIOUS
    <2>2. i \in 1 .. Len(Kids(m)) /\ Kids(Kids(m)[i]) # <<>>
      BY DEF Filled, Keys
    <2>3. Kids(m)[i] \in Nodes
      BY <2>2, KidType
    <2>4. Kids(Kids(m)[i]) \in Seq(Nodes)
      BY <2>3, ElementType
    <2>5. 1 \in 1 .. Len(Kids(Kids(m)[i]))
      BY <2>2, <2>4, EmptySeq, LenProperties
    <2> QED
      BY <2>2, <2>3, <2>5, KidType DEF InKey
  <1>4. \A m \in Nodes : \A i \in ValueAt(m) : i \in 1 .. Len(Kids(m)) /\ Kids(m)[i] \in Nodes
    BY KidType DEF ValueAt, Earliest
  <1>5. \A m \in Nodes : \A i : Asked(m, d, i) \subseteq Nodes
    BY <1>3, <1>4 DEF Asked, Tried
  <1>6. \A m, c \in Nodes : Looked(m, d, c) \subseteq Nodes
    <2>1. SUFFICES ASSUME NEW m \in Nodes, NEW c \in Nodes PROVE Looked(m, d, c) \subseteq Nodes
      OBVIOUS
    <2>2. Candidate(c) \subseteq Nodes
      BY CandidateType
    <2>3. UNION {Asked(c, d, i) : i \in 1 .. Len(Kids(c))} \subseteq Nodes
      BY <1>5
    <2> QED
      BY <2>2, <2>3 DEF Looked
  <1>7. \A i \in 1 .. Len(Kids(n)) : Kids(n)[i] \in Nodes
    BY KidType
  <1>8. Below(n, d) \subseteq Nodes
    BY <1>6, <1>7 DEF Below
  <1> QED
    BY <1>2, <1>3, <1>4, <1>5, <1>6, <1>8

(* An element has one value, or none.                                       *)
LEMMA YieldsType ==
  ASSUME doc \in [Nodes -> Element], NEW c \in Nodes, NEW d
  PROVE  Yields(c, d) \subseteq Value /\ AtMostOne(Yields(c, d))
  <1>1. Val(Form(c), c) \in Value
    BY DEF Val, Value, Form
  <1> QED
    BY <1>1, ResolveType DEF Yields, AtMostOne

(* What is added are items.                                                 *)
LEMMA AddsType ==
  ASSUME doc \in [Nodes -> Element], NEW n \in Nodes, NEW d
  PROVE  /\ \A c \in Nodes : Adds(n, d, c) \in Seq(Item)
         /\ \A i \in 1 .. Len(Kids(n)) : AddsOf(n, d)[i] \in Seq(Item)
         /\ Gathers(n, d) \in Seq(Item)
  <1>1. ASSUME NEW c \in Nodes PROVE Adds(n, d, c) \in Seq(Item)
    <2>1. UNION {Yields(v, d) : v \in Candidate(c)} \in SUBSET Value
      BY CandidateType, YieldsType
    <2>2. Injected(c, UNION {Yields(v, d) : v \in Candidate(c)}) \in Item
      BY <2>1, InjectionType
    <2>3. Yields(c, d) # {} => (CHOOSE v \in Yields(c, d) : TRUE) \in Value
      BY YieldsType
    <2>4. Yields(c, d) # {} => Entering("item", c, CHOOSE v \in Yields(c, d) : TRUE) \in Item
      BY <2>3, EnteringType
    <2>5. EntryKey(c, d) \in SUBSET Value
      BY LookedType, YieldsType DEF EntryKey, Earliest, Found
    <2>6. EntryValue(c, d) \in SUBSET Value
      BY LookedType, YieldsType DEF EntryValue
    <2>7. MapEntry(c, EntryKey(c, d), EntryValue(c, d)) \in Seq(Item)
      BY <2>5, <2>6, MapEntryType
    <2>8. <<>> \in Seq(Item)
      OBVIOUS
    <2> QED
      BY <2>2, <2>4, <2>7, <2>8 DEF Adds
  <1>2. \A i \in 1 .. Len(Kids(n)) : AddsOf(n, d)[i] \in Seq(Item)
    BY <1>1, KidType DEF AddsOf
  <1>3. Len(Kids(n)) \in Nat
    BY ElementType, LenProperties
  <1>4. Gathers(n, d) \in Seq(Item)
    BY <1>2, <1>3, JoinedType DEF Gathers
  <1> QED
    BY <1>1, <1>2, <1>4

(* What the calls made at depth d say are diagnostics.                      *)
Typed(inside, d) == \A c \in Nodes : Descends(c, d) => inside[d + 1][c] \in Seq(Diag)

(* If the calls made at depth d + 1 say diagnostics, so does everything at  *)
(* depth d that is put together from them.                                  *)
LEMMA SaysType ==
  ASSUME doc \in [Nodes -> Element], NEW n \in Nodes, NEW d, NEW inside, Typed(inside, d)
  PROVE  /\ \A c \in Nodes : Saying(inside, c, d) \in Seq(Diag)
         /\ \A C \in SUBSET Nodes : SayingAny(inside, C, d) \in Seq(Diag)
         /\ \A i \in 1 .. Len(Kids(n)) : EntrySays(inside, n, d)[i] \in Seq(Diag)
         /\ \A c \in Nodes : ChildSays(inside, n, d, c) \in Seq(Diag)
         /\ \A i \in 1 .. Len(Kids(n)) : Says(inside, n, d)[i] \in Seq(Diag)
         /\ Joined(Says(inside, n, d), Len(Kids(n))) \in Seq(Diag)
  <1>1. \A c \in Nodes : Saying(inside, c, d) \in Seq(Diag)
    BY ResolveType, ConcatProperties DEF Saying, Typed
  <1>2. \A C \in SUBSET Nodes : SayingAny(inside, C, d) \in Seq(Diag)
    BY <1>1 DEF SayingAny
  <1>3. \A e \in Nodes : \A i \in 1 .. Len(Kids(e)) : EntrySays(inside, e, d)[i] \in Seq(Diag)
    <2>1. \A e \in Nodes : \A i : Asked(e, d, i) \in SUBSET Nodes
      BY LookedType
    <2> QED
      BY <1>2, <2>1 DEF EntrySays
  <1>4. \A e \in Nodes : Len(Kids(e)) \in Nat
    BY ElementType, LenProperties
  <1>5. ASSUME NEW c \in Nodes PROVE ChildSays(inside, n, d, c) \in Seq(Diag)
    <2>1. Candidate(c) \in SUBSET Nodes
      BY CandidateType
    <2>2. SayingAny(inside, Candidate(c), d) \in Seq(Diag)
      BY <1>2, <2>1
    <2>3. /\ InjectionConflict(c) \in Seq(Diag) /\ InjectionDiags(c) \in Seq(Diag)
          /\ MapEntryDiags(c) \in Seq(Diag) /\ SaysOfOther(c) \in Seq(Diag)
      BY InjectionType, MapEntryType, DiagnoseType DEF SaysOfOther, Code
    <2>4. EntryConflicts(c) \in Seq(Diag)
      <3>1. doc[c].value \in BOOLEAN /\ doc[c].valueRef \in RefAttr
            /\ doc[c].key \in BOOLEAN /\ doc[c].keyRef \in RefAttr
        BY ElementType
      <3>2. /\ ConflictDiags(doc[c].key, doc[c].keyRef, c) \in Seq(Diag)
            /\ ConflictDiags(doc[c].value, doc[c].valueRef, c) \in Seq(Diag)
        BY <3>1, ChosenType
      <3> QED
        BY <3>2, ConcatProperties DEF EntryConflicts
    <2>5. Joined(EntrySays(inside, c, d), Len(Kids(c))) \in Seq(Diag)
      BY <1>3, <1>4, JoinedType
    <2>6. /\ InjectionConflict(c) \o SayingAny(inside, Candidate(c), d) \o InjectionDiags(c) \in Seq(Diag)
          /\ EntryConflicts(c) \o Joined(EntrySays(inside, c, d), Len(Kids(c))) \o MapEntryDiags(c)
               \in Seq(Diag)
      BY <2>2, <2>3, <2>4, <2>5, ConcatProperties
    <2> QED
      BY <1>1, <2>3, <2>6 DEF ChildSays
  <1>6. \A i \in 1 .. Len(Kids(n)) : Says(inside, n, d)[i] \in Seq(Diag)
    BY <1>5, KidType DEF Says
  <1> QED
    BY <1>1, <1>2, <1>3, <1>4, <1>5, <1>6, JoinedType

(* What is said at depth d depends on the calls made at that depth only.    *)
Alike(f, g, d) == \A c \in Nodes : Descends(c, d) => f[d + 1][c] = g[d + 1][c]

(* What an element says at depth d is a function of what the calls inside   *)
(* it say.                                                                  *)
LEMMA SaysDepends ==
  ASSUME doc \in [Nodes -> Element], NEW n \in Nodes, NEW d, NEW f, NEW g, Alike(f, g, d)
  PROVE  Says(f, n, d) = Says(g, n, d)
  <1>1. \A c \in Nodes : Saying(f, c, d) = Saying(g, c, d)
    BY DEF Saying, Alike
  <1>2. \A C \in SUBSET Nodes : SayingAny(f, C, d) = SayingAny(g, C, d)
    BY <1>1 DEF SayingAny
  <1>3. \A e \in Nodes : EntrySays(f, e, d) = EntrySays(g, e, d)
    <2>1. \A e \in Nodes : \A i : Asked(e, d, i) \in SUBSET Nodes
      BY LookedType
    <2> QED
      BY <1>2, <2>1 DEF EntrySays
  <1>4. ASSUME NEW c \in Nodes PROVE ChildSays(f, n, d, c) = ChildSays(g, n, d, c)
    <2>1. SayingAny(f, Candidate(c), d) = SayingAny(g, Candidate(c), d)
      BY <1>2, CandidateType
    <2> QED
      BY <1>1, <1>3, <2>1 DEF ChildSays
  <1>5. \A i \in 1 .. Len(Kids(n)) : Kids(n)[i] \in Nodes
    BY KidType
  <1> QED
    BY <1>4, <1>5 DEF Says

(* The recursion, one depth at a time, from the limit up.                   *)
SaidLayer(f, d) == [n \in Nodes |-> Joined(Says(f, n, d), Len(Kids(n)))]
SaidIs(f)       == f = [d \in 0 .. DepthLimit |-> SaidLayer(f, d)]

FactsLayer(f, d) ==
  [n \in Nodes |->
     {[node |-> n, items |-> Gathers(n, d)]} \cup UNION {f[d + 1][c] : c \in Below(n, d)}]
FactsIs(f) == f = [d \in 0 .. DepthLimit |-> FactsLayer(f, d)]

(* The same of a whole level of the two recursions.                         *)
LEMMA LayersDepend ==
  ASSUME doc \in [Nodes -> Element], NEW d, NEW f, NEW g, Alike(f, g, d)
  PROVE  SaidLayer(f, d) = SaidLayer(g, d) /\ FactsLayer(f, d) = FactsLayer(g, d)
  <1>1. \A n \in Nodes : Says(f, n, d) = Says(g, n, d)
    BY SaysDepends
  <1>2. SaidLayer(f, d) = SaidLayer(g, d)
    BY <1>1 DEF SaidLayer
  <1>3. \A n \in Nodes : \A c \in Below(n, d) : c \in Nodes /\ Descends(c, d)
    BY LookedType DEF Below
  <1>4. \A n \in Nodes : \A c \in Below(n, d) : f[d + 1][c] = g[d + 1][c]
    BY <1>3 DEF Alike
  <1>5. \A n \in Nodes : {f[d + 1][c] : c \in Below(n, d)} = {g[d + 1][c] : c \in Below(n, d)}
    BY <1>4
  <1>6. FactsLayer(f, d) = FactsLayer(g, d)
    BY <1>5 DEF FactsLayer
  <1> QED
    BY <1>2, <1>6

(* A call is one level deeper, and there is none past the limit.            *)
LEMMA Deeper ==
  ASSUME ConstantsOK, NEW d \in 0 .. DepthLimit, NEW c, Descends(c, d)
  PROVE  d + 1 \in 0 .. DepthLimit /\ d + 1 # d
  BY DEF Descends, ConstantsOK

(* Both recursions have one solution.                                       *)
LEMMA OneRecursion ==
  ASSUME ConstantsOK, doc \in [Nodes -> Element], NEW f, NEW g
  PROVE  /\ SaidIs(f) /\ SaidIs(g) => f = g
         /\ FactsIs(f) /\ FactsIs(g) => f = g
  <1> DEFINE Off == {m \in 0 .. DepthLimit : f[DepthLimit - m] # g[DepthLimit - m]}
  <1>1. DepthLimit \in Nat
    BY DEF ConstantsOK
  <1>2. ASSUME \A d \in 0 .. DepthLimit : Alike(f, g, d) => f[d] = g[d]
        PROVE  \A d \in 0 .. DepthLimit : f[d] = g[d]
    <2>1. Off = {}
      <3>1. SUFFICES ASSUME Off # {} PROVE FALSE
        OBVIOUS
      <3>2. PICK m \in Off : \A l \in Off : m <= l
        <4>1. Off \subseteq Nat
          OBVIOUS
        <4> HIDE DEF Off
        <4> QED
          BY <3>1, <4>1, Least
      <3> DEFINE d == DepthLimit - m
      <3>3. m \in 0 .. DepthLimit /\ d \in 0 .. DepthLimit /\ f[d] # g[d]
        BY <1>1, <3>2
      <3>4. ASSUME NEW c \in Nodes, Descends(c, d) PROVE f[d + 1][c] = g[d + 1][c]
        <4>1. d + 1 \in 0 .. DepthLimit
          BY <3>3, <3>4, Deeper
        <4>2. m - 1 \in 0 .. DepthLimit /\ ~(m <= m - 1) /\ DepthLimit - (m - 1) = d + 1
          BY <1>1, <3>3, <4>1
        <4>3. m - 1 \notin Off
          BY <3>2, <4>2
        <4>4. f[d + 1] = g[d + 1]
          BY <4>2, <4>3
        <4> QED
          BY <4>4
      <3>5. Alike(f, g, d)
        BY <3>4 DEF Alike
      <3> QED
        BY <1>2, <3>3, <3>5
    <2>2. SUFFICES ASSUME NEW d \in 0 .. DepthLimit PROVE f[d] = g[d]
      OBVIOUS
    <2>3. DepthLimit - d \in 0 .. DepthLimit /\ DepthLimit - (DepthLimit - d) = d
      BY <1>1
    <2>4. ~(f[DepthLimit - (DepthLimit - d)] # g[DepthLimit - (DepthLimit - d)])
      BY <2>1, <2>3
    <2> QED
      BY <2>3, <2>4
  <1>3. ASSUME SaidIs(f), SaidIs(g) PROVE f = g
    <2>1. \A d \in 0 .. DepthLimit : f[d] = SaidLayer(f, d) /\ g[d] = SaidLayer(g, d)
      BY <1>3 DEF SaidIs
    <2>2. \A d \in 0 .. DepthLimit : Alike(f, g, d) => f[d] = g[d]
      BY <2>1, LayersDepend
    <2>3. f = [d \in 0 .. DepthLimit |-> f[d]] /\ g = [d \in 0 .. DepthLimit |-> g[d]]
      BY <1>3 DEF SaidIs
    <2> QED
      BY <1>2, <2>2, <2>3
  <1>4. ASSUME FactsIs(f), FactsIs(g) PROVE f = g
    <2>1. \A d \in 0 .. DepthLimit : f[d] = FactsLayer(f, d) /\ g[d] = FactsLayer(g, d)
      BY <1>4 DEF FactsIs
    <2>2. \A d \in 0 .. DepthLimit : Alike(f, g, d) => f[d] = g[d]
      BY <2>1, LayersDepend
    <2>3. f = [d \in 0 .. DepthLimit |-> f[d]] /\ g = [d \in 0 .. DepthLimit |-> g[d]]
      BY <1>4 DEF FactsIs
    <2> QED
      BY <1>2, <2>2, <2>3
  <1> QED
    BY <1>3, <1>4

(* A recursion from depth j on, and from the depth before it on.            *)
LEMMA OneDepthMore ==
  ASSUME ConstantsOK, doc \in [Nodes -> Element], NEW g, NEW j \in 0 .. DepthLimit, NEW layer,
         NEW f, f = [d \in 0 .. DepthLimit |-> IF d = j THEN layer ELSE g[d]]
  PROVE  /\ f[j] = layer /\ \A d \in 0 .. DepthLimit : d # j => f[d] = g[d]
         /\ \A d \in j .. DepthLimit : Alike(f, g, d)
  <1>1. f[j] = layer /\ \A d \in 0 .. DepthLimit : d # j => f[d] = g[d]
    OBVIOUS
  <1>2. ASSUME NEW d \in j .. DepthLimit, NEW c \in Nodes, Descends(c, d)
        PROVE  f[d + 1][c] = g[d + 1][c]
    <2>1. d \in 0 .. DepthLimit
      BY DEF ConstantsOK
    <2>2. d + 1 \in 0 .. DepthLimit
      BY <1>2, <2>1, Deeper
    <2>3. d + 1 # j
      BY DEF ConstantsOK
    <2> QED
      BY <1>1, <2>2, <2>3
  <1>3. \A d \in j .. DepthLimit : Alike(f, g, d)
    BY <1>2 DEF Alike
  <1> QED
    BY <1>1, <1>3

(* The recursion says diagnostics.                                          *)
LEMMA SaidReads ==
  ConstantsOK /\ doc \in [Nodes -> Element] =>
    SaidIs(Said) /\ Said \in [0 .. DepthLimit -> [Nodes -> Seq(Diag)]]
  <1> SUFFICES ASSUME ConstantsOK, doc \in [Nodes -> Element]
               PROVE  SaidIs(Said) /\ Said \in [0 .. DepthLimit -> [Nodes -> Seq(Diag)]]
    OBVIOUS
  <1> DEFINE Fits(f, m) ==
               /\ f \in [0 .. DepthLimit -> [Nodes -> Seq(Diag)]]
               /\ \A d \in DepthLimit + 1 - m .. DepthLimit : f[d] = SaidLayer(f, d)
             Off == {m \in 0 .. DepthLimit + 1 : ~\E f : Fits(f, m)}
  <1>1. DepthLimit \in Nat
    BY DEF ConstantsOK
  <1>2. Off = {}
    <2>1. SUFFICES ASSUME Off # {} PROVE FALSE
      OBVIOUS
    <2>2. PICK m \in Off : \A l \in Off : m <= l
      <3>1. Off \subseteq Nat
        OBVIOUS
      <3> HIDE DEF Off
      <3> QED
        BY <2>1, <3>1, Least
    <2>3. m \in 0 .. DepthLimit + 1 /\ ~\E f : Fits(f, m)
      BY <2>2
    <2>4. CASE m = 0
      <3> DEFINE f == [d \in 0 .. DepthLimit |-> [n \in Nodes |-> <<>>]]
      <3>1. f \in [0 .. DepthLimit -> [Nodes -> Seq(Diag)]]
        OBVIOUS
      <3>2. DepthLimit + 1 - 0 .. DepthLimit = {}
        BY <1>1
      <3>3. Fits(f, 0)
        BY <3>1, <3>2
      <3> QED
        BY <2>3, <2>4, <3>3
    <2>5. CASE m # 0
      <3> DEFINE j == DepthLimit + 1 - m
      <3>1. /\ m - 1 \in 0 .. DepthLimit + 1 /\ ~(m <= m - 1)
            /\ j \in 0 .. DepthLimit /\ DepthLimit + 1 - (m - 1) = j + 1
        BY <1>1, <2>3, <2>5
      <3>2. PICK g : Fits(g, m - 1)
        BY <2>2, <3>1
      <3>3. /\ g \in [0 .. DepthLimit -> [Nodes -> Seq(Diag)]]
            /\ \A d \in j + 1 .. DepthLimit : g[d] = SaidLayer(g, d)
        BY <3>1, <3>2
      <3> DEFINE f == [d \in 0 .. DepthLimit |-> IF d = j THEN SaidLayer(g, j) ELSE g[d]]
      <3>f. f = [d \in 0 .. DepthLimit |-> IF d = j THEN SaidLayer(g, j) ELSE g[d]]
        OBVIOUS
      <3> HIDE DEF j, Off, Fits, f
      <3>4. /\ f[j] = SaidLayer(g, j) /\ \A d \in 0 .. DepthLimit : d # j => f[d] = g[d]
            /\ \A d \in j .. DepthLimit : Alike(f, g, d)
        BY <3>1, <3>f, OneDepthMore
      <3>5. Typed(g, j)
        <4>1. SUFFICES ASSUME NEW c \in Nodes, Descends(c, j) PROVE g[j + 1][c] \in Seq(Diag)
          BY DEF Typed
        <4>2. j + 1 \in 0 .. DepthLimit
          BY <3>1, <4>1, Deeper
        <4> QED
          BY <3>3, <4>2
      <3>6. SaidLayer(g, j) \in [Nodes -> Seq(Diag)]
        BY <3>5, SaysType DEF SaidLayer
      <3>7. f \in [0 .. DepthLimit -> [Nodes -> Seq(Diag)]]
        BY <3>3, <3>6 DEF f
      <3>8. ASSUME NEW d \in j .. DepthLimit PROVE f[d] = SaidLayer(f, d)
        <4>1. SaidLayer(f, d) = SaidLayer(g, d)
          BY <3>4, LayersDepend
        <4>2. CASE d = j
          BY <3>4, <4>1, <4>2
        <4>3. CASE d # j
          <5>1. d \in j + 1 .. DepthLimit /\ d \in 0 .. DepthLimit
            BY <1>1, <3>1, <4>3
          <5> QED
            BY <3>3, <3>4, <4>1, <4>3, <5>1
        <4> QED
          BY <4>2, <4>3
      <3>9. Fits(f, m)
        BY <3>7, <3>8 DEF Fits, j
      <3> QED
        BY <2>3, <3>9
    <2> QED
      BY <2>4, <2>5
  <1>3. DepthLimit + 1 \in 0 .. DepthLimit + 1 /\ DepthLimit + 1 - (DepthLimit + 1) = 0
    BY <1>1
  <1>4. PICK f : Fits(f, DepthLimit + 1)
    BY <1>2, <1>3
  <1>5. f \in [0 .. DepthLimit -> [Nodes -> Seq(Diag)]] /\ \A d \in 0 .. DepthLimit : f[d] = SaidLayer(f, d)
    BY <1>3, <1>4
  <1>6. SaidIs(f)
    BY <1>5 DEF SaidIs
  <1>7. SaidIs(Said)
    BY <1>6 DEF Said, SaidIs, SaidLayer
  <1> QED
    BY <1>5, <1>6, <1>7, OneRecursion

(* The recursion over what is gathered has a solution.                      *)
LEMMA FactsRead ==
  ConstantsOK /\ doc \in [Nodes -> Element] => FactsIs(Facts)
  <1> SUFFICES ASSUME ConstantsOK, doc \in [Nodes -> Element] PROVE FactsIs(Facts)
    OBVIOUS
  <1> DEFINE Fits(f, m) ==
               /\ f = [d \in 0 .. DepthLimit |-> f[d]]
               /\ \A d \in DepthLimit + 1 - m .. DepthLimit : f[d] = FactsLayer(f, d)
             Off == {m \in 0 .. DepthLimit + 1 : ~\E f : Fits(f, m)}
  <1>1. DepthLimit \in Nat
    BY DEF ConstantsOK
  <1>2. Off = {}
    <2>1. SUFFICES ASSUME Off # {} PROVE FALSE
      OBVIOUS
    <2>2. PICK m \in Off : \A l \in Off : m <= l
      <3>1. Off \subseteq Nat
        OBVIOUS
      <3> HIDE DEF Off
      <3> QED
        BY <2>1, <3>1, Least
    <2>3. m \in 0 .. DepthLimit + 1 /\ ~\E f : Fits(f, m)
      BY <2>2
    <2>4. CASE m = 0
      <3> DEFINE f == [d \in 0 .. DepthLimit |-> 0]
      <3>1. f = [d \in 0 .. DepthLimit |-> f[d]]
        OBVIOUS
      <3>2. DepthLimit + 1 - 0 .. DepthLimit = {}
        BY <1>1
      <3>3. Fits(f, 0)
        BY <3>1, <3>2
      <3> QED
        BY <2>3, <2>4, <3>3
    <2>5. CASE m # 0
      <3> DEFINE j == DepthLimit + 1 - m
      <3>1. /\ m - 1 \in 0 .. DepthLimit + 1 /\ ~(m <= m - 1)
            /\ j \in 0 .. DepthLimit /\ DepthLimit + 1 - (m - 1) = j + 1
        BY <1>1, <2>3, <2>5
      <3>2. PICK g : Fits(g, m - 1)
        BY <2>2, <3>1
      <3>3. \A d \in j + 1 .. DepthLimit : g[d] = FactsLayer(g, d)
        BY <3>1, <3>2
      <3> DEFINE f == [d \in 0 .. DepthLimit |-> IF d = j THEN FactsLayer(g, j) ELSE g[d]]
      <3>f. f = [d \in 0 .. DepthLimit |-> IF d = j THEN FactsLayer(g, j) ELSE g[d]]
        OBVIOUS
      <3> HIDE DEF j, Off, Fits, f
      <3>4. /\ f[j] = FactsLayer(g, j) /\ \A d \in 0 .. DepthLimit : d # j => f[d] = g[d]
            /\ \A d \in j .. DepthLimit : Alike(f, g, d)
        BY <3>1, <3>f, OneDepthMore
      <3>5. f = [d \in 0 .. DepthLimit |-> f[d]]
        BY DEF f
      <3>6. ASSUME NEW d \in j .. DepthLimit PROVE f[d] = FactsLayer(f, d)
        <4>1. FactsLayer(f, d) = FactsLayer(g, d)
          BY <3>4, LayersDepend
        <4>2. CASE d = j
          BY <3>4, <4>1, <4>2
        <4>3. CASE d # j
          <5>1. d \in j + 1 .. DepthLimit /\ d \in 0 .. DepthLimit
            BY <1>1, <3>1, <4>3
          <5> QED
            BY <3>3, <3>4, <4>1, <4>3, <5>1
        <4> QED
          BY <4>2, <4>3
      <3>7. Fits(f, m)
        BY <3>5, <3>6 DEF Fits, j
      <3> QED
        BY <2>3, <3>7
    <2> QED
      BY <2>4, <2>5
  <1>3. DepthLimit + 1 \in 0 .. DepthLimit + 1 /\ DepthLimit + 1 - (DepthLimit + 1) = 0
    BY <1>1
  <1>4. PICK f : Fits(f, DepthLimit + 1)
    BY <1>2, <1>3
  <1>5. f = [d \in 0 .. DepthLimit |-> f[d]] /\ \A d \in 0 .. DepthLimit : f[d] = FactsLayer(f, d)
    BY <1>3, <1>4
  <1>6. FactsIs(f)
    BY <1>5 DEF FactsIs
  <1>7. \E g : FactsIs(g)
    BY <1>6
  <1>8. Facts = CHOOSE g : FactsIs(g)
    BY DEF Facts, FactsIs, FactsLayer
  <1> QED
    BY <1>7, <1>8
-----------------------------------------------------------------------------
(* The tree is an input: nothing that is said of it alone changes.          *)
LEMMA TreeStays ==
  ASSUME UNCHANGED doc
  PROVE  /\ \A n : Kids(n)' = Kids(n) /\ Form(n)' = Form(n) /\ Injects(n)' = Injects(n)
         /\ \A n : Candidate(n)' = Candidate(n)
         /\ \A c, d : (Descends(c, d)' <=> Descends(c, d)) /\ Yields(c, d)' = Yields(c, d)
         /\ \A e : Keys(e)' = Keys(e) /\ Filled(e)' = Filled(e) /\ ValueAt(e)' = ValueAt(e)
         /\ \A e, i : InKey(e, i)' = InKey(e, i)
         /\ \A e, d : Found(e, d)' = Found(e, d) /\ Tried(e, d)' = Tried(e, d)
         /\ \A e, d, i : Asked(e, d, i)' = Asked(e, d, i)
         /\ \A n, d, c : Looked(n, d, c)' = Looked(n, d, c)
         /\ \A n, d, c : Adds(n, d, c)' = Adds(n, d, c)
         /\ \A n, d : AddsOf(n, d)' = AddsOf(n, d) /\ Gathers(n, d)' = Gathers(n, d)
         /\ \A n, d : Below(n, d)' = Below(n, d)
         /\ \A f, e, d : EntrySays(f, e, d)' = EntrySays(f, e, d)
         /\ \A f, n, d : Says(f, n, d)' = Says(f, n, d)
         /\ \A n : InjectionDiags(n)' = InjectionDiags(n) /\ MapEntryDiags(n)' = MapEntryDiags(n)
  <1>1. \A n : Kids(n)' = Kids(n) /\ Form(n)' = Form(n) /\ Injects(n)' = Injects(n)
    BY DEF Kids, Form, Injects
  <1>2. \A n : Candidate(n)' = Candidate(n)
    BY <1>1 DEF Candidate
  <1>3. \A c, d : (Descends(c, d)' <=> Descends(c, d)) /\ Resolved(c, d)' = Resolved(c, d)
    BY DEF Descends, Resolved, CutOff
  <1>4. \A c, d : Yields(c, d)' = Yields(c, d)
    BY <1>1, <1>3 DEF Yields
  <1>5. \A e : Keys(e)' = Keys(e)
    BY <1>1 DEF Keys, IsKey
  <1>6. \A e : Filled(e)' = Filled(e) /\ ValueAt(e)' = ValueAt(e)
    BY <1>1, <1>5 DEF Filled, ValueAt, Earliest
  <1>7. \A e, i : InKey(e, i)' = InKey(e, i)
    BY <1>1 DEF InKey
  <1>8. \A e, d : Found(e, d)' = Found(e, d)
    BY <1>4, <1>6, <1>7 DEF Found
  <1>9. \A e, d : Tried(e, d)' = Tried(e, d)
    BY <1>6, <1>8 DEF Tried
  <1>10. \A e, d, i : Asked(e, d, i)' = Asked(e, d, i)
    BY <1>1, <1>6, <1>7, <1>9 DEF Asked
  <1>11. \A n, d, c : Looked(n, d, c)' = Looked(n, d, c)
    BY <1>1, <1>2, <1>10 DEF Looked
  <1>12. \A e, d : EntryKey(e, d)' = EntryKey(e, d) /\ EntryValue(e, d)' = EntryValue(e, d)
    BY <1>1, <1>4, <1>6, <1>7, <1>8 DEF EntryKey, EntryValue, Earliest
  <1>13. \A p, child : Injected(p, child)' = Injected(p, child)
    BY DEF Injected
  <1>14. \A e, key, value : MapEntry(e, key, value)' = MapEntry(e, key, value)
    BY DEF MapEntry
  <1>15. \A n, d, c : Adds(n, d, c)' = Adds(n, d, c)
    <2> SUFFICES ASSUME NEW n, NEW d, NEW c PROVE Adds(n, d, c)' = Adds(n, d, c)
      OBVIOUS
    <2>1. UNION {Yields(v, d) : v \in Candidate(c)}' = UNION {Yields(v, d) : v \in Candidate(c)}
      BY <1>2, <1>4
    <2>2. (CHOOSE v \in Yields(c, d) : TRUE)' = CHOOSE v \in Yields(c, d) : TRUE
      BY <1>4
    <2>3. (Yields(c, d) # {})' <=> Yields(c, d) # {}
      BY <1>4
    <2> QED
      BY <1>1, <1>2, <1>12, <1>13, <1>14, <2>1, <2>2, <2>3 DEF Adds
  <1>16. \A n, d : AddsOf(n, d)' = AddsOf(n, d)
    BY <1>1, <1>15 DEF AddsOf
  <1>17. \A n, d : Gathers(n, d)' = Gathers(n, d)
    BY <1>1, <1>16 DEF Gathers
  <1>18. \A n, d : Below(n, d)' = Below(n, d)
    BY <1>1, <1>3, <1>11 DEF Below
  <1>19. \A c, d : ResolveDiags(c, d)' = ResolveDiags(c, d)
    BY DEF ResolveDiags, CutOff
  <1>20. \A f, c, d : Saying(f, c, d)' = Saying(f, c, d)
    BY <1>3, <1>19 DEF Saying
  <1>21. \A f, C, d : SayingAny(f, C, d)' = SayingAny(f, C, d)
    BY <1>20 DEF SayingAny
  <1>22. \A f, e, d : EntrySays(f, e, d)' = EntrySays(f, e, d)
    BY <1>1, <1>10, <1>21 DEF EntrySays
  <1>23. \A n : /\ InjectionDiags(n)' = InjectionDiags(n) /\ MapEntryDiags(n)' = MapEntryDiags(n)
                /\ InjectionConflict(n)' = InjectionConflict(n)
                /\ EntryConflicts(n)' = EntryConflicts(n) /\ SaysOfOther(n)' = SaysOfOther(n)
    BY DEF InjectionDiags, MapEntryDiags, InjectionConflict, EntryConflicts, SaysOfOther
  <1>24. \A f, n, d, c : ChildSays(f, n, d, c)' = ChildSays(f, n, d, c)
    BY <1>1, <1>2, <1>20, <1>21, <1>22, <1>23 DEF ChildSays
  <1>25. \A f, n, d : Says(f, n, d)' = Says(f, n, d)
    BY <1>1, <1>24 DEF Says
  <1> QED
    BY <1>1, <1>2, <1>3, <1>4, <1>5, <1>6, <1>7, <1>8, <1>9, <1>10, <1>11, <1>15, <1>16, <1>17,
       <1>18, <1>22, <1>23, <1>25

(* No step of the engine changes the document, hence none changes what the  *)
(* recursion says and builds.                                               *)
LEMMA RecursionStays ==
  ASSUME ConstantsOK, doc \in [Nodes -> Element], UNCHANGED doc
  PROVE  Said' = Said /\ Facts' = Facts /\ RecursionSays' = RecursionSays
  <1>1. (ConstantsOK /\ doc \in [Nodes -> Element] =>
           SaidIs(Said) /\ Said \in [0 .. DepthLimit -> [Nodes -> Seq(Diag)]])'
    BY SaidReads, PTL
  <1>2. (ConstantsOK /\ doc \in [Nodes -> Element] => FactsIs(Facts))'
    BY FactsRead, PTL
  <1>3. SaidIs(Said)' /\ FactsIs(Facts)'
    BY <1>1, <1>2
  <1>4. PICK f : f = Said'
    OBVIOUS
  <1>5. PICK g : g = Facts'
    OBVIOUS
  <1>6. \A d : SaidLayer(Said, d)' = SaidLayer(f, d)
    BY <1>4, TreeStays DEF SaidLayer
  <1>7. \A d : FactsLayer(Facts, d)' = FactsLayer(g, d)
    BY <1>5, TreeStays DEF FactsLayer
  <1>8. SaidIs(f)
    BY <1>3, <1>4, <1>6 DEF SaidIs
  <1>9. FactsIs(g)
    BY <1>3, <1>5, <1>7 DEF FactsIs
  <1>10. f = Said /\ g = Facts
    BY <1>8, <1>9, SaidReads, FactsRead, OneRecursion
  <1> QED
    BY <1>4, <1>5, <1>10 DEF RecursionSays

(* So what a frame has left to do depends on the frame alone.               *)
LEMMA LeftStays ==
  ASSUME ConstantsOK, doc \in [Nodes -> Element], UNCHANGED doc
  PROVE  /\ \A f, d : LeftToSay(f, d)' = LeftToSay(f, d)
         /\ \A f, d : LeftToGather(f, d)' = LeftToGather(f, d)
         /\ \A f, d : FrameFits(f, d)' <=> FrameFits(f, d)
         /\ \A f, d, awaits : Gathering(f, d, awaits)' <=> Gathering(f, d, awaits)
  <1>1. Said' = Said /\ Facts' = Facts
    BY RecursionStays
  <1>2. \A x, d : RestOfEntry(x, d)' = RestOfEntry(x, d)
    BY <1>1, TreeStays DEF RestOfEntry
  <1>3. \A f, d : RestOfSlot(f, d)' = RestOfSlot(f, d)
    BY <1>2, TreeStays DEF RestOfSlot
  <1>4. \A f, d : LeftToSay(f, d)' = LeftToSay(f, d)
    BY <1>1, <1>3, TreeStays DEF LeftToSay
  <1>5. \A f, d : LeftToLook(f, d)' = LeftToLook(f, d)
    <2>1. \A n, d, i : LookFrom(n, d, i)' = LookFrom(n, d, i)
      BY TreeStays DEF LookFrom
    <2>2. \A n, d, i : AskFrom(n, d, i)' = AskFrom(n, d, i)
      BY TreeStays DEF AskFrom
    <2> QED
      BY <2>1, <2>2 DEF LeftToLook
  <1>6. \A f, d : LeftToGather(f, d)' = LeftToGather(f, d)
    BY <1>1, <1>5, TreeStays DEF LeftToGather
  <1>7. \A x, d : ScanFits(x, d)' <=> ScanFits(x, d)
    BY TreeStays DEF ScanFits, KeySoFar, ValueSoFar, Earliest
  <1>8. \A f, d : FrameFits(f, d)' <=> FrameFits(f, d)
    BY <1>7, TreeStays DEF FrameFits
  <1>9. \A f, d, awaits : Gathering(f, d, awaits)' <=> Gathering(f, d, awaits)
    BY TreeStays DEF Gathering
  <1> QED
    BY <1>4, <1>6, <1>8, <1>9

(* What a frame has left to say are diagnostics.                            *)
LEMMA LeftType ==
  ASSUME ConstantsOK, doc \in [Nodes -> Element], NEW d \in 0 .. DepthLimit,
         NEW f \in Frame, FrameFits(f, d)
  PROVE  /\ LeftToSay(f, d) \in Seq(Diag)
         /\ Typed(Said, d)
         /\ f.idx + 1 \in 1 .. Len(Kids(f.node)) + 1
         /\ Onward(Says(Said, f.node, d), Len(Kids(f.node)))[f.idx + 1] \in Seq(Diag)
         /\ RestOfSlot(f, d) \in Seq(Diag)
  <1>1. /\ f.node \in Nodes /\ f.idx \in Nat /\ f.waiting \subseteq Nodes
        /\ f.entry \subseteq EntryScan /\ f.idx <= Len(Kids(f.node))
    BY DEF Frame, FrameFits
  <1>2. \A n \in Nodes : Len(Kids(n)) \in Nat
    BY ElementType, LenProperties
  <1>3. Typed(Said, d)
    <2>1. SUFFICES ASSUME NEW c \in Nodes, Descends(c, d) PROVE Said[d + 1][c] \in Seq(Diag)
      BY DEF Typed
    <2>2. d + 1 \in 0 .. DepthLimit
      BY <2>1, Deeper
    <2> QED
      BY <2>2, SaidReads
  <1>4. f.idx + 1 \in 1 .. Len(Kids(f.node)) + 1
    BY <1>1, <1>2
  <1>5. Onward(Says(Said, f.node, d), Len(Kids(f.node)))[f.idx + 1] \in Seq(Diag)
    <2>1. \A i \in 1 .. Len(Kids(f.node)) : Says(Said, f.node, d)[i] \in Seq(Diag)
      BY <1>1, <1>3, SaysType
    <2> QED
      BY <1>1, <1>2, <1>4, <2>1, OnwardReads
  <1>6. ASSUME NEW x \in f.entry PROVE RestOfEntry(x, d) \in Seq(Diag)
    <2>1. x.node \in Nodes /\ x.idx \in Nat /\ x.idx <= Len(Kids(x.node))
      BY <1>1 DEF EntryScan, FrameFits, ScanFits
    <2>2. x.idx + 1 \in 1 .. Len(Kids(x.node)) + 1
      BY <1>2, <2>1
    <2>3. \A i \in 1 .. Len(Kids(x.node)) : EntrySays(Said, x.node, d)[i] \in Seq(Diag)
      BY <1>3, <2>1, SaysType
    <2>4. Onward(EntrySays(Said, x.node, d), Len(Kids(x.node)))[x.idx + 1] \in Seq(Diag)
      BY <1>2, <2>1, <2>2, <2>3, OnwardReads
    <2>5. MapEntryDiags(x.node) \in Seq(Diag)
      BY <2>1, MapEntryType
    <2> QED
      BY <2>4, <2>5, ConcatProperties DEF RestOfEntry
  <1>7. RestOfSlot(f, d) \in Seq(Diag)
    <2>1. f.waiting # {} => InjectionDiags(The(f.waiting)) \in Seq(Diag)
      <3>1. f.waiting # {} => The(f.waiting) \in f.waiting
        BY DEF The
      <3> QED
        BY <1>1, <3>1, InjectionType
    <2>2. f.entry # {} => RestOfEntry(The(f.entry), d) \in Seq(Diag)
      <3>1. f.entry # {} => The(f.entry) \in f.entry
        BY DEF The
      <3> QED
        BY <1>6, <3>1
    <2> QED
      BY <2>1, <2>2 DEF RestOfSlot
  <1> QED
    BY <1>3, <1>4, <1>5, <1>7, ConcatProperties DEF LeftToSay

(* The depth of the frames on the stack.                                    *)
LEMMA DepthOfTop ==
  ASSUME ConstantsOK, IInv, stack # <<>>
  PROVE  /\ Len(stack) \in Nat /\ Len(stack) >= 1
         /\ Level(Top) = Len(stack) - 1
         /\ \A k \in 1 .. Len(stack) : k - 1 \in 0 .. DepthLimit
         /\ Len(stack) - 1 \in 0 .. DepthLimit
  <1>1. Len(stack) \in Nat /\ Len(stack) >= 1 /\ Top = stack[Len(stack)]
    BY TopType DEF IInv
  <1> QED
    BY <1>1 DEF IInv, OneFramePerLevel, ConstantsOK

(* A frame that has just been pushed has all of its call left.              *)
FreshAt(f, c) ==
  /\ f.kind = doc[c].kind /\ f.node = c /\ f.idx = 0
  /\ f.items = <<>> /\ f.waiting = {} /\ f.entry = {}

(* A frame that was just pushed for c has everything to say that the call   *)
(* for c says, and everything to gather.                                    *)
LEMMA Fresh ==
  ASSUME ConstantsOK, doc \in [Nodes -> Element], NEW d \in 0 .. DepthLimit,
         NEW c \in Nodes, NEW f, FreshAt(f, c)
  PROVE  /\ FrameFits(f, d) /\ Gathering(f, d, FALSE)
         /\ LeftToSay(f, d) = Said[d][c]
         /\ LeftToGather(f, d) = Facts[d][c]
  <1>1. Len(Kids(c)) \in Nat
    BY ElementType, LenProperties
  <1>2. /\ f.kind = doc[c].kind /\ f.node = c /\ f.idx = 0
        /\ f.items = <<>> /\ f.waiting = {} /\ f.entry = {}
    BY DEF FreshAt
  <1>3. FrameFits(f, d)
    BY <1>1, <1>2 DEF FrameFits
  <1>4. Gathering(f, d, FALSE)
    <2>1. Gathers(c, d) \in Seq(Item)
      BY AddsType
    <2>2. <<>> \o Gathers(c, d) = Gathers(c, d)
      BY <2>1, ConcatEmptySeq
    <2> QED
      BY <1>2, <2>2 DEF Gathering, Gathers, Joined
  <1>5. LeftToSay(f, d) = Said[d][c]
    <2>1. Said[d] = SaidLayer(Said, d) /\ Said[d][c] \in Seq(Diag)
      BY SaidReads DEF SaidIs
    <2>2. Said[d][c] = Joined(Says(Said, c, d), Len(Kids(c)))
      BY <2>1 DEF SaidLayer
    <2>3. <<>> \o Said[d][c] = Said[d][c]
      BY <2>1, ConcatEmptySeq
    <2> QED
      BY <1>2, <2>2, <2>3 DEF LeftToSay, RestOfSlot, Joined
  <1>6. LeftToGather(f, d) = Facts[d][c]
    <2>1. Facts[d] = FactsLayer(Facts, d)
      BY FactsRead DEF FactsIs
    <2>2. Facts[d][c] = {[node |-> c, items |-> Gathers(c, d)]} \cup UNION {Facts[d + 1][v] : v \in Below(c, d)}
      BY <2>1 DEF FactsLayer
    <2>3. {v \in LeftToLook(f, d) : Descends(v, d)} = Below(c, d)
      <3>1. LeftToLook(f, d) = UNION {Looked(c, d, Kids(c)[i]) : i \in 1 .. Len(Kids(c))}
        BY <1>2 DEF LeftToLook, LookFrom
      <3> QED
        BY <3>1 DEF Below
    <2> QED
      BY <1>2, <2>2, <2>3 DEF LeftToGather
  <1> QED
    BY <1>3, <1>4, <1>5, <1>6
-----------------------------------------------------------------------------
(* What a step keeps of the invariant below its top frame.                  *)

(* One sequence after the other.                                            *)
Cat(s, t) == s \o t

(* Sequences of one kind, one after the other, are a sequence of that kind. *)
LEMMA CatType == \A S : \A a, b \in Seq(S) : Cat(a, b) \in Seq(S)
  BY ConcatProperties DEF Cat

(* How they are put together does not matter.                               *)
LEMMA CatAssociative == \A S : \A a, b, c \in Seq(S) : Cat(Cat(a, b), c) = Cat(a, Cat(b, c))
  BY ConcatAssociative DEF Cat

(* What is said in a step, moved from what is left to what has been said.   *)
LEMMA Moved ==
  ASSUME NEW S, NEW a \in Seq(S), NEW b \in Seq(S), NEW c \in Seq(S), NEW e \in Seq(S),
         NEW top, top = Cat(b, c), NEW all, all = Cat(a, Cat(top, e))
  PROVE  all = Cat(Cat(a, b), Cat(c, e))
  BY CatType, CatAssociative

(* What the top frame had left is said up to b, and in and c are left: of   *)
(* the whole, nothing has changed.                                          *)
LEMMA MovedIn ==
  ASSUME NEW S, NEW a \in Seq(S), NEW b \in Seq(S), NEW c \in Seq(S), NEW e \in Seq(S),
         NEW in \in Seq(S), NEW top, top = Cat(b, Cat(in, c)), NEW all, all = Cat(a, Cat(top, e))
  PROVE  all = Cat(Cat(a, b), Cat(in, Cat(c, e)))
  <1>1. Cat(in, c) \in Seq(S)
    BY CatType
  <1>2. all = Cat(Cat(a, b), Cat(Cat(in, c), e))
    BY <1>1, Moved
  <1> QED
    BY <1>2, CatAssociative

(* What is gathered in the frames, with one more on top.                    *)
AllOf(A, n) == UNION {A[k] : k \in 1 .. n}

(* When the top set is split between two frames, all of them hold the same  *)
(* as before.                                                               *)
LEMMA OneMore ==
  ASSUME NEW n \in Nat, n >= 1, NEW A, NEW B,
         A[n] = B[n] \cup B[n + 1], \A k \in 1 .. n : k # n => B[k] = A[k]
  PROVE  AllOf(B, n + 1) = AllOf(A, n)
  <1>1. n \in 1 .. n /\ n + 1 \in 1 .. n + 1 /\ \A k \in 1 .. n : k \in 1 .. n + 1
    OBVIOUS
  <1>2. ASSUME NEW k \in 1 .. n + 1, NEW b \in B[k] PROVE \E l \in 1 .. n : b \in A[l]
    <2>1. k = n + 1 \/ k = n \/ (k \in 1 .. n /\ k # n)
      OBVIOUS
    <2> QED
      BY <1>1, <1>2, <2>1
  <1>3. ASSUME NEW k \in 1 .. n, NEW b \in A[k] PROVE \E l \in 1 .. n + 1 : b \in B[l]
    <2>1. CASE k = n
      BY <1>1, <1>3, <2>1
    <2>2. CASE k # n
      BY <1>1, <1>3, <2>2
    <2> QED
      BY <2>1, <2>2
  <1> QED
    BY <1>2, <1>3 DEF AllOf

(* The top frame goes on, and waits for nothing.                            *)
LEMMA Walked ==
  ASSUME ConstantsOK, IInv, RInv, stack # <<>>, UNCHANGED <<doc, built, result>>, incoming' = {},
         NEW f \in Frame, f.node = Top.node, stack' = WithTop(f),
         NEW said \in Seq(Diag), diags' = Cat(diags, said),
         NEW d, d = Len(stack) - 1,
         FrameFits(f, d), Gathering(f, d, FALSE),
         LeftToSay(Top, d) = Cat(said, LeftToSay(f, d)),
         LeftToGather(f, d) = LeftToGather(Top, d)
  PROVE  RInv'
  <1> DEFINE n == Len(stack)
  <1>1. /\ doc \in [Nodes -> Element] /\ diags \in Seq(Diag) /\ stack \in Seq(Frame)
        /\ Top = stack[n] /\ n \in Nat /\ n >= 1 /\ d \in 0 .. DepthLimit
    BY TopType, DepthOfTop DEF IInv, TypeOK
  <1>2. /\ Len(stack') = n /\ stack' # <<>> /\ stack'[n] = f
        /\ \A k \in 1 .. n : k # n => stack'[k] = stack[k]
    <2>1. /\ stack' \in Seq(Frame) /\ Len(stack') = n
          /\ \A k \in 1 .. n : stack'[k] = IF k = n THEN f ELSE stack[k]
      BY <1>1, ReplaceLast DEF WithTop
    <2> QED
      BY <1>1, <2>1, EmptySeq
  <1> HIDE DEF n
  <1>3. stack'[1].node = RootBean
    <2>1. stack[1].node = RootBean /\ 1 \in 1 .. n
      BY <1>1 DEF RInv
    <2> QED
      BY <1>1, <1>2, <2>1
  <1>4. ASSUME NEW k \in 1 .. n
        PROVE  FrameFits(stack[k], k - 1)' /\ Gathering(stack[k], k - 1, Awaits(k))'
    <2>1. CASE k = n
      <3>1. stack'[k] = f /\ k - 1 = d /\ ~(k < n)
        BY <1>1, <1>2, <2>1 DEF n
      <3>2. Awaits(k)' = FALSE
        BY <1>2, <3>1 DEF Awaits
      <3>3. FrameFits(f, d)' /\ Gathering(f, d, FALSE)'
        BY <1>1, LeftStays
      <3> QED
        BY <3>1, <3>2, <3>3
    <2>2. CASE k # n
      <3>1. stack'[k] = stack[k] /\ k < n
        BY <1>1, <1>2, <2>2
      <3>2. Awaits(k)' = TRUE /\ Awaits(k) = TRUE
        BY <1>2, <3>1 DEF Awaits, n
      <3>3. PICK h : h = stack[k]
        OBVIOUS
      <3>4. FrameFits(h, k - 1) /\ Gathering(h, k - 1, TRUE)
        BY <3>2, <3>3 DEF RInv, n
      <3>5. stack'[k] = h
        BY <3>1, <3>3
      <3> QED
        BY <1>1, <3>2, <3>4, <3>5, LeftStays
    <2> QED
      BY <2>1, <2>2
  <1>5. \A k \in 2 .. n : Descends(stack[k].node, k - 2)'
    <2>1. \A k \in 2 .. n : stack'[k].node = stack[k].node
      BY <1>1, <1>2
    <2>2. \A k \in 2 .. n : Descends(stack[k].node, k - 2)
      BY DEF RInv, n
    <2> QED
      BY <2>1, <2>2, TreeStays
  <1>6. SaidSoFar'
    <2>1. PICK left \in [0 .. n -> Seq(Diag)] :
            /\ left[0] = <<>>
            /\ \A k \in 1 .. n : left[k] = LeftToSay(stack[k], k - 1) \o left[k - 1]
            /\ RecursionSays = diags \o left[n]
      BY DEF RInv, SaidSoFar, n
    <2>2. left[n - 1] \in Seq(Diag) /\ n - 1 \in 0 .. n /\ n \in 1 .. n /\ n - 1 = d
      <3>1. n - 1 \in 0 .. n /\ n \in 1 .. n
        BY <1>1
      <3>2. n - 1 = d
        BY DEF n
      <3> QED
        BY <2>1, <3>1, <3>2
    <2>3. LeftToSay(f, d) \in Seq(Diag)
      BY <1>1, LeftType
    <2> DEFINE next == [left EXCEPT ![n] = LeftToSay(f, d) \o left[n - 1]]
    <2>4. LeftToSay(f, d) \o left[n - 1] \in Seq(Diag)
      BY <2>2, <2>3, ConcatProperties
    <2>5. next \in [0 .. n -> Seq(Diag)]
      BY <2>1, <2>4
    <2>6. next[n] = LeftToSay(f, d) \o left[n - 1] /\ \A k \in 0 .. n : k # n => next[k] = left[k]
      BY <1>1, <2>2
    <2> HIDE DEF next
    <2>7. next[0] = <<>>
      BY <1>1, <2>1, <2>6
    <2>8. ASSUME NEW k \in 1 .. n PROVE next[k] = LeftToSay(stack[k], k - 1)' \o next[k - 1]
      <3>1. k - 1 \in 0 .. n /\ k - 1 # n /\ k \in 0 .. n
        BY <1>1
      <3>2. next[k - 1] = left[k - 1]
        BY <2>6, <3>1
      <3>3. CASE k = n
        <4>1. stack'[k] = f /\ k - 1 = d
          BY <1>2, <2>2, <3>3
        <4>2. LeftToSay(stack[k], k - 1)' = LeftToSay(f, d)
          BY <1>1, <4>1, LeftStays
        <4> QED
          BY <2>6, <3>2, <3>3, <4>2
      <3>4. CASE k # n
        <4>1. PICK h : h = stack[k]
          OBVIOUS
        <4>2. stack'[k] = h
          BY <1>2, <3>4, <4>1
        <4>3. LeftToSay(stack[k], k - 1)' = LeftToSay(h, k - 1)
          BY <1>1, <4>2, LeftStays
        <4>4. left[k] = LeftToSay(h, k - 1) \o left[k - 1]
          BY <2>1, <4>1
        <4> QED
          BY <2>6, <3>1, <3>2, <3>4, <4>3, <4>4
      <3> QED
        BY <3>3, <3>4
    <2>9. RecursionSays' = diags' \o next[n]
      <3>1. RecursionSays' = diags \o (LeftToSay(Top, d) \o left[n - 1])
        BY <1>1, <2>1, <2>2, RecursionStays
      <3>2. diags \in Seq(Diag) /\ said \in Seq(Diag)
        BY <1>1
      <3>3. /\ LeftToSay(Top, d) = Cat(said, LeftToSay(f, d))
            /\ RecursionSays' = Cat(diags, Cat(LeftToSay(Top, d), left[n - 1]))
        BY <3>1 DEF Cat
      <3>4. RecursionSays' = Cat(Cat(diags, said), Cat(LeftToSay(f, d), left[n - 1]))
        BY <2>2, <2>3, <3>2, <3>3, Moved
      <3> QED
        BY <2>6, <3>4 DEF Cat
    <2>10. \E r \in [0 .. n -> Seq(Diag)] :
             /\ r[0] = <<>>
             /\ \A k \in 1 .. n : r[k] = LeftToSay(stack[k], k - 1)' \o r[k - 1]
             /\ RecursionSays' = diags' \o r[n]
      BY <2>5, <2>7, <2>8, <2>9
    <2> QED
      BY <1>2, <2>10 DEF SaidSoFar
  <1>7. GatheredSoFar'
    <2>1. Facts' = Facts
      BY <1>1, RecursionStays
    <2>2. ASSUME NEW k \in 1 .. n
          PROVE  LeftToGather(stack[k], k - 1)' = LeftToGather(stack[k], k - 1)
      <3>1. CASE k = n
        <4>1. stack'[k] = f /\ k - 1 = d /\ stack[k] = Top
          BY <1>1, <1>2, <3>1 DEF n
        <4>2. LeftToGather(stack[k], k - 1)' = LeftToGather(f, d)
          BY <1>1, <4>1, LeftStays
        <4> QED
          BY <4>1, <4>2
      <3>2. CASE k # n
        <4>1. PICK h : h = stack[k]
          OBVIOUS
        <4>2. stack'[k] = h
          BY <1>2, <3>2, <4>1
        <4>3. LeftToGather(stack[k], k - 1)' = LeftToGather(h, k - 1)
          BY <1>1, <4>2, LeftStays
        <4> QED
          BY <4>1, <4>3
      <3> QED
        BY <3>1, <3>2
    <2>3. (UNION {LeftToGather(stack[k], k - 1) : k \in 1 .. Len(stack)})'
            = UNION {LeftToGather(stack[k], k - 1) : k \in 1 .. n}
      BY <1>2, <2>2
    <2> QED
      BY <2>1, <2>3 DEF RInv, GatheredSoFar, n
  <1> QED
    BY <1>2, <1>3, <1>4, <1>5, <1>6, <1>7 DEF RInv

(* The top frame waits for the frame of c, which is pushed.                 *)
LEMMA Entered ==
  ASSUME ConstantsOK, IInv, RInv, stack # <<>>, UNCHANGED <<doc, built, result>>, incoming' = {},
         NEW f \in Frame, f.node = Top.node,
         NEW c \in Nodes, NEW depth \in Nat, Push(f, c, depth),
         NEW said \in Seq(Diag), diags' = Cat(diags, said),
         NEW d, d = Len(stack) - 1, Descends(c, d),
         FrameFits(f, d), Gathering(f, d, TRUE),
         LeftToSay(Top, d) = Cat(said, Cat(Said[d + 1][c], LeftToSay(f, d))),
         LeftToGather(Top, d) = LeftToGather(f, d) \cup Facts[d + 1][c]
  PROVE  RInv'
  <1>1. PICK n : n = Len(stack)
    OBVIOUS
  <1>2. PICK g : g = FrameFor(c, depth)
    OBVIOUS
  <1>3. /\ doc \in [Nodes -> Element] /\ diags \in Seq(Diag) /\ stack \in Seq(Frame)
        /\ Top = stack[n] /\ n \in Nat /\ n >= 1 /\ d \in 0 .. DepthLimit
    BY <1>1, TopType, DepthOfTop DEF IInv, TypeOK
  <1>4. n \in 0 .. DepthLimit /\ d + 1 = n /\ n = d + 1 /\ n - 1 = d
    <2>1. d + 1 \in 0 .. DepthLimit
      BY <1>3, Deeper
    <2>2. d + 1 = n
      BY <1>1, <1>3
    <2> QED
      BY <1>3, <2>1, <2>2
  <1>5. FreshAt(g, c) /\ g.node = c
    BY <1>2 DEF FreshAt, FrameFor
  <1>6. g \in Frame
    BY <1>2, FrameForType DEF Descends
  <1>7. /\ FrameFits(g, n) /\ Gathering(g, n, FALSE)
        /\ LeftToSay(g, n) = Said[n][c] /\ LeftToGather(g, n) = Facts[n][c]
    BY <1>3, <1>4, <1>5, Fresh
  <1>8. /\ Len(stack') = n + 1 /\ stack' # <<>> /\ stack'[n + 1] = g /\ stack'[n] = f
        /\ \A k \in 1 .. n : k # n => stack'[k] = stack[k]
    <2> DEFINE s == WithTop(f)
    <2>1. /\ s \in Seq(Frame) /\ Len(s) = n
          /\ \A k \in 1 .. n : s[k] = IF k = n THEN f ELSE stack[k]
      BY <1>1, <1>3, ReplaceLast DEF WithTop
    <2>2. stack' = Append(s, g)
      BY <1>2 DEF Push
    <2> HIDE DEF s
    <2>3. /\ stack' \in Seq(Frame) /\ Len(stack') = n + 1 /\ stack'[n + 1] = g
          /\ \A k \in 1 .. n : stack'[k] = s[k]
      BY <1>6, <2>1, <2>2, AppendProperties
    <2> QED
      BY <1>3, <2>1, <2>3, EmptySeq
  <1>9. stack'[1].node = RootBean
    <2>1. stack[1].node = RootBean /\ 1 \in 1 .. n
      BY <1>3 DEF RInv
    <2> QED
      BY <1>3, <1>8, <2>1
  <1>10. \A k \in 1 .. n + 1 : k = n + 1 \/ k = n \/ (k \in 1 .. n /\ k # n)
    BY <1>3
  <1>11. ASSUME NEW k \in 1 .. n + 1
        PROVE  FrameFits(stack[k], k - 1)' /\ Gathering(stack[k], k - 1, Awaits(k))'
    <2>1. CASE k = n + 1
      <3>1. stack'[k] = g /\ k - 1 = n /\ ~(k < n + 1)
        BY <1>3, <1>8, <2>1
      <3>2. Awaits(k)' = FALSE
        BY <1>8, <3>1 DEF Awaits
      <3>3. FrameFits(g, n)' /\ Gathering(g, n, FALSE)'
        BY <1>3, <1>7, LeftStays
      <3> QED
        BY <3>1, <3>2, <3>3
    <2>2. CASE k = n
      <3>1. stack'[k] = f /\ k - 1 = d /\ k < n + 1
        BY <1>3, <1>4, <1>8, <2>2
      <3>2. Awaits(k)' = TRUE
        BY <1>8, <3>1 DEF Awaits
      <3>3. FrameFits(f, d)' /\ Gathering(f, d, TRUE)'
        BY <1>3, LeftStays
      <3> QED
        BY <3>1, <3>2, <3>3
    <2>3. CASE k \in 1 .. n /\ k # n
      <3>1. stack'[k] = stack[k] /\ k < n /\ k < n + 1
        BY <1>3, <1>8, <2>3
      <3>2. Awaits(k)' = TRUE /\ Awaits(k) = TRUE
        BY <1>1, <1>8, <3>1 DEF Awaits
      <3>3. PICK h : h = stack[k]
        OBVIOUS
      <3>4. FrameFits(h, k - 1) /\ Gathering(h, k - 1, TRUE)
        BY <1>1, <2>3, <3>2, <3>3 DEF RInv
      <3>5. stack'[k] = h
        BY <3>1, <3>3
      <3> QED
        BY <1>3, <3>2, <3>4, <3>5, LeftStays
    <2> QED
      BY <1>10, <2>1, <2>2, <2>3
  <1>12. \A k \in 2 .. n + 1 : Descends(stack[k].node, k - 2)'
    <2>1. ASSUME NEW k \in 2 .. n + 1 PROVE Descends(stack[k].node, k - 2)'
      <3>1. CASE k = n + 1
        <4>1. stack'[k].node = c /\ k - 2 = d
          BY <1>3, <1>4, <1>5, <1>8, <3>1
        <4> QED
          BY <4>1, TreeStays
      <3>2. CASE k # n + 1
        <4>1. k \in 2 .. n /\ k \in 1 .. n
          BY <1>3, <3>2
        <4>2. stack'[k].node = stack[k].node
          BY <1>3, <1>8, <4>1
        <4>3. Descends(stack[k].node, k - 2)
          BY <1>1, <4>1 DEF RInv
        <4> QED
          BY <4>2, <4>3, TreeStays
      <3> QED
        BY <3>1, <3>2
    <2> QED
      BY <2>1
  <1>13. SaidSoFar'
    <2>1. PICK left \in [0 .. n -> Seq(Diag)] :
            /\ left[0] = <<>>
            /\ \A k \in 1 .. n : left[k] = LeftToSay(stack[k], k - 1) \o left[k - 1]
            /\ RecursionSays = diags \o left[n]
      BY <1>1 DEF RInv, SaidSoFar
    <2>2. left[d] \in Seq(Diag) /\ d \in 0 .. n /\ n \in 1 .. n
      <3>1. d \in 0 .. n /\ n \in 1 .. n
        BY <1>3, <1>4
      <3> QED
        BY <2>1, <3>1
    <2>3. LeftToSay(f, d) \in Seq(Diag) /\ Said[n][c] \in Seq(Diag)
      BY <1>3, <1>4, LeftType, SaidReads
    <2> DEFINE below == Cat(LeftToSay(f, d), left[d])
               next  == [k \in 0 .. n + 1 |-> IF k = n + 1 THEN Cat(Said[n][c], below)
                                              ELSE IF k = n THEN below ELSE left[k]]
    <2>4. below \in Seq(Diag)
      BY <2>2, <2>3, CatType
    <2>5. Cat(Said[n][c], below) \in Seq(Diag)
      BY <2>3, <2>4, CatType
    <2>6. below = LeftToSay(f, d) \o left[d] /\ Cat(Said[n][c], below) = Said[n][c] \o below
      BY DEF Cat
    <2> HIDE DEF below
    <2>7. \A k \in 0 .. n + 1 : k # n + 1 => k \in 0 .. n
      BY <1>3
    <2>8. next \in [0 .. n + 1 -> Seq(Diag)]
      BY <2>1, <2>4, <2>5, <2>7
    <2>9. /\ next[n + 1] = Cat(Said[n][c], below) /\ next[n] = below
          /\ \A k \in 0 .. n : k # n => next[k] = left[k]
      <3>1. n + 1 \in 0 .. n + 1 /\ n \in 0 .. n + 1 /\ n # n + 1
            /\ \A k \in 0 .. n : k \in 0 .. n + 1 /\ k # n + 1
        BY <1>3
      <3> QED
        BY <3>1
    <2> HIDE DEF next
    <2>10. next[0] = <<>>
      <3>1. 0 \in 0 .. n /\ 0 # n
        BY <1>3
      <3> QED
        BY <2>1, <2>9, <3>1
    <2>11. ASSUME NEW k \in 1 .. n + 1 PROVE next[k] = LeftToSay(stack[k], k - 1)' \o next[k - 1]
      <3>1. CASE k = n + 1
        <4>1. stack'[k] = g /\ k - 1 = n
          BY <1>3, <1>8, <3>1
        <4>2. LeftToSay(stack[k], k - 1)' = LeftToSay(g, n)
          BY <1>3, <4>1, LeftStays
        <4> QED
          BY <1>7, <2>6, <2>9, <3>1, <4>1, <4>2
      <3>2. CASE k = n
        <4>1. stack'[k] = f /\ k - 1 = d /\ d \in 0 .. n /\ d # n
          BY <1>3, <1>4, <1>8, <3>2
        <4>2. LeftToSay(stack[k], k - 1)' = LeftToSay(f, d)
          BY <1>3, <4>1, LeftStays
        <4>3. next[k - 1] = left[d]
          BY <2>9, <4>1
        <4> QED
          BY <2>6, <2>9, <3>2, <4>2, <4>3
      <3>3. CASE k \in 1 .. n /\ k # n
        <4>1. k - 1 \in 0 .. n /\ k - 1 # n /\ k \in 0 .. n
          BY <1>3, <3>3
        <4>2. PICK h : h = stack[k]
          OBVIOUS
        <4>3. stack'[k] = h
          BY <1>8, <3>3, <4>2
        <4>4. LeftToSay(stack[k], k - 1)' = LeftToSay(h, k - 1)
          BY <1>3, <4>3, LeftStays
        <4>5. left[k] = LeftToSay(h, k - 1) \o left[k - 1]
          BY <2>1, <3>3, <4>2
        <4> QED
          BY <2>9, <3>3, <4>1, <4>4, <4>5
      <3> QED
        BY <1>10, <3>1, <3>2, <3>3
    <2>12. RecursionSays' = diags' \o next[n + 1]
      <3>1. RecursionSays' = Cat(diags, Cat(LeftToSay(Top, d), left[d]))
        <4>1. left[n] = LeftToSay(Top, d) \o left[d]
          BY <1>3, <1>4, <2>1, <2>2
        <4> QED
          BY <1>3, <2>1, <4>1, RecursionStays DEF Cat
      <3>2. diags \in Seq(Diag) /\ said \in Seq(Diag)
        BY <1>3
      <3>3. PICK in, rest, low, top, all :
              /\ in = Said[n][c] /\ rest = LeftToSay(f, d) /\ low = left[d]
              /\ top = LeftToSay(Top, d) /\ all = RecursionSays'
        OBVIOUS
      <3>4. in \in Seq(Diag) /\ rest \in Seq(Diag) /\ low \in Seq(Diag)
        BY <2>2, <2>3, <3>3
      <3>5. top = Cat(said, Cat(in, rest)) /\ all = Cat(diags, Cat(top, low))
        BY <1>4, <3>1, <3>3
      <3>6. all = Cat(Cat(diags, said), Cat(in, Cat(rest, low)))
        BY <3>2, <3>4, <3>5, MovedIn
      <3>7. diags' \o next[n + 1] = Cat(diags', next[n + 1])
        BY DEF Cat
      <3> QED
        BY <2>9, <3>3, <3>6, <3>7 DEF below
    <2>13. \E r \in [0 .. n + 1 -> Seq(Diag)] :
             /\ r[0] = <<>>
             /\ \A k \in 1 .. n + 1 : r[k] = LeftToSay(stack[k], k - 1)' \o r[k - 1]
             /\ RecursionSays' = diags' \o r[n + 1]
      BY <2>8, <2>10, <2>11, <2>12
    <2> QED
      BY <1>8, <2>13 DEF SaidSoFar
  <1>14. GatheredSoFar'
    <2>1. Facts' = Facts
      BY <1>3, RecursionStays
    <2>2. LeftToGather(stack[n + 1], n + 1 - 1)' = Facts[d + 1][c]
      <3>1. n + 1 - 1 = n
        BY <1>3
      <3> QED
        BY <1>3, <1>4, <1>7, <1>8, <3>1, LeftStays
    <2>3. LeftToGather(stack[n], n - 1)' = LeftToGather(f, d)
      BY <1>3, <1>4, <1>8, LeftStays
    <2>4. LeftToGather(stack[n], n - 1) = LeftToGather(f, d) \cup Facts[d + 1][c]
      BY <1>3, <1>4
    <2>5. ASSUME NEW k \in 1 .. n, k # n
          PROVE  LeftToGather(stack[k], k - 1)' = LeftToGather(stack[k], k - 1)
      <3>1. PICK h : h = stack[k]
        OBVIOUS
      <3>2. stack'[k] = h
        BY <1>8, <2>5, <3>1
      <3>3. LeftToGather(stack[k], k - 1)' = LeftToGather(h, k - 1)
        BY <1>3, <3>2, LeftStays
      <3> QED
        BY <3>1, <3>3
    <2>6. PICK B : B = [k \in 1 .. n + 1 |-> LeftToGather(stack[k], k - 1)']
      OBVIOUS
    <2>7. PICK A : A = [k \in 1 .. n |-> LeftToGather(stack[k], k - 1)]
      OBVIOUS
    <2>8. n \in 1 .. n /\ n + 1 \in 1 .. n + 1 /\ \A k \in 1 .. n : k \in 1 .. n + 1
      BY <1>3
    <2>9. A[n] = B[n] \cup B[n + 1]
      BY <2>2, <2>3, <2>4, <2>6, <2>7, <2>8
    <2>10. \A k \in 1 .. n : k # n => B[k] = A[k]
      BY <2>5, <2>6, <2>7, <2>8
    <2>11. AllOf(B, n + 1) = AllOf(A, n)
      BY <1>3, <2>9, <2>10, OneMore
    <2>12. UNION {LeftToGather(stack[k], k - 1) : k \in 1 .. n} = AllOf(A, n)
      BY <2>7 DEF AllOf
    <2>13. (UNION {LeftToGather(stack[k], k - 1) : k \in 1 .. Len(stack)})' = AllOf(B, n + 1)
      BY <1>8, <2>6 DEF AllOf
    <2> QED
      BY <1>1, <2>1, <2>11, <2>12, <2>13 DEF RInv, GatheredSoFar
  <1> QED
    BY <1>8, <1>9, <1>11, <1>12, <1>13, <1>14 DEF RInv

(* A frame that is done has nothing left, but to return what it has.        *)
LEMMA NothingLeft ==
  ASSUME ConstantsOK, doc \in [Nodes -> Element], NEW d \in 0 .. DepthLimit,
         NEW f \in Frame, FrameFits(f, d), Gathering(f, d, FALSE),
         f.waiting = {}, f.entry = {}, ~(f.idx < Len(Kids(f.node)))
  PROVE  /\ LeftToSay(f, d) = <<>>
         /\ LeftToGather(f, d) = {[node |-> f.node, items |-> f.items]}
  <1>1. f.node \in Nodes /\ f.idx \in Nat /\ f.items \in Seq(Item) /\ Typed(Said, d)
    BY LeftType DEF Frame
  <1>2. Len(Kids(f.node)) \in Nat
    BY <1>1, ElementType, LenProperties
  <1>3. f.idx = Len(Kids(f.node))
    BY <1>1, <1>2 DEF FrameFits
  <1>4. LeftToSay(f, d) = <<>>
    <2>1. \A i \in 1 .. Len(Kids(f.node)) : Says(Said, f.node, d)[i] \in Seq(Diag)
      BY <1>1, SaysType
    <2>2. Onward(Says(Said, f.node, d), Len(Kids(f.node)))[f.idx + 1] = <<>>
      <3>1. PICK m : m = Len(Kids(f.node))
        OBVIOUS
      <3>2. PICK s : s = Says(Said, f.node, d)
        OBVIOUS
      <3>3. \A i \in 1 .. m : s[i] \in Seq(Diag)
        BY <2>1, <3>1, <3>2
      <3>4. Onward(s, m)[m + 1] = <<>>
        BY <1>2, <3>1, <3>3, OnwardReads
      <3> QED
        BY <1>3, <3>1, <3>2, <3>4
    <2>3. RestOfSlot(f, d) = <<>>
      BY DEF RestOfSlot
    <2> QED
      BY <2>2, <2>3 DEF LeftToSay
  <1>5. f.items = Gathers(f.node, d)
    <2>1. \A i \in 1 .. Len(Kids(f.node)) : AddsOf(f.node, d)[i] \in Seq(Item)
      BY <1>1, AddsType
    <2>2. Onward(AddsOf(f.node, d), Len(Kids(f.node)))[f.idx + 1] = <<>>
      <3>1. PICK m : m = Len(Kids(f.node))
        OBVIOUS
      <3>2. PICK s : s = AddsOf(f.node, d)
        OBVIOUS
      <3>3. \A i \in 1 .. m : s[i] \in Seq(Item)
        BY <2>1, <3>1, <3>2
      <3>4. Onward(s, m)[m + 1] = <<>>
        BY <1>2, <3>1, <3>3, OnwardReads
      <3> QED
        BY <1>3, <3>1, <3>2, <3>4
    <2>3. f.items \o <<>> = f.items
      BY <1>1, ConcatEmptySeq
    <2> QED
      BY <2>2, <2>3 DEF Gathering
  <1>6. LeftToLook(f, d) = {}
    <2>1. f.idx + 1 .. Len(Kids(f.node)) = {}
      BY <1>2, <1>3
    <2> QED
      BY <2>1 DEF LeftToLook, LookFrom
  <1> QED
    BY <1>4, <1>5, <1>6 DEF LeftToGather

(* The top frame returns.                                                   *)
LEMMA Left ==
  ASSUME ConstantsOK, IInv, RInv, NEW kind, NEW form, Finished(kind, form),
         Top.entry = {}, form = Form(Top.node)
  PROVE  RInv'
  <1>1. PICK n : n = Len(stack)
    OBVIOUS
  <1>2. PICK f : f = Top
    OBVIOUS
  <1>3. PICK d : d = n - 1
    OBVIOUS
  <1>4. stack # <<>> /\ incoming = {} /\ result = {} /\ doc' = doc /\ diags' = diags
    BY DEF Finished, Stepping, IInv, TypeOK
  <1>5. /\ doc \in [Nodes -> Element] /\ diags \in Seq(Diag) /\ stack \in Seq(Frame) /\ f \in Frame
        /\ f = stack[n] /\ n \in Nat /\ n >= 1 /\ d \in 0 .. DepthLimit /\ n \in 1 .. n
    BY <1>4, <1>1, <1>2, <1>3, TopType, DepthOfTop DEF IInv, TypeOK
  <1>6. /\ Len(stack') = n - 1 /\ \A k \in 1 .. n - 1 : stack'[k] = stack[k]
        /\ stack' = <<>> <=> n = 1
    BY <1>4, <1>5, <1>1, RemoveLast DEF Finished
  <1>7. FrameFits(f, d) /\ Gathering(f, d, FALSE)
    <2>1. Awaits(n) = FALSE
      BY <1>4, <1>5, <1>1 DEF Awaits
    <2> QED
      BY <1>5, <1>1, <1>3, <2>1 DEF RInv
  <1>8. /\ LeftToSay(f, d) = <<>>
        /\ LeftToGather(f, d) = {[node |-> f.node, items |-> f.items]}
    <2>1. f.waiting = {} /\ f.entry = {}
      BY <1>4, <1>2 DEF IInv, Handshake, Idle
    <2>2. ~(f.idx < Len(Kids(f.node)))
      BY <1>2 DEF Finished, HasNext
    <2> QED
      BY <1>5, <1>7, <2>1, <2>2, NothingLeft
  <1>9. stack' # <<>> => stack'[1].node = RootBean
    <2>1. SUFFICES ASSUME n # 1 PROVE stack'[1].node = RootBean
      BY <1>6
    <2>2. 1 \in 1 .. n - 1
      BY <1>5, <2>1
    <2> QED
      BY <1>4, <1>6, <2>2 DEF RInv
  <1>10. ASSUME NEW k \in 1 .. n - 1
        PROVE  FrameFits(stack[k], k - 1)' /\ Gathering(stack[k], k - 1, Awaits(k))'
    <2>1. k < n /\ k \in 1 .. n /\ n # 1 /\ (k < n - 1 \/ k = n - 1)
      BY <1>5
    <2>2. Awaits(k) = TRUE
      BY <1>1, <2>1 DEF Awaits
    <2>3. Awaits(k)' = TRUE
      <3>1. incoming' # {}
        BY <1>1, <2>1 DEF Finished
      <3> QED
        BY <3>1 DEF Awaits
    <2>4. PICK h : h = stack[k]
      OBVIOUS
    <2>5. FrameFits(h, k - 1) /\ Gathering(h, k - 1, TRUE)
      BY <1>1, <2>1, <2>2, <2>4 DEF RInv
    <2>6. stack'[k] = h
      BY <1>6, <2>4
    <2> QED
      BY <1>4, <1>5, <2>3, <2>5, <2>6, LeftStays
  <1>11. \A k \in 2 .. n - 1 : Descends(stack[k].node, k - 2)'
    <2>1. ASSUME NEW k \in 2 .. n - 1 PROVE Descends(stack[k].node, k - 2)'
      <3>1. k \in 2 .. n /\ k \in 1 .. n - 1
        BY <1>5
      <3>2. stack'[k].node = stack[k].node
        BY <1>6, <3>1
      <3>3. Descends(stack[k].node, k - 2)
        BY <1>1, <3>1 DEF RInv
      <3> QED
        BY <1>4, <3>2, <3>3, TreeStays
    <2> QED
      BY <2>1
  <1>12. \A v \in incoming' : v = Val(Form(v.node), v.node)' /\ Descends(v.node, Len(stack) - 1)'
    <2>1. SUFFICES ASSUME NEW v \in incoming' PROVE v = Val(Form(v.node), v.node)' /\ Descends(v.node, Len(stack) - 1)'
      OBVIOUS
    <2>2. n # 1 /\ v = Val(form, f.node)
      BY <1>4, <1>1, <1>2, <2>1 DEF Finished
    <2>3. v.node = f.node
      BY <2>2 DEF Val
    <2>4. n \in 2 .. n /\ Len(stack') - 1 = n - 2
      BY <1>5, <1>6, <2>2
    <2>5. Descends(f.node, n - 2)
      BY <1>5, <1>1, <2>4 DEF RInv
    <2>6. Descends(f.node, n - 2)' /\ Form(f.node)' = Form(f.node)
      BY <1>4, <2>5, TreeStays
    <2> QED
      BY <1>2, <2>2, <2>3, <2>4, <2>6 DEF Val
  <1>13. \A v \in result' : v = Val("inner", RootBean)
    <2>1. SUFFICES ASSUME NEW v \in result' PROVE v = Val("inner", RootBean)
      OBVIOUS
    <2>2. n = 1 /\ v = Val(form, f.node)
      BY <1>4, <1>1, <1>2, <2>1 DEF Finished
    <2>3. f.node = RootBean
      BY <1>4, <1>5, <2>2 DEF RInv
    <2>4. form = "inner"
      BY <1>2, <2>3 DEF RInv, Form
    <2> QED
      BY <2>2, <2>3, <2>4
  <1>14. SaidSoFar'
    <2>1. PICK left \in [0 .. n -> Seq(Diag)] :
            /\ left[0] = <<>>
            /\ \A k \in 1 .. n : left[k] = LeftToSay(stack[k], k - 1) \o left[k - 1]
            /\ RecursionSays = diags \o left[n]
      BY <1>1 DEF RInv, SaidSoFar
    <2>2. n - 1 \in 0 .. n /\ \A k \in 0 .. n - 1 : k \in 0 .. n
      BY <1>5
    <2>3. left[n] = left[n - 1]
      <3>1. left[n] = <<>> \o left[n - 1]
        BY <1>5, <1>8, <1>3, <2>1
      <3>2. left[n - 1] \in Seq(Diag)
        BY <2>1, <2>2
      <3> QED
        BY <3>1, <3>2, ConcatEmptySeq
    <2> DEFINE next == [k \in 0 .. n - 1 |-> left[k]]
    <2>4. next \in [0 .. n - 1 -> Seq(Diag)] /\ \A k \in 0 .. n - 1 : next[k] = left[k]
      BY <2>1, <2>2
    <2> HIDE DEF next
    <2>5. next[0] = <<>>
      <3>1. 0 \in 0 .. n - 1
        BY <1>5
      <3> QED
        BY <2>1, <2>4, <3>1
    <2>6. ASSUME NEW k \in 1 .. n - 1 PROVE next[k] = LeftToSay(stack[k], k - 1)' \o next[k - 1]
      <3>1. k \in 0 .. n - 1 /\ k - 1 \in 0 .. n - 1 /\ k \in 1 .. n
        BY <1>5
      <3>2. PICK h : h = stack[k]
        OBVIOUS
      <3>3. stack'[k] = h
        BY <1>6, <3>2
      <3>4. LeftToSay(stack[k], k - 1)' = LeftToSay(h, k - 1)
        BY <1>4, <1>5, <3>3, LeftStays
      <3>5. left[k] = LeftToSay(h, k - 1) \o left[k - 1]
        BY <2>1, <3>1, <3>2
      <3> QED
        BY <2>4, <3>1, <3>4, <3>5
    <2>7. RecursionSays' = diags' \o next[n - 1]
      <3>1. n - 1 \in 0 .. n - 1
        BY <1>5
      <3> QED
        BY <1>4, <1>5, <2>1, <2>3, <2>4, <3>1, RecursionStays
    <2>8. \E r \in [0 .. n - 1 -> Seq(Diag)] :
             /\ r[0] = <<>>
             /\ \A k \in 1 .. n - 1 : r[k] = LeftToSay(stack[k], k - 1)' \o r[k - 1]
             /\ RecursionSays' = diags' \o r[n - 1]
      BY <2>4, <2>5, <2>6, <2>7
    <2> QED
      BY <1>6, <2>8 DEF SaidSoFar
  <1>15. GatheredSoFar'
    <2>1. Facts' = Facts
      BY <1>4, <1>5, RecursionStays
    <2>2. ASSUME NEW k \in 1 .. n - 1
          PROVE  LeftToGather(stack[k], k - 1)' = LeftToGather(stack[k], k - 1)
      <3>1. PICK h : h = stack[k]
        OBVIOUS
      <3>2. stack'[k] = h
        BY <1>6, <3>1
      <3>3. LeftToGather(stack[k], k - 1)' = LeftToGather(h, k - 1)
        BY <1>4, <1>5, <3>2, LeftStays
      <3> QED
        BY <3>1, <3>3
    <2>3. PICK A : A = [k \in 1 .. n |-> LeftToGather(stack[k], k - 1)]
      OBVIOUS
    <2>4. \A k \in 1 .. n : k = n \/ k \in 1 .. n - 1
      BY <1>5
    <2>5. \A k \in 1 .. n - 1 : k \in 1 .. n
      BY <1>5
    <2>6. A[n] = {[node |-> f.node, items |-> f.items]}
      BY <1>5, <1>8, <1>3, <2>3
    <2>7. AllOf(A, n) = AllOf(A, n - 1) \cup {[node |-> f.node, items |-> f.items]}
      BY <1>5, <2>4, <2>5, <2>6 DEF AllOf
    <2>8. UNION {LeftToGather(stack[k], k - 1) : k \in 1 .. n} = AllOf(A, n)
      BY <2>3 DEF AllOf
    <2>9. (UNION {LeftToGather(stack[k], k - 1) : k \in 1 .. Len(stack)})' = AllOf(A, n - 1)
      BY <1>6, <2>2, <2>3, <2>5 DEF AllOf
    <2>10. built' = built \cup {[node |-> f.node, items |-> f.items]}
      BY <1>2 DEF Finished
    <2>11. Facts[0][RootBean] = built \cup AllOf(A, n)
      BY <1>1, <2>8 DEF RInv, GatheredSoFar
    <2> QED
      BY <2>1, <2>7, <2>9, <2>10, <2>11 DEF GatheredSoFar
  <1> QED
    BY <1>4, <1>6, <1>9, <1>10, <1>11, <1>12, <1>13, <1>14, <1>15 DEF RInv
-----------------------------------------------------------------------------
(* What is left of a frame, from the child it is at.                        *)
SayFrom(n, d, i)  == Onward(Says(Said, n, d), Len(Kids(n)))[i]
TellFrom(e, d, i) == Onward(EntrySays(Said, e, d), Len(Kids(e)))[i]
AddFrom(n, d, i)  == Onward(AddsOf(n, d), Len(Kids(n)))[i]
Looks(n, d, i, entry) == LookFrom(n, d, i) \cup UNION {AskFrom(x.node, d, x.idx + 1) : x \in entry}
Calls(S, d)       == UNION {Facts[d + 1][c] : c \in {c \in S : Descends(c, d)}}

Both(S, T) == S \cup T

(* A sequence of sequences at one of them.                                  *)
LEMMA OnwardAt ==
  ASSUME NEW S, NEW n \in Nat, NEW s, \A k \in 1 .. n : s[k] \in Seq(S),
         NEW i \in 1 .. n
  PROVE  /\ Onward(s, n)[i] = Cat(s[i], Onward(s, n)[i + 1])
         /\ Onward(s, n)[i + 1] \in Seq(S) /\ Onward(s, n)[i] \in Seq(S) /\ s[i] \in Seq(S)
  <1>1. i \in 1 .. n + 1 /\ i + 1 \in 1 .. n + 1
    OBVIOUS
  <1> QED
    BY <1>1, OnwardReads DEF Cat

(* What all calls say are diagnostics.                                      *)
LEMMA SaidTyped ==
  ASSUME ConstantsOK, doc \in [Nodes -> Element], NEW d \in 0 .. DepthLimit
  PROVE  Typed(Said, d)
  <1>1. SUFFICES ASSUME NEW c \in Nodes, Descends(c, d) PROVE Said[d + 1][c] \in Seq(Diag)
    BY DEF Typed
  <1>2. d + 1 \in 0 .. DepthLimit
    BY <1>1, Deeper
  <1> QED
    BY <1>2, SaidReads

(* The next child, and what is left after it.                               *)
LEMMA NextSays ==
  ASSUME ConstantsOK, doc \in [Nodes -> Element], NEW d \in 0 .. DepthLimit,
         NEW n \in Nodes, NEW i \in 1 .. Len(Kids(n)), NEW c, c = Kids(n)[i]
  PROVE  /\ SayFrom(n, d, i) = Cat(ChildSays(Said, n, d, c), SayFrom(n, d, i + 1))
         /\ ChildSays(Said, n, d, c) \in Seq(Diag)
         /\ SayFrom(n, d, i) \in Seq(Diag) /\ SayFrom(n, d, i + 1) \in Seq(Diag)
  <1>1. PICK m, s : m = Len(Kids(n)) /\ s = Says(Said, n, d)
    OBVIOUS
  <1>2. m \in Nat /\ i \in 1 .. m
    BY <1>1, ElementType, LenProperties
  <1>3. \A k \in 1 .. m : s[k] \in Seq(Diag)
    BY <1>1, SaidTyped, SaysType
  <1>4. s[i] = ChildSays(Said, n, d, c)
    BY <1>1 DEF Says
  <1>5. /\ Onward(s, m)[i] = Cat(s[i], Onward(s, m)[i + 1])
        /\ Onward(s, m)[i + 1] \in Seq(Diag) /\ Onward(s, m)[i] \in Seq(Diag) /\ s[i] \in Seq(Diag)
    BY <1>2, <1>3, OnwardAt
  <1> QED
    BY <1>1, <1>4, <1>5 DEF SayFrom

(* The next child of an entry.                                              *)
LEMMA NextTells ==
  ASSUME ConstantsOK, doc \in [Nodes -> Element], NEW d \in 0 .. DepthLimit,
         NEW n \in Nodes, NEW i \in 1 .. Len(Kids(n))
  PROVE  /\ TellFrom(n, d, i) = Cat(SayingAny(Said, Asked(n, d, i), d), TellFrom(n, d, i + 1))
         /\ SayingAny(Said, Asked(n, d, i), d) \in Seq(Diag)
         /\ TellFrom(n, d, i) \in Seq(Diag) /\ TellFrom(n, d, i + 1) \in Seq(Diag)
  <1>1. PICK m, s : m = Len(Kids(n)) /\ s = EntrySays(Said, n, d)
    OBVIOUS
  <1>2. m \in Nat /\ i \in 1 .. m
    BY <1>1, ElementType, LenProperties
  <1>3. \A k \in 1 .. m : s[k] \in Seq(Diag)
    BY <1>1, SaidTyped, SaysType
  <1>4. s[i] = SayingAny(Said, Asked(n, d, i), d)
    BY <1>1 DEF EntrySays
  <1>5. /\ Onward(s, m)[i] = Cat(s[i], Onward(s, m)[i + 1])
        /\ Onward(s, m)[i + 1] \in Seq(Diag) /\ Onward(s, m)[i] \in Seq(Diag) /\ s[i] \in Seq(Diag)
    BY <1>2, <1>3, OnwardAt
  <1> QED
    BY <1>1, <1>4, <1>5 DEF TellFrom

(* What the next child adds.                                                *)
LEMMA NextAdds ==
  ASSUME ConstantsOK, doc \in [Nodes -> Element], NEW d \in 0 .. DepthLimit,
         NEW n \in Nodes, NEW i \in 1 .. Len(Kids(n)), NEW c, c = Kids(n)[i]
  PROVE  /\ AddFrom(n, d, i) = Cat(Adds(n, d, c), AddFrom(n, d, i + 1))
         /\ Adds(n, d, c) \in Seq(Item)
         /\ AddFrom(n, d, i) \in Seq(Item) /\ AddFrom(n, d, i + 1) \in Seq(Item)
  <1>1. PICK m, s : m = Len(Kids(n)) /\ s = AddsOf(n, d)
    OBVIOUS
  <1>2. m \in Nat /\ i \in 1 .. m
    BY <1>1, ElementType, LenProperties
  <1>3. \A k \in 1 .. m : s[k] \in Seq(Item)
    BY <1>1, AddsType
  <1>4. s[i] = Adds(n, d, c)
    BY <1>1 DEF AddsOf
  <1>5. /\ Onward(s, m)[i] = Cat(s[i], Onward(s, m)[i + 1])
        /\ Onward(s, m)[i + 1] \in Seq(Item) /\ Onward(s, m)[i] \in Seq(Item) /\ s[i] \in Seq(Item)
    BY <1>2, <1>3, OnwardAt
  <1> QED
    BY <1>1, <1>4, <1>5 DEF AddFrom

(* What is looked into in the next child.                                   *)
LEMMA NextLooks ==
  ASSUME doc \in [Nodes -> Element], NEW n \in Nodes, NEW d, NEW i \in 1 .. Len(Kids(n))
  PROVE  /\ \A c : c = Kids(n)[i] => LookFrom(n, d, i) = Both(LookFrom(n, d, i + 1), Looked(n, d, c))
         /\ AskFrom(n, d, i) = Both(AskFrom(n, d, i + 1), Asked(n, d, i))
  <1>1. PICK m : m = Len(Kids(n))
    OBVIOUS
  <1>2. m \in Nat /\ i \in 1 .. m
    BY <1>1, ElementType, LenProperties
  <1>3. \A j : j \in i .. m <=> j = i \/ j \in i + 1 .. m
    BY <1>2
  <1> QED
    BY <1>1, <1>3 DEF LookFrom, AskFrom, Both

(* Where a frame is and what it has.                                        *)
Stands(f, kind, n, i, items, waiting, entry) ==
  /\ f.kind = kind /\ f.node = n /\ f.idx = i
  /\ f.items = items /\ f.waiting = waiting /\ f.entry = entry

SlotLeft(waiting, entry, d) ==
  IF waiting # {} THEN InjectionDiags(The(waiting))
  ELSE IF entry # {} THEN RestOfEntry(The(entry), d)
  ELSE <<>>

(* What it has left, from there.                                            *)
LEMMA StandsSays ==
  ASSUME NEW f, NEW kind, NEW n, NEW i, NEW items, NEW waiting, NEW entry,
         Stands(f, kind, n, i, items, waiting, entry), NEW d
  PROVE  LeftToSay(f, d) = Cat(SlotLeft(waiting, entry, d), SayFrom(n, d, i + 1))
  <1>1. f.node = n /\ f.idx = i /\ f.waiting = waiting /\ f.entry = entry
    BY DEF Stands
  <1>2. RestOfSlot(f, d) = SlotLeft(waiting, entry, d)
    BY <1>1 DEF RestOfSlot, SlotLeft
  <1> QED
    BY <1>1, <1>2 DEF LeftToSay, SayFrom, Cat

(* What a frame that stands at child i has left to gather: its own items,   *)
(* and the calls it has not made.                                           *)
LEMMA StandsLooks ==
  ASSUME NEW f, NEW kind, NEW n, NEW i, NEW items, NEW waiting, NEW entry,
         Stands(f, kind, n, i, items, waiting, entry), NEW d
  PROVE  LeftToGather(f, d) =
           {[node |-> n, items |-> Gathers(n, d)]} \cup Calls(Looks(n, d, i + 1, entry), d)
  <1>1. f.node = n /\ f.idx = i /\ f.entry = entry
    BY DEF Stands
  <1>2. LeftToLook(f, d) = Looks(n, d, i + 1, entry)
    BY <1>1 DEF LeftToLook, Looks
  <1> QED
    BY <1>1, <1>2 DEF LeftToGather, Calls

(* What it is for such a frame to fit its element.                          *)
LEMMA StandsFits ==
  ASSUME NEW f, NEW kind, NEW n, NEW i, NEW items, NEW waiting, NEW entry,
         Stands(f, kind, n, i, items, waiting, entry), NEW d
  PROVE  FrameFits(f, d) <=>
           /\ kind = doc[n].kind
           /\ i <= Len(Kids(n))
           /\ \A p \in waiting : i > 0 /\ p = Kids(n)[i] /\ Injects(p)
           /\ \A x \in entry : i > 0 /\ x.node = Kids(n)[i] /\ doc[x.node].kind = "entry" /\ ScanFits(x, d)
  BY DEF Stands, FrameFits

(* It waits for the value of the child it is at, or for none.               *)
Short(f, d) == Gathering(f, d, TRUE)
Whole(f, d) == Gathering(f, d, FALSE)

(* What it is for such a frame to have gathered what it should: short of    *)
(* child i while it waits for it, whole otherwise.                          *)
LEMMA StandsGathers ==
  ASSUME NEW f, NEW kind, NEW n, NEW i, NEW items, NEW waiting, NEW entry,
         Stands(f, kind, n, i, items, waiting, entry), NEW d
  PROVE  /\ Short(f, d) <=> i > 0 /\ Cat(items, AddFrom(n, d, i)) = Gathers(n, d)
         /\ entry # {} => (Whole(f, d) <=> Cat(items, AddFrom(n, d, i)) = Gathers(n, d))
         /\ entry = {} => (Whole(f, d) <=> Cat(items, AddFrom(n, d, i + 1)) = Gathers(n, d))
  BY DEF Stands, Short, Whole, Gathering, AddFrom, Cat

(* What is gathered with the calls among some more elements: none, or one.  *)
LEMMA NoCalls ==
  ASSUME NEW d, NEW S, NEW T, \A c \in T : ~Descends(c, d), NEW all, all = Both(S, T)
  PROVE  Calls(all, d) = Calls(S, d)
  BY DEF Calls, Both

(* A call for one more child has what is gathered inside it.                *)
LEMMA OneCall ==
  ASSUME NEW d, NEW S, NEW c, Descends(c, d), NEW all, all = Both(S, {c})
  PROVE  Calls(all, d) = Calls(S, d) \cup Facts[d + 1][c]
  BY DEF Calls, Both
-----------------------------------------------------------------------------
(* What a step does to the child its frame is at.                           *)

(* The empty sequence adds nothing, on either side.                         *)
LEMMA CatEmpty == \A S : \A a \in Seq(S) : Cat(<<>>, a) = a /\ Cat(a, <<>>) = a
  BY ConcatEmptySeq DEF Cat

(* A frame that waits for nothing has nothing of the child before it left   *)
(* to say.                                                                  *)
LEMMA SlotEmpty == \A d : SlotLeft({}, {}, d) = <<>>
  BY DEF SlotLeft

(* The top frame is where the invariant says it is.                         *)
LEMMA TopStands ==
  ASSUME ConstantsOK, IInv, RInv, stack # <<>>, NEW d, d = Len(stack) - 1
  PROVE  /\ d \in 0 .. DepthLimit /\ doc \in [Nodes -> Element] /\ diags \in Seq(Diag)
         /\ d = Level(Top)
         /\ FrameFits(Top, d)
         /\ incoming = {} => Whole(Top, d) /\ Top.waiting = {}
         /\ incoming # {} => Short(Top, d)
         /\ Stands(Top, Top.kind, Top.node, Top.idx, Top.items, Top.waiting, Top.entry)
         /\ Top \in Frame /\ Top.node \in Nodes /\ Top.idx \in Nat /\ Top.items \in Seq(Item)
         /\ Top.kind = doc[Top.node].kind
         /\ Len(Kids(Top.node)) \in Nat /\ Top.idx <= Len(Kids(Top.node))
  <1>1. PICK n : n = Len(stack)
    OBVIOUS
  <1>2. n \in 1 .. n /\ n - 1 = d /\ Top = stack[n] /\ d \in 0 .. DepthLimit /\ d = Level(Top)
    BY <1>1, TopType, DepthOfTop DEF IInv
  <1>3. FrameFits(Top, d)
    BY <1>1, <1>2 DEF RInv
  <1>4. incoming = {} => Whole(Top, d)
    <2>1. incoming = {} => Awaits(n) = FALSE
      BY <1>1, <1>2 DEF Awaits
    <2> QED
      BY <1>1, <1>2, <2>1 DEF RInv, Whole, Short
  <1>5. incoming # {} => Short(Top, d)
    <2>1. incoming # {} => Awaits(n) = TRUE
      BY <1>1, <1>2 DEF Awaits
    <2> QED
      BY <1>1, <1>2, <2>1 DEF RInv, Whole, Short
  <1>6. Stands(Top, Top.kind, Top.node, Top.idx, Top.items, Top.waiting, Top.entry)
    BY DEF Stands
  <1>7. /\ Top \in Frame /\ Top.node \in Nodes /\ Top.idx \in Nat /\ Top.items \in Seq(Item)
        /\ doc \in [Nodes -> Element] /\ diags \in Seq(Diag)
        /\ incoming = {} => Top.waiting = {}
    BY Ready DEF Idle
  <1>8. Top.kind = doc[Top.node].kind /\ Top.idx <= Len(Kids(Top.node))
    BY <1>3 DEF FrameFits
  <1>9. Len(Kids(Top.node)) \in Nat
    BY <1>7, ElementType, LenProperties
  <1> QED
    BY <1>2, <1>3, <1>4, <1>5, <1>6, <1>7, <1>8, <1>9

(* A child that is done within the step.                                    *)
LEMMA PastFits ==
  ASSUME ConstantsOK, doc \in [Nodes -> Element], NEW d \in 0 .. DepthLimit,
         NEW n \in Nodes, NEW j \in 1 .. Len(Kids(n)), NEW i, j = i + 1,
         NEW kind, NEW items \in Seq(Item), NEW f, Stands(f, kind, n, i, items, {}, {}),
         FrameFits(f, d), Whole(f, d), NEW c, c = Kids(n)[j],
         \A v \in Looked(n, d, c) : ~Descends(v, d),
         NEW g, Stands(g, kind, n, j, Cat(items, Adds(n, d, c)), {}, {})
  PROVE  /\ FrameFits(g, d) /\ Whole(g, d)
         /\ ChildSays(Said, n, d, c) \in Seq(Diag)
         /\ LeftToSay(f, d) = Cat(ChildSays(Said, n, d, c), LeftToSay(g, d))
         /\ LeftToGather(g, d) = LeftToGather(f, d)
  <1>1. PICK all, said, more : all = Gathers(n, d) /\ said = ChildSays(Said, n, d, c) /\ more = Adds(n, d, c)
    OBVIOUS
  <1>2. /\ SayFrom(n, d, j) = Cat(said, SayFrom(n, d, j + 1))
        /\ said \in Seq(Diag) /\ SayFrom(n, d, j) \in Seq(Diag) /\ SayFrom(n, d, j + 1) \in Seq(Diag)
    BY <1>1, NextSays
  <1>3. /\ AddFrom(n, d, j) = Cat(more, AddFrom(n, d, j + 1))
        /\ more \in Seq(Item) /\ AddFrom(n, d, j + 1) \in Seq(Item)
    BY <1>1, NextAdds
  <1>4. LookFrom(n, d, j) = Both(LookFrom(n, d, j + 1), Looked(n, d, c))
    BY NextLooks
  <1>5. Stands(g, kind, n, j, Cat(items, more), {}, {})
    BY <1>1
  <1>6. LeftToSay(f, d) = Cat(said, LeftToSay(g, d))
    <2>1. LeftToSay(f, d) = Cat(<<>>, SayFrom(n, d, j)) /\ LeftToSay(g, d) = Cat(<<>>, SayFrom(n, d, j + 1))
      BY <1>5, StandsSays, SlotEmpty
    <2> QED
      BY <1>2, <2>1, CatEmpty
  <1>7. FrameFits(g, d)
    <2>1. kind = doc[n].kind
      BY StandsFits
    <2>2. j <= Len(Kids(n))
      BY ElementType, LenProperties
    <2> QED
      BY <1>5, <2>1, <2>2, StandsFits
  <1>8. Whole(g, d)
    <2>1. Cat(items, AddFrom(n, d, j)) = all
      BY <1>1, StandsGathers
    <2>2. Cat(Cat(items, more), AddFrom(n, d, j + 1)) = all
      BY <1>3, <2>1, CatAssociative
    <2> QED
      BY <1>1, <1>5, <2>2, StandsGathers
  <1>9. LeftToGather(g, d) = LeftToGather(f, d)
    <2>1. Calls(LookFrom(n, d, j), d) = Calls(LookFrom(n, d, j + 1), d)
      BY <1>4, NoCalls
    <2>2. /\ LeftToGather(f, d) = {[node |-> n, items |-> all]} \cup Calls(Looks(n, d, j, {}), d)
          /\ LeftToGather(g, d) = {[node |-> n, items |-> all]} \cup Calls(Looks(n, d, j + 1, {}), d)
      BY <1>1, <1>5, StandsLooks
    <2>3. Looks(n, d, j, {}) = LookFrom(n, d, j) /\ Looks(n, d, j + 1, {}) = LookFrom(n, d, j + 1)
      BY DEF Looks
    <2> QED
      BY <2>1, <2>2, <2>3
  <1> QED
    BY <1>1, <1>2, <1>6, <1>7, <1>8, <1>9

(* RInv is kept by a child that is walked past: nothing in it is called     *)
(* for, and what it says and adds is said and added at once.                *)
LEMMA WalkedPast ==
  ASSUME ConstantsOK, IInv, RInv, stack # <<>>, incoming = {}, incoming' = {},
         UNCHANGED <<doc, built, result>>, Top.entry = {}, HasNext,
         NEW d, d = Len(stack) - 1, NEW more, more = Adds(Top.node, d, NextChild),
         NEW g \in Frame, Stands(g, Top.kind, Top.node, Top.idx + 1, Cat(Top.items, more), {}, {}),
         stack' = WithTop(g),
         NEW said, said = ChildSays(Said, Top.node, d, NextChild), diags' = Cat(diags, said),
         \A c \in Looked(Top.node, d, NextChild) : ~Descends(c, d)
  PROVE  RInv'
  <1>1. /\ d \in 0 .. DepthLimit /\ doc \in [Nodes -> Element] /\ Top.node \in Nodes
        /\ Top.items \in Seq(Item) /\ Top.idx \in Nat /\ Len(Kids(Top.node)) \in Nat
        /\ FrameFits(Top, d) /\ Whole(Top, d)
        /\ Stands(Top, Top.kind, Top.node, Top.idx, Top.items, {}, {})
    BY TopStands
  <1>2. Top.idx + 1 \in 1 .. Len(Kids(Top.node)) /\ NextChild = Kids(Top.node)[Top.idx + 1]
    BY <1>1 DEF HasNext, NextChild
  <1>3. /\ FrameFits(g, d) /\ Whole(g, d)
        /\ said \in Seq(Diag)
        /\ LeftToSay(Top, d) = Cat(said, LeftToSay(g, d))
        /\ LeftToGather(g, d) = LeftToGather(Top, d)
    BY <1>1, <1>2, PastFits
  <1>4. g.node = Top.node
    BY DEF Stands
  <1> QED
    BY <1>3, <1>4, Walked DEF Whole
-----------------------------------------------------------------------------
(* The steps that are done with a child.                                    *)

(* One more at the end.                                                     *)
LEMMA AppendIsCat == \A S : \A s \in Seq(S), x \in S : Append(s, x) = Cat(s, <<x>>)
  BY AppendIsConcat DEF Cat

(* The top frame past its next child, with what that has added.             *)
LEMMA PastStands ==
  ASSUME IInv, stack # <<>>, Top.waiting = {}, Top.entry = {}
  PROVE  /\ Past \in Frame
         /\ Stands(Past, Top.kind, Top.node, Top.idx + 1, Top.items, {}, {})
         /\ Stands(Past, Top.kind, Top.node, Top.idx + 1, Cat(Top.items, <<>>), {}, {})
         /\ \A item \in Item :
              LET g == [Past EXCEPT !.items = Append(@, item)]
              IN  /\ g \in Frame
                  /\ Stands(g, Top.kind, Top.node, Top.idx + 1, Cat(Top.items, <<item>>), {}, {})
  <1>1. /\ Past \in Frame /\ Past.kind = Top.kind /\ Past.node = Top.node /\ Past.items = Top.items
        /\ Past.waiting = {} /\ Past.entry = {} /\ Past.idx = Top.idx + 1
    BY PastType
  <1>2. Top.items \in Seq(Item)
    BY Ready
  <1>3. Top.items = Cat(Top.items, <<>>)
    BY <1>2, CatEmpty
  <1>4. ASSUME NEW item \in Item
        PROVE  LET g == [Past EXCEPT !.items = Append(@, item)]
               IN  /\ g \in Frame
                   /\ Stands(g, Top.kind, Top.node, Top.idx + 1, Cat(Top.items, <<item>>), {}, {})
    <2>1. PICK items : items = Append(Top.items, item)
      OBVIOUS
    <2>2. items \in Seq(Item) /\ items = Cat(Top.items, <<item>>)
      BY <1>2, <2>1, AppendProperties, AppendIsCat
    <2>3. PICK g : g = [Past EXCEPT !.items = items]
      OBVIOUS
    <2>4. [Past EXCEPT !.items = Append(@, item)] = g
      BY <1>1, <2>1, <2>3
    <2>5. /\ g \in Frame /\ g.kind = Top.kind /\ g.node = Top.node
          /\ g.waiting = {} /\ g.entry = {} /\ g.idx = Top.idx + 1
      BY <1>1, <2>2, <2>3, ItemsChanged
    <2>6. g.items = items
      BY <1>1, <2>3 DEF Frame
    <2>7. Stands(g, Top.kind, Top.node, Top.idx + 1, Cat(Top.items, <<item>>), {}, {})
      BY <2>2, <2>5, <2>6 DEF Stands
    <2> QED
      BY <2>4, <2>5, <2>7
  <1> QED
    BY <1>1, <1>3, <1>4 DEF Stands

(* What is said and yielded when an element is resolved.                    *)
LEMMA SayingIs ==
  ASSUME ConstantsOK, doc \in [Nodes -> Element], NEW d \in 0 .. DepthLimit, NEW c \in Nodes
  PROVE  /\ ~Descends(c, d) => Saying(Said, c, d) = ResolveDiags(c, d) /\ Yields(c, d) = Resolved(c, d)
         /\ Descends(c, d) => /\ Saying(Said, c, d) = Cat(ResolveDiags(c, d), Said[d + 1][c])
                              /\ Yields(c, d) = {Val(Form(c), c)}
                              /\ Said[d + 1][c] \in Seq(Diag)
         /\ SayingAny(Said, {c}, d) = Saying(Said, c, d)
         /\ ResolveDiags(c, d) \in Seq(Diag)
  <1>1. ResolveDiags(c, d) \in Seq(Diag)
    BY ResolveType
  <1>2. ~Descends(c, d) => Saying(Said, c, d) = ResolveDiags(c, d)
    <2>1. ~Descends(c, d) => Saying(Said, c, d) = Cat(ResolveDiags(c, d), <<>>)
      BY DEF Saying, Cat
    <2> QED
      BY <1>1, <2>1, CatEmpty
  <1>3. Descends(c, d) => Saying(Said, c, d) = Cat(ResolveDiags(c, d), Said[d + 1][c])
    BY DEF Saying, Cat
  <1>4. Descends(c, d) => Said[d + 1][c] \in Seq(Diag)
    BY SaidTyped DEF Typed
  <1>5. SayingAny(Said, {c}, d) = Saying(Said, c, d)
    <2>1. (CHOOSE v \in {c} : TRUE) = c
      OBVIOUS
    <2> QED
      BY <2>1 DEF SayingAny
  <1> QED
    BY <1>1, <1>2, <1>3, <1>4, <1>5 DEF Yields

(* A child of a <bean> that is no injection.                                *)
LEMMA BeanOtherKeeps ==
  ASSUME ConstantsOK, IInv, RInv, BeanOther
  PROVE  RInv'
  <1>1. /\ stack # <<>> /\ incoming = {} /\ incoming' = {} /\ Top.kind = "bean" /\ HasNext
        /\ ~Injects(NextChild) /\ UNCHANGED <<doc, built, result>> /\ stack' = WithTop(Past)
    BY DEF BeanOther, Stepping, IInv, TypeOK
  <1>2. PICK d : d = Len(stack) - 1
    OBVIOUS
  <1>3. doc[Top.node].kind = "bean" /\ Top.waiting = {} /\ Top.entry = {}
    BY <1>1, <1>2, TopStands, Ready DEF FrameOK
  <1>4. Adds(Top.node, d, NextChild) = <<>> /\ Looked(Top.node, d, NextChild) = {}
    BY <1>1, <1>3 DEF Adds, Looked
  <1>5. ChildSays(Said, Top.node, d, NextChild) = SaysOfOther(NextChild)
    BY <1>1, <1>3 DEF ChildSays
  <1>6. diags' = Cat(diags, SaysOfOther(NextChild))
    BY DEF BeanOther, SaysOfOther, Cat
  <1>7. Past \in Frame /\ Stands(Past, Top.kind, Top.node, Top.idx + 1, Cat(Top.items, <<>>), {}, {})
    BY <1>1, <1>3, PastStands
  <1> QED
    BY <1>1, <1>2, <1>3, <1>4, <1>5, <1>6, <1>7, WalkedPast

(* A child of a map that is no <entry>.                                     *)
LEMMA MapSkipKeeps ==
  ASSUME ConstantsOK, IInv, RInv, MapSkip
  PROVE  RInv'
  <1>1. /\ stack # <<>> /\ incoming = {} /\ incoming' = {} /\ Top.kind = "map" /\ HasNext
        /\ doc[NextChild].kind # "entry" /\ UNCHANGED <<doc, diags, built, result>>
        /\ stack' = WithTop(Past) /\ Top.entry = {}
    BY DEF MapSkip, Stepping, IInv, TypeOK
  <1>2. PICK d : d = Len(stack) - 1
    OBVIOUS
  <1>3. doc[Top.node].kind = "map" /\ Top.waiting = {} /\ diags \in Seq(Diag)
    BY <1>1, <1>2, TopStands
  <1>4. /\ Adds(Top.node, d, NextChild) = <<>> /\ Looked(Top.node, d, NextChild) = {}
        /\ ChildSays(Said, Top.node, d, NextChild) = <<>>
    BY <1>1, <1>3 DEF Adds, Looked, ChildSays
  <1>5. diags' = Cat(diags, <<>>)
    BY <1>1, <1>3, CatEmpty
  <1>6. Past \in Frame /\ Stands(Past, Top.kind, Top.node, Top.idx + 1, Cat(Top.items, <<>>), {}, {})
    BY <1>1, <1>3, PastStands
  <1> QED
    BY <1>1, <1>2, <1>4, <1>5, <1>6, WalkedPast

(* An injection without a child.                                            *)
LEMMA InjectPlainKeeps ==
  ASSUME ConstantsOK, IInv, RInv, InjectPlain
  PROVE  RInv'
  <1>1. PICK p : p = NextChild
    OBVIOUS
  <1>2. /\ stack # <<>> /\ incoming = {} /\ incoming' = {} /\ Top.kind = "bean" /\ HasNext
        /\ Injects(p) /\ Candidate(p) = {} /\ UNCHANGED <<doc, built, result>>
        /\ stack' = WithTop([Past EXCEPT !.items = Append(@, Injected(p, {}))])
    BY <1>1 DEF InjectPlain, Stepping, IInv, TypeOK
  <1>3. PICK d : d = Len(stack) - 1
    OBVIOUS
  <1>4. /\ doc[Top.node].kind = "bean" /\ Top.waiting = {} /\ Top.entry = {}
        /\ p \in Nodes /\ doc \in [Nodes -> Element] /\ diags \in Seq(Diag)
    BY <1>1, <1>2, <1>3, TopStands, Ready, NextChildType DEF FrameOK
  <1>5. Adds(Top.node, d, p) = <<Injected(p, {})>> /\ Looked(Top.node, d, p) = {}
    <2>1. UNION {Yields(v, d) : v \in Candidate(p)} = {}
      BY <1>2
    <2> QED
      BY <1>2, <1>4, <2>1 DEF Adds, Looked
  <1>6. /\ InjectionConflict(p) \in Seq(Diag) /\ InjectionDiags(p) \in Seq(Diag)
        /\ Injected(p, {}) \in Item
    BY <1>4, InjectionType
  <1>7. ChildSays(Said, Top.node, d, p) = Cat(InjectionConflict(p), InjectionDiags(p))
    <2>1. SayingAny(Said, Candidate(p), d) = <<>>
      BY <1>2 DEF SayingAny
    <2>2. ChildSays(Said, Top.node, d, p) = Cat(Cat(InjectionConflict(p), <<>>), InjectionDiags(p))
      BY <1>2, <1>4, <2>1 DEF ChildSays, Cat
    <2> QED
      BY <1>6, <2>2, CatEmpty
  <1>8. diags' = Cat(diags, Cat(InjectionConflict(p), InjectionDiags(p)))
    <2>1. diags' = Cat(Cat(diags, InjectionConflict(p)), InjectionDiags(p))
      BY <1>1 DEF InjectPlain, Cat
    <2> QED
      BY <1>4, <1>6, <2>1, CatAssociative
  <1>9. PICK g : g = [Past EXCEPT !.items = Append(@, Injected(p, {}))]
    OBVIOUS
  <1>10. g \in Frame /\ Stands(g, Top.kind, Top.node, Top.idx + 1, Cat(Top.items, <<Injected(p, {})>>), {}, {})
    BY <1>2, <1>4, <1>6, <1>9, PastStands
  <1> QED
    BY <1>1, <1>2, <1>3, <1>4, <1>5, <1>7, <1>8, <1>9, <1>10, WalkedPast

(* An injection whose child is resolved at once.                            *)
LEMMA InjectResolvedKeeps ==
  ASSUME ConstantsOK, IInv, RInv, InjectResolved
  PROVE  RInv'
  <1>1. PICK p : p = NextChild
    OBVIOUS
  <1>2. /\ stack # <<>> /\ incoming = {} /\ incoming' = {} /\ Top.kind = "bean" /\ HasNext
        /\ Injects(p) /\ UNCHANGED <<doc, built, result>>
    BY <1>1 DEF InjectResolved, Stepping, IInv, TypeOK
  <1>3. PICK d : d = Len(stack) - 1
    OBVIOUS
  <1>4. /\ doc[Top.node].kind = "bean" /\ Top.waiting = {} /\ Top.entry = {} /\ Top.depth = d
        /\ p \in Nodes /\ doc \in [Nodes -> Element] /\ diags \in Seq(Diag) /\ d \in 0 .. DepthLimit
    BY <1>1, <1>2, <1>3, TopStands, Ready, NextChildType DEF FrameOK, Level
  <1>5. PICK c \in Candidate(p) :
          /\ ~Descends(c, d)
          /\ stack' = WithTop([Past EXCEPT !.items = Append(@, Injected(p, Resolved(c, d)))])
          /\ diags' = diags \o InjectionConflict(p) \o ResolveDiags(c, d) \o InjectionDiags(p)
    BY <1>1, <1>4 DEF InjectResolved
  <1>6. Candidate(p) = {c} /\ c \in Nodes
    BY <1>4, CandidateType, LookedType DEF AtMostOne
  <1>7. /\ Saying(Said, c, d) = ResolveDiags(c, d) /\ Yields(c, d) = Resolved(c, d)
        /\ SayingAny(Said, {c}, d) = ResolveDiags(c, d) /\ ResolveDiags(c, d) \in Seq(Diag)
    BY <1>4, <1>5, <1>6, SayingIs
  <1>8. PICK item : item = Injected(p, Resolved(c, d))
    OBVIOUS
  <1>9. Adds(Top.node, d, p) = <<item>> /\ Looked(Top.node, d, p) = {c}
    <2>1. UNION {Yields(v, d) : v \in Candidate(p)} = Resolved(c, d)
      BY <1>6, <1>7
    <2> QED
      BY <1>2, <1>4, <1>6, <1>8, <2>1 DEF Adds, Looked
  <1>10. InjectionConflict(p) \in Seq(Diag) /\ InjectionDiags(p) \in Seq(Diag) /\ item \in Item
    <2>1. Resolved(c, d) \in SUBSET Value
      BY <1>4, <1>6, ResolveType
    <2> QED
      BY <1>4, <1>8, <2>1, InjectionType
  <1>11. ChildSays(Said, Top.node, d, p) = Cat(Cat(InjectionConflict(p), ResolveDiags(c, d)), InjectionDiags(p))
    BY <1>2, <1>4, <1>6, <1>7 DEF ChildSays, Cat
  <1>12. diags' = Cat(diags, Cat(Cat(InjectionConflict(p), ResolveDiags(c, d)), InjectionDiags(p)))
    <2>1. PICK a, b, e : a = InjectionConflict(p) /\ b = ResolveDiags(c, d) /\ e = InjectionDiags(p)
      OBVIOUS
    <2>2. diags' = Cat(Cat(Cat(diags, a), b), e)
      BY <1>5, <2>1 DEF Cat
    <2>3. a \in Seq(Diag) /\ b \in Seq(Diag) /\ e \in Seq(Diag)
      BY <1>7, <1>10, <2>1
    <2>4. Cat(a, b) \in Seq(Diag) /\ Cat(Cat(diags, a), b) = Cat(diags, Cat(a, b))
      BY <1>4, <2>3, CatType, CatAssociative
    <2>5. Cat(Cat(diags, Cat(a, b)), e) = Cat(diags, Cat(Cat(a, b), e))
      BY <1>4, <2>3, <2>4, CatAssociative
    <2> QED
      BY <2>1, <2>2, <2>4, <2>5
  <1>13. PICK g : g = [Past EXCEPT !.items = Append(@, item)]
    OBVIOUS
  <1>14. g \in Frame /\ Stands(g, Top.kind, Top.node, Top.idx + 1, Cat(Top.items, <<item>>), {}, {})
    BY <1>2, <1>4, <1>10, <1>13, PastStands
  <1>15. stack' = WithTop(g)
    BY <1>5, <1>8, <1>13
  <1> QED
    BY <1>1, <1>2, <1>3, <1>4, <1>5, <1>9, <1>11, <1>12, <1>14, <1>15, WalkedPast

(* An item that is resolved at once.                                        *)
LEMMA ItemResolvedKeeps ==
  ASSUME ConstantsOK, IInv, RInv, ItemResolved
  PROVE  RInv'
  <1>1. PICK c : c = NextChild
    OBVIOUS
  <1>2. /\ stack # <<>> /\ incoming = {} /\ incoming' = {} /\ Top.kind = "list" /\ HasNext
        /\ UNCHANGED <<doc, built, result>>
    BY DEF ItemResolved, Stepping, IInv, TypeOK
  <1>3. PICK d : d = Len(stack) - 1
    OBVIOUS
  <1>4. /\ doc[Top.node].kind = "list" /\ Top.waiting = {} /\ Top.entry = {} /\ Top.depth + 1 = d
        /\ c \in Nodes /\ doc \in [Nodes -> Element] /\ diags \in Seq(Diag) /\ d \in 0 .. DepthLimit
    BY <1>1, <1>2, <1>3, TopStands, Ready, NextChildType DEF FrameOK, Level
  <1>5. /\ ~Descends(c, d)
        /\ stack' = WithTop(Gathered(Past, c, Resolved(c, d)))
        /\ diags' = Cat(diags, ResolveDiags(c, d))
    BY <1>1, <1>4 DEF ItemResolved, Cat
  <1>6. Saying(Said, c, d) = ResolveDiags(c, d) /\ Yields(c, d) = Resolved(c, d)
    BY <1>4, <1>5, SayingIs
  <1>7. ChildSays(Said, Top.node, d, c) = ResolveDiags(c, d) /\ Looked(Top.node, d, c) = {c}
    BY <1>4, <1>6 DEF ChildSays, Looked
  <1>8. CASE Resolved(c, d) = {}
    <2>1. Adds(Top.node, d, c) = <<>>
      BY <1>4, <1>6, <1>8 DEF Adds
    <2>2. stack' = WithTop(Past)
      BY <1>5, <1>8 DEF Gathered
    <2>3. Past \in Frame /\ Stands(Past, Top.kind, Top.node, Top.idx + 1, Cat(Top.items, <<>>), {}, {})
      BY <1>2, <1>4, PastStands
    <2> QED
      BY <1>1, <1>2, <1>3, <1>4, <1>5, <1>7, <2>1, <2>2, <2>3, WalkedPast
  <1>9. CASE Resolved(c, d) # {}
    <2>1. PICK item : item = Entering("item", c, CHOOSE v \in Resolved(c, d) : TRUE)
      OBVIOUS
    <2>2. Adds(Top.node, d, c) = <<item>>
      BY <1>4, <1>6, <1>9, <2>1 DEF Adds
    <2>3. item \in Item
      <3>1. (CHOOSE v \in Resolved(c, d) : TRUE) \in Value
        BY <1>4, <1>9, ResolveType
      <3> QED
        BY <1>4, <2>1, <3>1, EnteringType
    <2>4. PICK g : g = [Past EXCEPT !.items = Append(@, item)]
      OBVIOUS
    <2>5. g \in Frame /\ Stands(g, Top.kind, Top.node, Top.idx + 1, Cat(Top.items, <<item>>), {}, {})
      BY <1>2, <1>4, <2>3, <2>4, PastStands
    <2>6. stack' = WithTop(g)
      BY <1>5, <1>9, <2>1, <2>4 DEF Gathered
    <2> QED
      BY <1>1, <1>2, <1>3, <1>4, <1>5, <1>7, <2>2, <2>5, <2>6, WalkedPast
  <1> QED
    BY <1>8, <1>9
-----------------------------------------------------------------------------
(* The steps that put a child off, and the ones that have it back.          *)

(* One element alone, and an injection at most that is waited for.          *)
One(S, v)      == S = {v}
AwaitsAt(w, p) == \A q \in w : q = p /\ Injects(q)

(* c is the child at i + 1.                                                 *)
IsNext(n, i, j, c) == i \in Nat /\ j = i + 1 /\ j \in 1 .. Len(Kids(n)) /\ c = Kids(n)[j]

(* What is said of c: said, then the call for v, then the rest of the slot.   *)
Splits(n, d, c, said, v, slot) == ChildSays(Said, n, d, c) = Cat(Cat(said, Said[d + 1][v]), slot)
HasLeft(w, d, slot) == slot = SlotLeft(w, {}, d)

(* A frame that takes its next child, and waits for it, fits; it is short   *)
(* of what that child adds.                                                 *)
LEMMA EnterFits ==
  ASSUME ConstantsOK, doc \in [Nodes -> Element], NEW d \in 0 .. DepthLimit,
         NEW n \in Nodes, NEW j \in 1 .. Len(Kids(n)), NEW i \in Nat, j = i + 1,
         NEW kind, NEW items \in Seq(Item), NEW f, Stands(f, kind, n, i, items, {}, {}),
         FrameFits(f, d), Whole(f, d), NEW c, c = Kids(n)[j],
         NEW w, AwaitsAt(w, c), NEW g, Stands(g, kind, n, j, items, w, {})
  PROVE  FrameFits(g, d) /\ Short(g, d)
  <1>1. PICK all : all = Gathers(n, d)
    OBVIOUS
  <1>2. FrameFits(g, d)
    <2>1. kind = doc[n].kind
      BY StandsFits
    <2>2. j <= Len(Kids(n)) /\ j > 0 /\ \A p \in w : p = Kids(n)[j] /\ Injects(p)
      BY ElementType, LenProperties DEF AwaitsAt
    <2> QED
      BY <2>1, <2>2, StandsFits
  <1>3. Short(g, d)
    <2>1. Cat(items, AddFrom(n, d, j)) = all
      BY <1>1, StandsGathers
    <2>2. j > 0
      BY ElementType, LenProperties
    <2> QED
      BY <1>1, <2>1, <2>2, StandsGathers
  <1> QED
    BY <1>2, <1>3

(* Taking a child splits what the frame had left to say: what is said at    *)
(* once, what the call for v will say, and the rest.                        *)
LEMMA EnterSays ==
  ASSUME ConstantsOK, doc \in [Nodes -> Element], NEW d \in 0 .. DepthLimit,
         NEW n \in Nodes, NEW i, NEW j, NEW c, IsNext(n, i, j, c),
         NEW kind, NEW items, NEW f, Stands(f, kind, n, i, items, {}, {}),
         NEW v \in Nodes, Descends(v, d),
         NEW w, NEW g, Stands(g, kind, n, j, items, w, {}),
         NEW said \in Seq(Diag), NEW slot \in Seq(Diag), HasLeft(w, d, slot),
         Splits(n, d, c, said, v, slot)
  PROVE  LeftToSay(f, d) = Cat(said, Cat(Said[d + 1][v], LeftToSay(g, d)))
  <1>1. PICK inside, rest : inside = Said[d + 1][v] /\ rest = SayFrom(n, d, j + 1)
    OBVIOUS
  <1>2. /\ SayFrom(n, d, j) = Cat(ChildSays(Said, n, d, c), rest)
        /\ SayFrom(n, d, j) \in Seq(Diag) /\ rest \in Seq(Diag)
    BY <1>1, NextSays DEF IsNext
  <1>3. inside \in Seq(Diag)
    BY <1>1, SayingIs
  <1>4. LeftToSay(f, d) = Cat(<<>>, SayFrom(n, d, j)) /\ LeftToSay(g, d) = Cat(slot, rest)
    BY <1>1, StandsSays, SlotEmpty DEF HasLeft, IsNext
  <1>5. LeftToSay(f, d) = Cat(Cat(Cat(said, inside), slot), rest)
    BY <1>1, <1>2, <1>4, CatEmpty DEF Splits
  <1>6. Cat(said, inside) \in Seq(Diag) /\ Cat(slot, rest) \in Seq(Diag)
    BY <1>2, <1>3, CatType
  <1>7. Cat(Cat(Cat(said, inside), slot), rest) = Cat(Cat(said, inside), Cat(slot, rest))
    BY <1>2, <1>6, CatAssociative
  <1>8. Cat(Cat(said, inside), Cat(slot, rest)) = Cat(said, Cat(inside, Cat(slot, rest)))
    BY <1>3, <1>6, CatAssociative
  <1> QED
    BY <1>1, <1>4, <1>5, <1>7, <1>8

(* A child in which one element is called for has that call, and the frame  *)
(* has those of the children after it.                                      *)
LEMMA OneLooked ==
  ASSUME ConstantsOK, doc \in [Nodes -> Element], NEW d \in 0 .. DepthLimit,
         NEW n \in Nodes, NEW i \in 1 .. Len(Kids(n)),
         NEW c, c = Kids(n)[i], NEW v \in Nodes, Descends(v, d), One(Looked(n, d, c), v)
  PROVE  Calls(LookFrom(n, d, i), d) = Both(Calls(LookFrom(n, d, i + 1), d), Facts[d + 1][v])
  <1>1. LookFrom(n, d, i) = Both(LookFrom(n, d, i + 1), Looked(n, d, c))
    BY NextLooks
  <1>2. LookFrom(n, d, i) = Both(LookFrom(n, d, i + 1), {v})
    BY <1>1 DEF One
  <1> QED
    BY <1>2, OneCall DEF Both

(* The same split of what is left to gather.                                *)
LEMMA EnterGathers ==
  ASSUME ConstantsOK, doc \in [Nodes -> Element], NEW d \in 0 .. DepthLimit,
         NEW n \in Nodes, NEW i, NEW j, NEW c, IsNext(n, i, j, c),
         NEW kind, NEW items, NEW f, Stands(f, kind, n, i, items, {}, {}),
         NEW v \in Nodes, Descends(v, d), One(Looked(n, d, c), v),
         NEW w, NEW g, Stands(g, kind, n, j, items, w, {})
  PROVE  LeftToGather(f, d) = Both(LeftToGather(g, d), Facts[d + 1][v])
  <1>1. PICK all : all = Gathers(n, d)
    OBVIOUS
  <1>2. Calls(LookFrom(n, d, j), d) = Calls(LookFrom(n, d, j + 1), d) \cup Facts[d + 1][v]
    <2>1. j \in 1 .. Len(Kids(n)) /\ c = Kids(n)[j]
      BY DEF IsNext
    <2>2. Calls(LookFrom(n, d, j), d) = Both(Calls(LookFrom(n, d, j + 1), d), Facts[d + 1][v])
      BY <2>1, OneLooked
    <2> QED
      BY <2>2 DEF Both
  <1>3. /\ LeftToGather(f, d) = {[node |-> n, items |-> all]} \cup Calls(Looks(n, d, j, {}), d)
        /\ LeftToGather(g, d) = {[node |-> n, items |-> all]} \cup Calls(Looks(n, d, j + 1, {}), d)
    BY <1>1, StandsLooks DEF IsNext
  <1>4. Looks(n, d, j, {}) = LookFrom(n, d, j) /\ Looks(n, d, j + 1, {}) = LookFrom(n, d, j + 1)
    BY DEF Looks
  <1> QED
    BY <1>2, <1>3, <1>4 DEF Both

(* RInv is kept by a child for which a frame is pushed: the new frame takes *)
(* over the part of what was left that its call makes.                      *)
LEMMA EnteredNext ==
  ASSUME ConstantsOK, IInv, RInv, stack # <<>>, incoming = {}, incoming' = {},
         UNCHANGED <<doc, built, result>>, Top.entry = {}, HasNext,
         NEW d, d = Len(stack) - 1, NEW v \in Nodes, Descends(v, d),
         One(Looked(Top.node, d, NextChild), v), NEW w, AwaitsAt(w, NextChild),
         NEW g \in Frame, Stands(g, Top.kind, Top.node, Top.idx + 1, Top.items, w, {}),
         NEW depth \in Nat, Push(g, v, depth),
         NEW said \in Seq(Diag), diags' = Cat(diags, said),
         NEW slot \in Seq(Diag), HasLeft(w, d, slot),
         Splits(Top.node, d, NextChild, said, v, slot)
  PROVE  RInv'
  <1>1. /\ d \in 0 .. DepthLimit /\ doc \in [Nodes -> Element] /\ Top.node \in Nodes
        /\ Top.items \in Seq(Item) /\ Top.idx \in Nat /\ Len(Kids(Top.node)) \in Nat
        /\ FrameFits(Top, d) /\ Whole(Top, d)
        /\ Stands(Top, Top.kind, Top.node, Top.idx, Top.items, {}, {})
    BY TopStands
  <1>2. Top.idx + 1 \in 1 .. Len(Kids(Top.node)) /\ NextChild = Kids(Top.node)[Top.idx + 1]
    BY <1>1 DEF HasNext, NextChild
  <1>3. PICK f, kind, n, i, items, c :
          f = Top /\ kind = Top.kind /\ n = Top.node /\ i = Top.idx /\ items = Top.items /\ c = NextChild
    OBVIOUS
  <1>4. PICK j : j = i + 1
    OBVIOUS
  <1>5. n \in Nodes /\ i \in Nat /\ j \in 1 .. Len(Kids(n)) /\ items \in Seq(Item) /\ c = Kids(n)[j] /\ j = i + 1
        /\ IsNext(n, i, j, c)
    BY <1>1, <1>2, <1>3, <1>4 DEF IsNext
  <1>6. Stands(f, kind, n, i, items, {}, {}) /\ Stands(g, kind, n, j, items, w, {})
    BY <1>1, <1>3, <1>4
  <1>7. FrameFits(f, d) /\ Whole(f, d) /\ One(Looked(n, d, c), v) /\ AwaitsAt(w, c)
    BY <1>1, <1>3
  <1>9. Splits(n, d, c, said, v, slot)
    BY <1>3
  <1>10. FrameFits(g, d) /\ Short(g, d)
    BY <1>1, <1>5, <1>6, <1>7, EnterFits
  <1>11. LeftToSay(f, d) = Cat(said, Cat(Said[d + 1][v], LeftToSay(g, d)))
    BY <1>1, <1>5, <1>6, <1>9, EnterSays
  <1>12. LeftToGather(f, d) = Both(LeftToGather(g, d), Facts[d + 1][v])
    BY <1>1, <1>5, <1>6, <1>7, EnterGathers
  <1>13. g.node = Top.node
    BY DEF Stands
  <1> QED
    BY <1>3, <1>10, <1>11, <1>12, <1>13, Entered DEF Short, Both

(* An item that is put off.                                                 *)
LEMMA ItemDeferredKeeps ==
  ASSUME ConstantsOK, IInv, RInv, ItemDeferred
  PROVE  RInv'
  <1>1. PICK c : c = NextChild
    OBVIOUS
  <1>2. /\ stack # <<>> /\ incoming = {} /\ incoming' = {} /\ Top.kind = "list" /\ HasNext
        /\ UNCHANGED <<doc, built, result>>
    BY DEF ItemDeferred, Stepping, IInv, TypeOK
  <1>3. PICK d : d = Len(stack) - 1
    OBVIOUS
  <1>4. /\ doc[Top.node].kind = "list" /\ Top.waiting = {} /\ Top.entry = {} /\ Top.depth + 1 = d
        /\ c \in Nodes /\ doc \in [Nodes -> Element] /\ d \in 0 .. DepthLimit /\ d \in Nat
    BY <1>1, <1>2, <1>3, TopStands, Ready, NextChildType DEF FrameOK, Level
  <1>5. /\ Descends(c, d) /\ Push(Past, c, d)
        /\ diags' = Cat(diags, ResolveDiags(c, d))
    BY <1>1, <1>4 DEF ItemDeferred, Cat
  <1>6. /\ Saying(Said, c, d) = Cat(ResolveDiags(c, d), Said[d + 1][c])
        /\ ResolveDiags(c, d) \in Seq(Diag) /\ Said[d + 1][c] \in Seq(Diag)
    BY <1>4, <1>5, SayingIs
  <1>7. PICK slot : slot = <<>>
    OBVIOUS
  <1>8. /\ Splits(Top.node, d, c, ResolveDiags(c, d), c, slot)
        /\ One(Looked(Top.node, d, c), c) /\ HasLeft({}, d, slot) /\ slot \in Seq(Diag)
        /\ AwaitsAt({}, c)
    <2>1. ChildSays(Said, Top.node, d, c) = Cat(ResolveDiags(c, d), Said[d + 1][c])
      BY <1>4, <1>6 DEF ChildSays
    <2>2. Cat(ResolveDiags(c, d), Said[d + 1][c]) \in Seq(Diag)
      BY <1>6, CatType
    <2> QED
      BY <1>4, <1>7, <2>1, <2>2, CatEmpty, SlotEmpty DEF Looked, One, AwaitsAt, Splits, HasLeft
  <1>9. Past \in Frame /\ Stands(Past, Top.kind, Top.node, Top.idx + 1, Top.items, {}, {})
    BY <1>2, <1>4, PastStands
  <1> QED
    BY <1>1, <1>2, <1>3, <1>4, <1>5, <1>6, <1>8, <1>9, EnteredNext

(* An injection whose child is put off.                                     *)
LEMMA InjectDeferredKeeps ==
  ASSUME ConstantsOK, IInv, RInv, InjectDeferred
  PROVE  RInv'
  <1>1. PICK p : p = NextChild
    OBVIOUS
  <1>2. /\ stack # <<>> /\ incoming = {} /\ incoming' = {} /\ Top.kind = "bean" /\ HasNext
        /\ Injects(p) /\ UNCHANGED <<doc, built, result>>
    BY <1>1 DEF InjectDeferred, Stepping, IInv, TypeOK
  <1>3. PICK d : d = Len(stack) - 1
    OBVIOUS
  <1>4. /\ doc[Top.node].kind = "bean" /\ Top.waiting = {} /\ Top.entry = {} /\ Top.depth = d
        /\ p \in Nodes /\ doc \in [Nodes -> Element] /\ diags \in Seq(Diag)
        /\ d \in 0 .. DepthLimit /\ d \in Nat
    BY <1>1, <1>2, <1>3, TopStands, Ready, NextChildType DEF FrameOK, Level
  <1>5. PICK g : g = [Past EXCEPT !.waiting = {p}]
    OBVIOUS
  <1>6. PICK v \in Candidate(p) :
          /\ Descends(v, d) /\ Push(g, v, d)
          /\ diags' = diags \o InjectionConflict(p) \o ResolveDiags(v, d)
    BY <1>1, <1>4, <1>5 DEF InjectDeferred
  <1>7. Candidate(p) = {v} /\ v \in Nodes
    BY <1>4, CandidateType, LookedType DEF AtMostOne
  <1>8. /\ SayingAny(Said, {v}, d) = Cat(ResolveDiags(v, d), Said[d + 1][v])
        /\ ResolveDiags(v, d) \in Seq(Diag) /\ Said[d + 1][v] \in Seq(Diag)
    BY <1>4, <1>6, <1>7, SayingIs
  <1>9. InjectionConflict(p) \in Seq(Diag) /\ InjectionDiags(p) \in Seq(Diag)
    BY <1>4, InjectionType
  <1>10. PICK said : said = Cat(InjectionConflict(p), ResolveDiags(v, d))
    OBVIOUS
  <1>11. said \in Seq(Diag) /\ diags' = Cat(diags, said)
    <2>1. diags' = Cat(Cat(diags, InjectionConflict(p)), ResolveDiags(v, d))
      BY <1>6 DEF Cat
    <2> QED
      BY <1>4, <1>8, <1>9, <1>10, <2>1, CatType, CatAssociative
  <1>12. Splits(Top.node, d, p, said, v, InjectionDiags(p))
    <2>1. ChildSays(Said, Top.node, d, p)
            = Cat(Cat(InjectionConflict(p), Cat(ResolveDiags(v, d), Said[d + 1][v])), InjectionDiags(p))
      BY <1>2, <1>4, <1>7, <1>8 DEF ChildSays, Cat
    <2>2. Cat(InjectionConflict(p), Cat(ResolveDiags(v, d), Said[d + 1][v])) = Cat(said, Said[d + 1][v])
      BY <1>8, <1>9, <1>10, CatAssociative
    <2> QED
      BY <2>1, <2>2 DEF Splits
  <1>13. One(Looked(Top.node, d, p), v) /\ AwaitsAt({p}, p)
    BY <1>2, <1>4, <1>7 DEF Looked, One, AwaitsAt
  <1>14. HasLeft({p}, d, InjectionDiags(p))
    <2>1. The({p}) = p
      BY DEF The
    <2> QED
      BY <2>1 DEF SlotLeft, HasLeft
  <1>15. g \in Frame /\ Stands(g, Top.kind, Top.node, Top.idx + 1, Top.items, {p}, {})
    <2>1. Past \in Frame /\ Stands(Past, Top.kind, Top.node, Top.idx + 1, Top.items, {}, {})
      BY <1>2, <1>4, PastStands
    <2> QED
      BY <1>4, <1>5, <2>1 DEF Frame, Stands
  <1> QED
    BY <1>1, <1>2, <1>3, <1>4, <1>6, <1>7, <1>9, <1>11, <1>12, <1>13, <1>14, <1>15, EnteredNext

(* c is the child at i, and adds more.                                      *)
IsChild(n, i, c) == i \in 1 .. Len(Kids(n)) /\ c = Kids(n)[i]
Gives(n, d, c, more) == more = Adds(n, d, c)

(* A frame that has back what it was waiting for.                           *)
LEMMA BackFits ==
  ASSUME ConstantsOK, doc \in [Nodes -> Element], NEW d \in 0 .. DepthLimit,
         NEW n \in Nodes, NEW i, NEW c, IsChild(n, i, c),
         NEW kind, NEW items \in Seq(Item), NEW w, NEW f, Stands(f, kind, n, i, items, w, {}),
         FrameFits(f, d), Short(f, d), NEW more, Gives(n, d, c, more),
         NEW g, Stands(g, kind, n, i, Cat(items, more), {}, {})
  PROVE  FrameFits(g, d) /\ Whole(g, d)
  <1>1. PICK all : all = Gathers(n, d)
    OBVIOUS
  <1>2. i \in 1 .. Len(Kids(n)) /\ c = Kids(n)[i]
    BY DEF IsChild
  <1>3. /\ AddFrom(n, d, i) = Cat(more, AddFrom(n, d, i + 1))
        /\ more \in Seq(Item) /\ AddFrom(n, d, i + 1) \in Seq(Item)
    BY <1>2, NextAdds DEF Gives
  <1>4. FrameFits(g, d)
    <2>1. kind = doc[n].kind /\ i <= Len(Kids(n))
      BY StandsFits
    <2> QED
      BY <2>1, StandsFits
  <1>5. Whole(g, d)
    <2>1. Cat(items, AddFrom(n, d, i)) = all
      BY <1>1, StandsGathers
    <2>2. Cat(Cat(items, more), AddFrom(n, d, i + 1)) = all
      BY <1>3, <2>1, CatAssociative
    <2> QED
      BY <1>1, <2>2, StandsGathers
  <1> QED
    BY <1>4, <1>5

(* A frame that gets its value back says the rest of the child it was at,   *)
(* and has the same calls left.                                             *)
LEMMA BackLeaves ==
  ASSUME ConstantsOK, doc \in [Nodes -> Element], NEW d \in 0 .. DepthLimit,
         NEW n \in Nodes, NEW i, NEW c, IsChild(n, i, c),
         NEW kind, NEW items, NEW more, NEW w, NEW f, Stands(f, kind, n, i, items, w, {}),
         NEW g, Stands(g, kind, n, i, more, {}, {}),
         NEW slot \in Seq(Diag), HasLeft(w, d, slot)
  PROVE  /\ LeftToSay(f, d) = Cat(slot, LeftToSay(g, d))
         /\ LeftToGather(g, d) = LeftToGather(f, d)
  <1>1. i \in 1 .. Len(Kids(n))
    BY DEF IsChild
  <1>2. SayFrom(n, d, i + 1) \in Seq(Diag)
    BY <1>1, NextSays
  <1>3. /\ LeftToSay(f, d) = Cat(slot, SayFrom(n, d, i + 1))
        /\ LeftToSay(g, d) = Cat(<<>>, SayFrom(n, d, i + 1))
    BY StandsSays, SlotEmpty DEF HasLeft
  <1>4. LeftToGather(g, d) = LeftToGather(f, d)
    <2>1. PICK own : own = [node |-> n, items |-> Gathers(n, d)]
      OBVIOUS
    <2>2. LeftToGather(f, d) = {own} \cup Calls(Looks(n, d, i + 1, {}), d)
      BY <2>1, StandsLooks
    <2>3. LeftToGather(g, d) = {own} \cup Calls(Looks(n, d, i + 1, {}), d)
      BY <2>1, StandsLooks
    <2> QED
      BY <2>2, <2>3
  <1> QED
    BY <1>2, <1>3, <1>4, CatEmpty

(* RInv is kept by a delivery to a bean or a list: the value is added, and  *)
(* what the child says after it is said.                                    *)
LEMMA WalkedBack ==
  ASSUME ConstantsOK, IInv, RInv, stack # <<>>, incoming # {}, incoming' = {},
         UNCHANGED <<doc, built, result>>, Top.entry = {},
         NEW d, d = Len(stack) - 1, NEW c, IsChild(Top.node, Top.idx, c),
         NEW more, Gives(Top.node, d, c, more),
         NEW g \in Frame, Stands(g, Top.kind, Top.node, Top.idx, Cat(Top.items, more), {}, {}),
         stack' = WithTop(g),
         NEW slot \in Seq(Diag), HasLeft(Top.waiting, d, slot), diags' = Cat(diags, slot)
  PROVE  RInv'
  <1>1. /\ d \in 0 .. DepthLimit /\ doc \in [Nodes -> Element] /\ Top.node \in Nodes
        /\ Top.items \in Seq(Item) /\ FrameFits(Top, d) /\ Short(Top, d)
        /\ Stands(Top, Top.kind, Top.node, Top.idx, Top.items, Top.waiting, {})
    BY TopStands
  <1>2. PICK f, kind, n, i, items, w :
          /\ f = Top /\ kind = Top.kind /\ n = Top.node /\ i = Top.idx
          /\ items = Top.items /\ w = Top.waiting
    OBVIOUS
  <1>3. n \in Nodes /\ IsChild(n, i, c) /\ items \in Seq(Item) /\ Gives(n, d, c, more)
    BY <1>1, <1>2
  <1>4. /\ Stands(f, kind, n, i, items, w, {}) /\ Stands(g, kind, n, i, Cat(items, more), {}, {})
        /\ FrameFits(f, d) /\ Short(f, d) /\ HasLeft(w, d, slot)
    BY <1>1, <1>2
  <1>5. FrameFits(g, d) /\ Whole(g, d)
    BY <1>1, <1>3, <1>4, BackFits
  <1>6. /\ LeftToSay(f, d) = Cat(slot, LeftToSay(g, d))
        /\ LeftToGather(g, d) = LeftToGather(f, d)
    BY <1>1, <1>3, <1>4, BackLeaves
  <1>7. g.node = Top.node
    BY DEF Stands
  <1> QED
    BY <1>2, <1>5, <1>6, <1>7, Walked DEF Whole

(* The value that comes in is the value of the element it was read from.    *)
LEMMA ComesIn ==
  ASSUME ConstantsOK, IInv, RInv, stack # <<>>, NEW d, d = Len(stack) - 1, NEW v \in incoming
  PROVE  /\ v.node \in Nodes /\ v \in Value /\ v.node \in Awaited(Top)
         /\ Descends(v.node, d) /\ Yields(v.node, d) = {v}
  <1>1. v \in Value /\ v.node \in Awaited(Top)
    BY Ready DEF IInv, Handshake
  <1>2. v.node \in Nodes
    BY <1>1 DEF Value
  <1>3. v = Val(Form(v.node), v.node) /\ Descends(v.node, d)
    BY DEF RInv
  <1>4. Yields(v.node, d) = {Val(Form(v.node), v.node)}
    BY <1>3 DEF Yields
  <1> QED
    BY <1>1, <1>2, <1>3, <1>4

(* An item that comes in.                                                   *)
LEMMA ItemDeliveredKeeps ==
  ASSUME ConstantsOK, IInv, RInv, ItemDelivered
  PROVE  RInv'
  <1>1. /\ stack # <<>> /\ incoming # {} /\ incoming' = {} /\ Top.kind = "list"
        /\ UNCHANGED <<doc, diags, built, result>>
    BY DEF ItemDelivered, Delivering, IInv, TypeOK
  <1>2. PICK d : d = Len(stack) - 1
    OBVIOUS
  <1>3. /\ doc[Top.node].kind = "list" /\ Top.waiting = {} /\ Top.entry = {}
        /\ Top \in Frame /\ Top.items \in Seq(Item) /\ Top.idx \in Nat /\ diags \in Seq(Diag)
        /\ Top.idx <= Len(Kids(Top.node)) /\ Len(Kids(Top.node)) \in Nat
    BY <1>1, <1>2, TopStands, Ready DEF FrameOK
  <1>4. PICK v \in incoming : stack' = WithTop(Gathered(Top, v.node, {v}))
    BY DEF ItemDelivered
  <1>5. /\ v.node \in Nodes /\ v \in Value /\ v.node \in Awaited(Top) /\ Yields(v.node, d) = {v}
    BY <1>1, <1>2, ComesIn
  <1>6. IsChild(Top.node, Top.idx, v.node)
    <2>1. Top.idx # 0 /\ v.node = Kids(Top.node)[Top.idx]
      BY <1>1, <1>5 DEF Awaited
    <2>2. Top.idx \in 1 .. Len(Kids(Top.node))
      BY <1>3, <2>1
    <2> QED
      BY <2>1, <2>2 DEF IsChild
  <1>7. PICK item : item = Entering("item", v.node, v)
    OBVIOUS
  <1>8. item \in Item
    BY <1>5, <1>7, EnteringType
  <1>9. PICK items : items = Append(Top.items, item)
    OBVIOUS
  <1>10. items \in Seq(Item) /\ items = Cat(Top.items, <<item>>)
    BY <1>3, <1>8, <1>9, AppendProperties, AppendIsCat
  <1>11. PICK g : g = [Top EXCEPT !.items = items]
    OBVIOUS
  <1>12. stack' = WithTop(g)
    <2>1. (CHOOSE w \in {v} : TRUE) = v
      OBVIOUS
    <2>2. Gathered(Top, v.node, {v}) = g
      BY <1>7, <1>9, <1>11, <2>1 DEF Gathered
    <2> QED
      BY <1>4, <2>2
  <1>13. g \in Frame /\ Stands(g, Top.kind, Top.node, Top.idx, Cat(Top.items, <<item>>), {}, {})
    <2>1. /\ g \in Frame /\ g.kind = Top.kind /\ g.node = Top.node
          /\ g.waiting = {} /\ g.entry = {} /\ g.idx = Top.idx
      BY <1>3, <1>10, <1>11, ItemsChanged
    <2>2. g.items = items
      BY <1>3, <1>11 DEF Frame
    <2> QED
      BY <1>10, <2>1, <2>2 DEF Stands
  <1>14. Gives(Top.node, d, v.node, <<item>>)
    <2>1. (CHOOSE w \in {v} : TRUE) = v
      OBVIOUS
    <2>2. Yields(v.node, d) # {} /\ (CHOOSE w \in Yields(v.node, d) : TRUE) = v
      BY <1>5, <2>1
    <2> QED
      BY <1>3, <1>7, <2>2 DEF Adds, Gives
  <1>15. PICK slot : slot = <<>>
    OBVIOUS
  <1>16. slot \in Seq(Diag) /\ HasLeft(Top.waiting, d, slot) /\ diags' = Cat(diags, slot)
    BY <1>1, <1>3, <1>15, SlotEmpty, CatEmpty DEF HasLeft
  <1> QED
    BY <1>1, <1>2, <1>3, <1>6, <1>12, <1>13, <1>14, <1>16, WalkedBack

(* The child of an injection, when its value comes in.                      *)
LEMMA InjectDeliveredKeeps ==
  ASSUME ConstantsOK, IInv, RInv, InjectDelivered
  PROVE  RInv'
  <1>1. /\ stack # <<>> /\ incoming # {} /\ incoming' = {} /\ Top.kind = "bean"
        /\ UNCHANGED <<doc, built, result>>
    BY DEF InjectDelivered, Delivering, IInv, TypeOK
  <1>2. PICK d : d = Len(stack) - 1
    OBVIOUS
  <1>3. /\ doc[Top.node].kind = "bean" /\ Top.entry = {} /\ FrameFits(Top, d)
        /\ Top \in Frame /\ Top.items \in Seq(Item) /\ Top.idx \in Nat /\ diags \in Seq(Diag)
        /\ Top.idx <= Len(Kids(Top.node)) /\ Len(Kids(Top.node)) \in Nat
        /\ Top.waiting \in SUBSET Nodes /\ doc \in [Nodes -> Element] /\ AtMostOne(Top.waiting)
    BY <1>1, <1>2, TopStands, Ready DEF FrameOK
  <1>4. PICK v \in incoming, p \in Top.waiting :
          /\ stack' = WithTop([Top EXCEPT !.waiting = {}, !.items = Append(@, Injected(p, {v}))])
          /\ diags' = diags \o InjectionDiags(p)
    BY DEF InjectDelivered
  <1>5. /\ v.node \in Nodes /\ v \in Value /\ v.node \in Awaited(Top) /\ Yields(v.node, d) = {v}
    BY <1>1, <1>2, ComesIn
  <1>6. p \in Nodes /\ Top.waiting = {p}
    BY <1>3, <1>4 DEF AtMostOne
  <1>7. Top.idx > 0 /\ p = Kids(Top.node)[Top.idx] /\ Injects(p)
    BY <1>3, <1>4 DEF FrameFits
  <1>8. IsChild(Top.node, Top.idx, p)
    BY <1>3, <1>7 DEF IsChild
  <1>9. Candidate(p) = {v.node}
    <2>1. v.node \in Candidate(p)
      BY <1>1, <1>5, <1>6 DEF Awaited
    <2>2. AtMostOne(Candidate(p))
      BY <1>3, <1>6, LookedType
    <2> QED
      BY <2>1, <2>2 DEF AtMostOne
  <1>10. PICK item : item = Injected(p, {v})
    OBVIOUS
  <1>11. item \in Item /\ InjectionDiags(p) \in Seq(Diag)
    BY <1>3, <1>5, <1>6, <1>10, InjectionType
  <1>12. PICK items : items = Append(Top.items, item)
    OBVIOUS
  <1>13. items \in Seq(Item) /\ items = Cat(Top.items, <<item>>)
    BY <1>3, <1>11, <1>12, AppendProperties, AppendIsCat
  <1>14. PICK g : g = [Top EXCEPT !.waiting = {}, !.items = items]
    OBVIOUS
  <1>15. stack' = WithTop(g)
    BY <1>3, <1>4, <1>10, <1>12, <1>14 DEF Frame
  <1>16. g \in Frame /\ Stands(g, Top.kind, Top.node, Top.idx, Cat(Top.items, <<item>>), {}, {})
    BY <1>3, <1>13, <1>14 DEF Stands, Frame
  <1>17. Gives(Top.node, d, p, <<item>>)
    <2>1. UNION {Yields(c, d) : c \in Candidate(p)} = {v}
      BY <1>5, <1>9
    <2> QED
      BY <1>3, <1>7, <1>10, <2>1 DEF Adds, Gives
  <1>18. HasLeft(Top.waiting, d, InjectionDiags(p)) /\ diags' = Cat(diags, InjectionDiags(p))
    <2>1. The({p}) = p
      BY DEF The
    <2> QED
      BY <1>4, <1>6, <2>1 DEF HasLeft, SlotLeft, Cat
  <1> QED
    BY <1>1, <1>2, <1>3, <1>8, <1>11, <1>15, <1>16, <1>17, <1>18, WalkedBack
-----------------------------------------------------------------------------
(* The children of an <entry>, and what its scan has of the first i.        *)
KeyUpTo(e, d, i) ==
  UNION {Yields(InKey(e, j), d) : j \in {k \in Earliest(Found(e, d)) : k <= i}}
ValueUpTo(e, d, i) == UNION {Yields(Kids(e)[j], d) : j \in {k \in ValueAt(e) : k <= i}}
SeenUpTo(e, i)     == \E j \in ValueAt(e) : j <= i

(* A set of positions has a first one.                                      *)
LEMMA EarliestIs ==
  ASSUME NEW n \in Nat, NEW S \in SUBSET (1 .. n)
  PROVE  /\ \A i \in S : \E j \in Earliest(S) : j <= i
         /\ \A i, j \in Earliest(S) : i = j
         /\ Earliest(S) \subseteq S
         /\ \A i \in Earliest(S) : \A j \in S : i <= j
  <1>1. ASSUME NEW i \in S PROVE \E j \in Earliest(S) : j <= i
    <2>1. PICK m \in S : \A k \in S : m <= k
      <3>1. S # {} /\ S \subseteq Nat
        BY <1>1
      <3> QED
        BY <3>1, Least
    <2> QED
      BY <2>1 DEF Earliest
  <1>2. \A i, j \in Earliest(S) : i = j
    BY DEF Earliest
  <1> QED
    BY <1>1, <1>2 DEF Earliest

(* The keys, and the first child that is none, are among the children.      *)
LEMMA EntryPlaces ==
  ASSUME doc \in [Nodes -> Element], NEW e \in Nodes, NEW d
  PROVE  /\ Len(Kids(e)) \in Nat
         /\ Found(e, d) \in SUBSET (1 .. Len(Kids(e)))
         /\ (1 .. Len(Kids(e))) \ Keys(e) \in SUBSET (1 .. Len(Kids(e)))
         /\ \A i \in Tried(e, d) : i \in 1 .. Len(Kids(e)) /\ InKey(e, i) \in Nodes
         /\ \A i \in ValueAt(e) : i \in 1 .. Len(Kids(e)) /\ Kids(e)[i] \in Nodes
         /\ \A i \in Tried(e, d) : i \notin ValueAt(e)
  <1>1. Len(Kids(e)) \in Nat
    BY ElementType, LenProperties
  <1>2. Filled(e) \subseteq Keys(e) /\ Keys(e) \subseteq 1 .. Len(Kids(e))
    BY DEF Filled, Keys
  <1>3. Found(e, d) \subseteq Filled(e) /\ Tried(e, d) \subseteq Filled(e)
    BY DEF Found, Tried
  <1>4. \A i \in ValueAt(e) : i \notin Keys(e)
    BY DEF ValueAt, Earliest
  <1> QED
    BY <1>1, <1>2, <1>3, <1>4, LookedType

(* A key is tried where there is none yet, and found where it resolves.     *)
LEMMA TriedIs ==
  ASSUME doc \in [Nodes -> Element], NEW e \in Nodes, NEW d, NEW i \in 1 .. Len(Kids(e)),
         NEW h \in Nat, i = h + 1
  PROVE  /\ i \in Tried(e, d) <=> i \in Filled(e) /\ KeyUpTo(e, d, h) = {}
         /\ i \in Tried(e, d) => KeyUpTo(e, d, i) = Yields(InKey(e, i), d)
         /\ i \notin Tried(e, d) => KeyUpTo(e, d, i) = KeyUpTo(e, d, h)
         /\ i \in Tried(e, d) /\ Yields(InKey(e, i), d) # {} => i \in Earliest(Found(e, d))
  <1>1. PICK n, F : n = Len(Kids(e)) /\ F = Found(e, d)
    OBVIOUS
  <1>2. n \in Nat /\ F \in SUBSET (1 .. n)
    BY <1>1, EntryPlaces
  <1>3. /\ \A k \in F : \E j \in Earliest(F) : j <= k
        /\ \A k, j \in Earliest(F) : k = j
        /\ Earliest(F) \subseteq F
        /\ \A k \in Earliest(F) : \A j \in F : k <= j
    BY <1>2, EarliestIs
  <1>4. i \in Tried(e, d) <=> i \in Filled(e) /\ \A j \in F : i <= j
    BY <1>1 DEF Tried
  <1>5. \A k \in F : Yields(InKey(e, k), d) # {} /\ k \in Filled(e)
    BY <1>1 DEF Found
  <1>6. \A k : k \in KeyUpTo(e, d, h) <=> \E j \in Earliest(F) : j <= h /\ k \in Yields(InKey(e, j), d)
    BY <1>1 DEF KeyUpTo
  <1>7. \A k : k \in KeyUpTo(e, d, i) <=> \E j \in Earliest(F) : j <= i /\ k \in Yields(InKey(e, j), d)
    BY <1>1 DEF KeyUpTo
  <1>8. \A j \in F : j \in Nat /\ (j <= h <=> ~(i <= j)) /\ (j <= i <=> j <= h \/ j = i)
    BY <1>2
  <1>9. KeyUpTo(e, d, h) = {} <=> \A j \in F : i <= j
    <2>1. ASSUME NEW j \in F, ~(i <= j) PROVE KeyUpTo(e, d, h) # {}
      <3>1. PICK k \in Earliest(F) : k <= j
        BY <1>3
      <3>2. k \in F /\ k <= h
        <4>1. k \in F
          BY <1>3, <3>1
        <4>2. k \in Nat /\ j \in Nat /\ j <= h
          BY <1>8, <2>1, <4>1
        <4> QED
          BY <3>1, <4>1, <4>2
      <3>3. PICK v : v \in Yields(InKey(e, k), d)
        BY <1>5, <3>2
      <3> QED
        BY <1>6, <3>2, <3>3
    <2>2. ASSUME \A j \in F : i <= j PROVE KeyUpTo(e, d, h) = {}
      BY <1>3, <1>6, <1>8, <2>2
    <2> QED
      BY <2>1, <2>2
  <1>10. ASSUME i \in Tried(e, d) PROVE KeyUpTo(e, d, i) = Yields(InKey(e, i), d)
    <2>1. \A j \in F : i <= j
      BY <1>4, <1>10
    <2>2. \A j \in Earliest(F) : j <= i <=> j = i
      BY <1>3, <1>8, <2>1
    <2>3. i \in F => i \in Earliest(F)
      BY <2>1 DEF Earliest
    <2>4. i \notin F => Yields(InKey(e, i), d) = {}
      BY <1>1, <1>4, <1>10 DEF Found
    <2>5. i \in Earliest(F) => i \in F
      BY <1>3
    <2>6. \A k : k \in KeyUpTo(e, d, i) <=> i \in Earliest(F) /\ k \in Yields(InKey(e, i), d)
      BY <1>7, <2>2
    <2> QED
      BY <2>3, <2>4, <2>5, <2>6
  <1>11. ASSUME i \notin Tried(e, d) PROVE KeyUpTo(e, d, i) = KeyUpTo(e, d, h)
    <2>1. i \notin Earliest(F)
      BY <1>3, <1>4, <1>5, <1>11
    <2>2. \A j \in Earliest(F) : j <= i <=> j <= h
      BY <1>3, <1>8, <2>1
    <2> QED
      BY <1>6, <1>7, <2>2
  <1>12. ASSUME i \in Tried(e, d), Yields(InKey(e, i), d) # {} PROVE i \in Earliest(F)
    <2>1. i \in F
      BY <1>1, <1>4, <1>12 DEF Found
    <2> QED
      BY <1>4, <1>12, <2>1 DEF Earliest
  <1> QED
    BY <1>1, <1>4, <1>9, <1>10, <1>11, <1>12

(* The value is the first child that is no <key>.                           *)
LEMMA ValueAtIs ==
  ASSUME doc \in [Nodes -> Element], NEW e \in Nodes, NEW d, NEW i \in 1 .. Len(Kids(e)),
         NEW h \in Nat, i = h + 1
  PROVE  /\ i \in ValueAt(e) <=> i \notin Keys(e) /\ ~SeenUpTo(e, h)
         /\ i \in ValueAt(e) => ValueUpTo(e, d, i) = Yields(Kids(e)[i], d) /\ SeenUpTo(e, i)
         /\ i \notin ValueAt(e) =>
              ValueUpTo(e, d, i) = ValueUpTo(e, d, h) /\ (SeenUpTo(e, i) <=> SeenUpTo(e, h))
  <1>1. PICK n, F : n = Len(Kids(e)) /\ F = (1 .. Len(Kids(e))) \ Keys(e)
    OBVIOUS
  <1>2. n \in Nat /\ F \in SUBSET (1 .. n)
    BY <1>1, EntryPlaces
  <1>3. /\ \A k \in F : \E j \in Earliest(F) : j <= k
        /\ \A k, j \in Earliest(F) : k = j
        /\ Earliest(F) \subseteq F
        /\ \A k \in Earliest(F) : \A j \in F : k <= j
    BY <1>2, EarliestIs
  <1>4. ValueAt(e) = Earliest(F) /\ (i \in F <=> i \notin Keys(e))
    BY <1>1 DEF ValueAt
  <1>5. \A j \in F : j \in Nat /\ (j <= h <=> ~(i <= j)) /\ (j <= i <=> j <= h \/ j = i)
    BY <1>2
  <1>6. i \in ValueAt(e) <=> i \notin Keys(e) /\ ~SeenUpTo(e, h)
    <2>1. ASSUME i \in Earliest(F) PROVE i \in F /\ \A j \in Earliest(F) : ~(j <= h)
      BY <1>3, <1>5, <2>1
    <2>2. ASSUME i \in F, \A j \in Earliest(F) : ~(j <= h) PROVE i \in Earliest(F)
      <3>1. PICK j \in Earliest(F) : j <= i
        BY <1>3, <2>2
      <3>2. j = i
        BY <1>3, <1>5, <2>2, <3>1
      <3> QED
        BY <3>1, <3>2
    <2> QED
      BY <1>4, <2>1, <2>2 DEF SeenUpTo
  <1>7. ASSUME i \in ValueAt(e)
        PROVE  ValueUpTo(e, d, i) = Yields(Kids(e)[i], d) /\ SeenUpTo(e, i)
    <2>1. \A j \in ValueAt(e) : j <= i <=> j = i
      BY <1>3, <1>4, <1>7
    <2>2. SeenUpTo(e, i)
      BY <1>7 DEF SeenUpTo
    <2>3. \A k : k \in ValueUpTo(e, d, i) <=> \E j \in ValueAt(e) : j <= i /\ k \in Yields(Kids(e)[j], d)
      BY DEF ValueUpTo
    <2> QED
      BY <1>7, <2>1, <2>2, <2>3
  <1>8. ASSUME i \notin ValueAt(e)
        PROVE  ValueUpTo(e, d, i) = ValueUpTo(e, d, h) /\ (SeenUpTo(e, i) <=> SeenUpTo(e, h))
    <2>1. \A j \in ValueAt(e) : j <= i <=> j <= h
      BY <1>3, <1>4, <1>5, <1>8
    <2> QED
      BY <2>1 DEF SeenUpTo, ValueUpTo
  <1> QED
    BY <1>6, <1>7, <1>8
-----------------------------------------------------------------------------
(* The scan of an entry: where it is, what it has and what it waits for.    *)
ScanAt(x, e, i, key, value, waiting) ==
  x.node = e /\ x.idx = i /\ x.key = key /\ x.value = value /\ x.waiting = waiting

(* It waits for nothing, for the key it is at, or for the value.            *)
LEMMA ScanIdle ==
  ASSUME NEW x, NEW e, NEW i, NEW key, NEW value, ScanAt(x, e, i, key, value, {}), NEW d
  PROVE  ScanFits(x, d) <=>
           /\ i <= Len(Kids(e)) /\ key = KeyUpTo(e, d, i) /\ value = ValueUpTo(e, d, i)
           /\ (x.seenValue <=> SeenUpTo(e, i))
  <1>1. x.node = e /\ x.idx = i /\ x.key = key /\ x.value = value /\ x.waiting = {}
    BY DEF ScanAt
  <1>2. \A j : (Before(x, "key", j) <=> j <= i) /\ (Before(x, "value", j) <=> j <= i)
    BY <1>1 DEF Before
  <1>3. KeySoFar(x, d) = KeyUpTo(e, d, i) /\ ValueSoFar(x, d) = ValueUpTo(e, d, i)
    BY <1>1, <1>2 DEF KeyUpTo, ValueUpTo, KeySoFar, ValueSoFar
  <1> QED
    BY <1>1, <1>3 DEF ScanFits, SeenUpTo

(* What it is for the scan of an entry to fit while it waits for the value  *)
(* of a <key>.                                                              *)
LEMMA ScanOfKey ==
  ASSUME doc \in [Nodes -> Element], NEW e \in Nodes, NEW i \in Nat, NEW h \in Nat, i = h + 1,
         NEW x, NEW key, NEW value, ScanAt(x, e, i, key, value, {"key"}), NEW d
  PROVE  ScanFits(x, d) <=>
           /\ i <= Len(Kids(e)) /\ key = KeyUpTo(e, d, h) /\ value = ValueUpTo(e, d, i)
           /\ (x.seenValue <=> SeenUpTo(e, i)) /\ i \in Earliest(Found(e, d))
  <1>1. x.node = e /\ x.idx = i /\ x.key = key /\ x.value = value /\ x.waiting = {"key"}
        /\ x.waiting # {"value"}
    BY DEF ScanAt
  <1>2. \A j : (Before(x, "key", j) <=> j <= i /\ j < i) /\ (Before(x, "value", j) <=> j <= i)
    BY <1>1 DEF Before
  <1>3. \A j \in Found(e, d) : Before(x, "key", j) <=> j <= h
    <2>1. \A j \in Found(e, d) : j \in Nat
      BY EntryPlaces
    <2> QED
      BY <1>2, <2>1
  <1>4. KeySoFar(x, d) = KeyUpTo(e, d, h) /\ ValueSoFar(x, d) = ValueUpTo(e, d, i)
    <2>1. \A j \in Earliest(Found(e, d)) : Before(x, "key", j) <=> j <= h
      BY <1>3 DEF Earliest
    <2> QED
      BY <1>1, <1>2, <2>1 DEF KeyUpTo, ValueUpTo, KeySoFar, ValueSoFar
  <1> QED
    BY <1>1, <1>4 DEF ScanFits, SeenUpTo

(* The same while it waits for the value of the entry.                      *)
LEMMA ScanOfValue ==
  ASSUME doc \in [Nodes -> Element], NEW e \in Nodes, NEW i \in Nat, NEW h \in Nat, i = h + 1,
         NEW x, NEW key, NEW value, ScanAt(x, e, i, key, value, {"value"}), NEW d
  PROVE  ScanFits(x, d) <=>
           /\ i <= Len(Kids(e)) /\ key = KeyUpTo(e, d, i) /\ value = ValueUpTo(e, d, h)
           /\ (x.seenValue <=> SeenUpTo(e, i)) /\ i \in ValueAt(e)
  <1>1. x.node = e /\ x.idx = i /\ x.key = key /\ x.value = value /\ x.waiting = {"value"}
        /\ x.waiting # {"key"}
    BY DEF ScanAt
  <1>2. \A j : (Before(x, "value", j) <=> j <= i /\ j < i) /\ (Before(x, "key", j) <=> j <= i)
    BY <1>1 DEF Before
  <1>3. \A j \in ValueAt(e) : Before(x, "value", j) <=> j <= h
    <2>1. \A j \in ValueAt(e) : j \in Nat
      BY EntryPlaces
    <2> QED
      BY <1>2, <2>1
  <1>4. KeySoFar(x, d) = KeyUpTo(e, d, i) /\ ValueSoFar(x, d) = ValueUpTo(e, d, h)
    BY <1>1, <1>2, <1>3 DEF KeyUpTo, ValueUpTo, KeySoFar, ValueSoFar
  <1> QED
    BY <1>1, <1>4 DEF ScanFits, SeenUpTo

(* What the rest of an entry says and asks for, from its next child.        *)
LEMMA RestIs ==
  ASSUME NEW x, NEW e, NEW i, NEW key, NEW value, NEW w, ScanAt(x, e, i, key, value, w), NEW d
  PROVE  RestOfEntry(x, d) = Cat(TellFrom(e, d, i + 1), MapEntryDiags(e))
  BY DEF ScanAt, RestOfEntry, TellFrom, Cat

(* What an entry has left to say from its child i on: all of it at the      *)
(* first, and only the entry's own after the last.                          *)
LEMMA RestType ==
  ASSUME ConstantsOK, doc \in [Nodes -> Element], NEW d \in 0 .. DepthLimit, NEW e \in Nodes,
         NEW i \in 1 .. Len(Kids(e)) + 1
  PROVE  /\ TellFrom(e, d, i) \in Seq(Diag) /\ MapEntryDiags(e) \in Seq(Diag)
         /\ Cat(TellFrom(e, d, i), MapEntryDiags(e)) \in Seq(Diag)
         /\ TellFrom(e, d, Len(Kids(e)) + 1) = <<>>
         /\ TellFrom(e, d, 1) = Joined(EntrySays(Said, e, d), Len(Kids(e)))
         /\ AskFrom(e, d, Len(Kids(e)) + 1) = {}
  <1>1. PICK m, s : m = Len(Kids(e)) /\ s = EntrySays(Said, e, d)
    OBVIOUS
  <1>2. m \in Nat
    BY <1>1, ElementType, LenProperties
  <1>3. \A k \in 1 .. m : s[k] \in Seq(Diag)
    BY <1>1, SaidTyped, SaysType
  <1>4. /\ \A k \in 1 .. m + 1 : Onward(s, m)[k] \in Seq(Diag)
        /\ Onward(s, m)[m + 1] = <<>>
    BY <1>2, <1>3, OnwardReads
  <1>5. MapEntryDiags(e) \in Seq(Diag)
    BY MapEntryType
  <1>6. TellFrom(e, d, i) \in Seq(Diag)
    BY <1>1, <1>4 DEF TellFrom
  <1>7. TellFrom(e, d, Len(Kids(e)) + 1) = <<>>
    BY <1>1, <1>4 DEF TellFrom
  <1>8. TellFrom(e, d, 1) = Joined(EntrySays(Said, e, d), Len(Kids(e)))
    BY DEF TellFrom, Joined
  <1>9. AskFrom(e, d, Len(Kids(e)) + 1) = {}
    <2>1. m + 1 .. m = {}
      BY <1>2
    <2> QED
      BY <1>1, <2>1 DEF AskFrom
  <1> QED
    BY <1>5, <1>6, <1>7, <1>8, <1>9, CatType

(* A map in an entry, with the scan at the next child i of the entry.       *)
EntryLooks(n, d, i, e, h) == Both(LookFrom(n, d, i), AskFrom(e, d, h))
EntrySaysFrom(n, d, i, e, h) == Cat(Cat(TellFrom(e, d, h), MapEntryDiags(e)), SayFrom(n, d, i))
Own(n, d) == [node |-> n, items |-> Gathers(n, d)]

(* What a map has left to say while it scans an entry: the rest of the      *)
(* entry, then its other children.                                          *)
LEMMA ScanningSays ==
  ASSUME NEW f, NEW kind, NEW n, NEW i, NEW items, NEW x, Stands(f, kind, n, i, items, {}, {x}),
         NEW e, NEW h, NEW key, NEW value, NEW w, ScanAt(x, e, h, key, value, w), NEW d
  PROVE  LeftToSay(f, d) = EntrySaysFrom(n, d, i + 1, e, h + 1)
  <1>1. LeftToSay(f, d) = Cat(SlotLeft({}, {x}, d), SayFrom(n, d, i + 1))
    BY StandsSays
  <1>2. The({x}) = x
    BY DEF The
  <1>3. SlotLeft({}, {x}, d) = RestOfEntry(x, d)
    BY <1>2 DEF SlotLeft
  <1>4. RestOfEntry(x, d) = Cat(TellFrom(e, d, h + 1), MapEntryDiags(e))
    BY RestIs
  <1> QED
    BY <1>1, <1>3, <1>4 DEF EntrySaysFrom

(* What a map has left to gather while it scans an entry.                   *)
LEMMA ScanningLooks ==
  ASSUME NEW f, NEW kind, NEW n, NEW i, NEW items, NEW x, Stands(f, kind, n, i, items, {}, {x}),
         NEW e, NEW h, NEW key, NEW value, NEW w, ScanAt(x, e, h, key, value, w), NEW d
  PROVE  LeftToGather(f, d) = Both({Own(n, d)}, Calls(EntryLooks(n, d, i + 1, e, h + 1), d))
  <1>1. PICK own : own = Own(n, d)
    OBVIOUS
  <1>2. LeftToGather(f, d) = {own} \cup Calls(Looks(n, d, i + 1, {x}), d)
    BY <1>1, StandsLooks DEF Own
  <1>3. x.node = e /\ x.idx = h
    BY DEF ScanAt
  <1>4. UNION {AskFrom(y.node, d, y.idx + 1) : y \in {x}} = AskFrom(e, d, h + 1)
    BY <1>3
  <1>5. Looks(n, d, i + 1, {x}) = EntryLooks(n, d, i + 1, e, h + 1)
    BY <1>4 DEF Looks, EntryLooks, Both
  <1> QED
    BY <1>1, <1>2, <1>5 DEF Both

(* It has what it had while the scan goes on.                               *)
Holds(f, d) == Short(f, d) \/ Whole(f, d)

(* The map gathers nothing while the scan goes on.                          *)
LEMMA ScanningGathers ==
  ASSUME NEW f, NEW kind, NEW n, NEW i, NEW items, NEW x, Stands(f, kind, n, i, items, {}, {x}),
         NEW g, NEW y, Stands(g, kind, n, i, items, {}, {y}),
         NEW d, FrameFits(f, d), Holds(f, d)
  PROVE  Short(g, d) /\ Whole(g, d)
  <1>1. i > 0
    BY StandsFits
  <1>2. PICK all, some : all = Gathers(n, d) /\ some = Cat(items, AddFrom(n, d, i))
    OBVIOUS
  <1>3. {x} # {} /\ {y} # {}
    OBVIOUS
  <1>4. some = all
    <2>1. CASE Short(f, d)
      BY <1>2, <1>3, <2>1, StandsGathers
    <2>2. CASE Whole(f, d)
      BY <1>2, <1>3, <2>2, StandsGathers
    <2> QED
      BY <2>1, <2>2 DEF Holds
  <1>5. Whole(g, d)
    <2>1. Whole(g, d) <=> Cat(items, AddFrom(n, d, i)) = Gathers(n, d)
      BY <1>3, StandsGathers
    <2> QED
      BY <1>2, <1>4, <2>1
  <1>6. Short(g, d)
    <2>1. Short(g, d) <=> i > 0 /\ Cat(items, AddFrom(n, d, i)) = Gathers(n, d)
      BY StandsGathers
    <2> QED
      BY <1>1, <1>2, <1>4, <2>1
  <1> QED
    BY <1>5, <1>6

(* The child i of n, and the child j of e, at depth d.                      *)
InEntry(n, i, e, j, d) ==
  /\ d \in 0 .. DepthLimit /\ n \in Nodes /\ i \in 1 .. Len(Kids(n))
  /\ e \in Nodes /\ j \in 1 .. Len(Kids(e))

(* The scan past a child of the entry.                                      *)
LEMMA ScanSays ==
  ASSUME ConstantsOK, doc \in [Nodes -> Element], NEW n, NEW i, NEW e, NEW j, NEW d, InEntry(n, i, e, j, d),
         NEW at, at = i + 1, NEW next, next = j + 1
  PROVE  /\ EntrySaysFrom(n, d, at, e, j)
              = Cat(SayingAny(Said, Asked(e, d, j), d), EntrySaysFrom(n, d, at, e, next))
         /\ SayingAny(Said, Asked(e, d, j), d) \in Seq(Diag)
         /\ EntrySaysFrom(n, d, at, e, next) \in Seq(Diag)
  <1>1. PICK a, b, m, r : /\ a = SayingAny(Said, Asked(e, d, j), d) /\ b = TellFrom(e, d, j + 1)
                          /\ m = MapEntryDiags(e) /\ r = SayFrom(n, d, i + 1)
    OBVIOUS
  <1>2. TellFrom(e, d, j) = Cat(a, b) /\ a \in Seq(Diag) /\ b \in Seq(Diag)
    BY <1>1, NextTells DEF InEntry
  <1>3. m \in Seq(Diag)
    BY <1>1, MapEntryType DEF InEntry
  <1>4. r \in Seq(Diag)
    BY <1>1, NextSays DEF InEntry
  <1>5. Cat(Cat(a, b), m) = Cat(a, Cat(b, m)) /\ Cat(b, m) \in Seq(Diag)
    BY <1>2, <1>3, CatAssociative, CatType
  <1>6. Cat(Cat(a, Cat(b, m)), r) = Cat(a, Cat(Cat(b, m), r)) /\ Cat(Cat(b, m), r) \in Seq(Diag)
    BY <1>2, <1>4, <1>5, CatAssociative, CatType
  <1> QED
    BY <1>1, <1>2, <1>5, <1>6 DEF EntrySaysFrom

(* The calls of an entry from its child j on are those for j and those      *)
(* after j.                                                                 *)
LEMMA ScanLooks ==
  ASSUME doc \in [Nodes -> Element], NEW d, NEW n, NEW i, NEW e \in Nodes, NEW j \in 1 .. Len(Kids(e))
  PROVE  EntryLooks(n, d, i, e, j) = Both(EntryLooks(n, d, i, e, j + 1), Asked(e, d, j))
  <1>1. AskFrom(e, d, j) = Both(AskFrom(e, d, j + 1), Asked(e, d, j))
    BY NextLooks
  <1> QED
    BY <1>1 DEF EntryLooks, Both

(* The top frame in an entry, and where its scan is.                        *)
LEMMA TopScans ==
  ASSUME ConstantsOK, IInv, RInv, stack # <<>>, Top.kind = "map", NEW d, d = Len(stack) - 1,
         NEW x \in Top.entry
  PROVE  /\ d \in 0 .. DepthLimit /\ doc \in [Nodes -> Element] /\ diags \in Seq(Diag)
         /\ EntryDepth = d /\ d \in Nat
         /\ FrameFits(Top, d) /\ Holds(Top, d) /\ ScanFits(x, d)
         /\ Stands(Top, Top.kind, Top.node, Top.idx, Top.items, {}, {x})
         /\ Top \in Frame /\ Top.node \in Nodes /\ Top.waiting = {} /\ Top.items \in Seq(Item)
         /\ Top.idx \in 1 .. Len(Kids(Top.node))
         /\ x.node = Kids(Top.node)[Top.idx] /\ doc[x.node].kind = "entry" /\ doc[Top.node].kind = "map"
         /\ x \in EntryScan /\ x.node \in Nodes /\ x.idx \in Nat
         /\ Len(Kids(x.node)) \in Nat /\ x.idx <= Len(Kids(x.node))
         /\ ScanAt(x, x.node, x.idx, x.key, x.value, x.waiting)
         /\ incoming = {} => x.waiting = {}
  <1>1. /\ d \in 0 .. DepthLimit /\ doc \in [Nodes -> Element] /\ diags \in Seq(Diag)
        /\ FrameFits(Top, d) /\ (Short(Top, d) \/ Whole(Top, d)) /\ d = Level(Top)
        /\ Stands(Top, Top.kind, Top.node, Top.idx, Top.items, Top.waiting, Top.entry)
        /\ Top \in Frame /\ Top.node \in Nodes /\ Top.idx \in Nat /\ Top.items \in Seq(Item)
        /\ Len(Kids(Top.node)) \in Nat /\ Top.idx <= Len(Kids(Top.node))
        /\ Top.kind = doc[Top.node].kind
    BY TopStands
  <1>2. /\ Top.waiting = {} /\ AtMostOne(Top.entry) /\ Top.entry \in SUBSET EntryScan
        /\ incoming = {} => x.waiting = {}
    BY Ready DEF FrameOK, Idle
  <1>3. Top.entry = {x}
    BY <1>2 DEF AtMostOne
  <1>4. /\ Top.idx > 0 /\ x.node = Kids(Top.node)[Top.idx] /\ doc[x.node].kind = "entry"
        /\ ScanFits(x, d)
    BY <1>1 DEF FrameFits
  <1>5. Top.idx \in 1 .. Len(Kids(Top.node))
    BY <1>1, <1>4
  <1>6. x \in EntryScan /\ x.node \in Nodes /\ x.idx \in Nat
    BY <1>2 DEF EntryScan
  <1>7. x.idx <= Len(Kids(x.node))
    BY <1>4 DEF ScanFits
  <1>8. Len(Kids(x.node)) \in Nat
    BY <1>1, <1>6, ElementType, LenProperties
  <1>9. EntryDepth = d /\ d \in Nat
    BY <1>1, EntryDepthType
  <1>10. ScanAt(x, x.node, x.idx, x.key, x.value, x.waiting)
    BY DEF ScanAt
  <1> QED
    BY <1>1, <1>2, <1>3, <1>4, <1>5, <1>6, <1>7, <1>8, <1>9, <1>10 DEF Holds

(* The same frame with another scan of the entry.                           *)
LEMMA ScansOn ==
  ASSUME IInv, stack # <<>>, Top.kind = "map", NEW y \in EntryScan
  PROVE  /\ WithEntry(y) \in Frame /\ WithEntry(y).node = Top.node
         /\ Stands(WithEntry(y), Top.kind, Top.node, Top.idx, Top.items, {}, {y})
         /\ ScanAt(y, y.node, y.idx, y.key, y.value, y.waiting)
  <1>1. Top \in Frame /\ Top.waiting = {}
    BY Ready DEF FrameOK
  <1>2. PICK f : f = WithEntry(y)
    OBVIOUS
  <1>3. f \in Frame
    BY <1>2, WithEntryType
  <1>4. f = [Top EXCEPT !.entry = {y}]
    BY <1>2 DEF WithEntry
  <1>5. /\ f.kind = Top.kind /\ f.node = Top.node /\ f.idx = Top.idx /\ f.items = Top.items
        /\ f.waiting = {} /\ f.entry = {y}
    BY <1>1, <1>4 DEF Frame
  <1> QED
    BY <1>2, <1>3, <1>5 DEF Stands, ScanAt

(* The scan is past a child that is done within the step.                   *)
LEMMA ScanWalked ==
  ASSUME ConstantsOK, IInv, RInv, stack # <<>>, incoming' = {}, UNCHANGED <<doc, built, result>>,
         Top.kind = "map", NEW d, d = Len(stack) - 1,
         NEW x \in Top.entry, NEW j \in 1 .. Len(Kids(x.node)), j = x.idx + 1,
         NEW y \in EntryScan, y.node = x.node, y.idx = j, ScanFits(y, d),
         stack' = WithTop(WithEntry(y)),
         NEW said, said = SayingAny(Said, Asked(x.node, d, j), d), diags' = Cat(diags, said),
         \A c \in Asked(x.node, d, j) : ~Descends(c, d)
  PROVE  RInv'
  <1>1. PICK f, kind, n, i, items, e, h, key, value, w, g, key2, value2, w2 :
          /\ f = Top /\ kind = Top.kind /\ n = Top.node /\ i = Top.idx /\ items = Top.items
          /\ e = x.node /\ h = x.idx /\ key = x.key /\ value = x.value /\ w = x.waiting
          /\ g = WithEntry(y) /\ key2 = y.key /\ value2 = y.value /\ w2 = y.waiting
    OBVIOUS
  <1>2. /\ d \in 0 .. DepthLimit /\ doc \in [Nodes -> Element] /\ diags \in Seq(Diag) /\ d \in Nat
        /\ f \in Frame /\ FrameFits(f, d) /\ Holds(f, d)
        /\ n \in Nodes /\ i \in 1 .. Len(Kids(n)) /\ e \in Nodes
    BY <1>1, TopScans
  <1>3. Stands(f, kind, n, i, items, {}, {x}) /\ ScanAt(x, e, h, key, value, w)
    BY <1>1, TopScans
  <1>4. /\ g \in Frame /\ g.node = Top.node
        /\ Stands(g, kind, n, i, items, {}, {y}) /\ ScanAt(y, e, j, key2, value2, w2)
    BY <1>1, ScansOn
  <1>5. FrameFits(g, d)
    <2>1. /\ kind = doc[n].kind /\ i <= Len(Kids(n))
          /\ i > 0 /\ e = Kids(n)[i] /\ doc[e].kind = "entry"
      <3>1. FrameFits(f, d)
        BY <1>2
      <3> QED
        BY <1>1, <1>3, <3>1, StandsFits
    <2>2. \A z \in {y} : i > 0 /\ z.node = Kids(n)[i] /\ doc[z.node].kind = "entry" /\ ScanFits(z, d)
      BY <1>1, <2>1
    <2> QED
      BY <1>4, <2>1, <2>2, StandsFits
  <1>6. Short(g, d) /\ Whole(g, d)
    BY <1>2, <1>3, <1>4, ScanningGathers
  <1>7. /\ LeftToSay(f, d) = EntrySaysFrom(n, d, i + 1, e, h + 1)
        /\ LeftToSay(g, d) = EntrySaysFrom(n, d, i + 1, e, j + 1)
    <2>1. LeftToSay(f, d) = EntrySaysFrom(n, d, i + 1, e, h + 1)
      BY <1>3, ScanningSays
    <2>2. LeftToSay(g, d) = EntrySaysFrom(n, d, i + 1, e, j + 1)
      BY <1>4, ScanningSays
    <2> QED
      BY <2>1, <2>2
  <1>8. /\ LeftToGather(f, d) = Both({Own(n, d)}, Calls(EntryLooks(n, d, i + 1, e, h + 1), d))
        /\ LeftToGather(g, d) = Both({Own(n, d)}, Calls(EntryLooks(n, d, i + 1, e, j + 1), d))
    <2>1. LeftToGather(f, d) = Both({Own(n, d)}, Calls(EntryLooks(n, d, i + 1, e, h + 1), d))
      BY <1>3, ScanningLooks
    <2>2. LeftToGather(g, d) = Both({Own(n, d)}, Calls(EntryLooks(n, d, i + 1, e, j + 1), d))
      BY <1>4, ScanningLooks
    <2> QED
      BY <2>1, <2>2
  <1>9. /\ j = h + 1 /\ j \in 1 .. Len(Kids(e)) /\ said = SayingAny(Said, Asked(e, d, j), d)
        /\ \A c \in Asked(e, d, j) : ~Descends(c, d)
    BY <1>1
  <1>10. LeftToSay(f, d) = Cat(said, LeftToSay(g, d)) /\ said \in Seq(Diag)
    <2>1. /\ EntrySaysFrom(n, d, i + 1, e, j)
               = Cat(SayingAny(Said, Asked(e, d, j), d), EntrySaysFrom(n, d, i + 1, e, j + 1))
          /\ SayingAny(Said, Asked(e, d, j), d) \in Seq(Diag)
      <3>1. PICK k, at, next : k = j /\ at = i + 1 /\ next = k + 1
        OBVIOUS
      <3>2. doc \in [Nodes -> Element] /\ InEntry(n, i, e, k, d)
        BY <1>2, <1>9, <3>1 DEF InEntry
      <3>3. /\ EntrySaysFrom(n, d, at, e, k)
                 = Cat(SayingAny(Said, Asked(e, d, k), d), EntrySaysFrom(n, d, at, e, next))
            /\ SayingAny(Said, Asked(e, d, k), d) \in Seq(Diag)
        BY <3>1, <3>2, ScanSays
      <3> QED
        BY <3>1, <3>3
    <2> QED
      BY <1>7, <1>9, <2>1
  <1>11. LeftToGather(g, d) = LeftToGather(f, d)
    <2>1. EntryLooks(n, d, i + 1, e, j) = Both(EntryLooks(n, d, i + 1, e, j + 1), Asked(e, d, j))
      BY <1>2, <1>9, ScanLooks
    <2>2. Calls(EntryLooks(n, d, i + 1, e, j), d) = Calls(EntryLooks(n, d, i + 1, e, j + 1), d)
      BY <1>9, <2>1, NoCalls
    <2> QED
      BY <1>8, <1>9, <2>2
  <1> QED
    BY <1>1, <1>4, <1>5, <1>6, <1>10, <1>11, Walked DEF Whole

(* The scan waits for the value of the child it is then at.                 *)
LEMMA ScanEntered ==
  ASSUME ConstantsOK, IInv, RInv, stack # <<>>, incoming' = {}, UNCHANGED <<doc, built, result>>,
         Top.kind = "map", NEW d, d = Len(stack) - 1,
         NEW x \in Top.entry, NEW j \in 1 .. Len(Kids(x.node)), j = x.idx + 1,
         NEW y \in EntryScan, y.node = x.node, y.idx = j, ScanFits(y, d),
         NEW c \in Nodes, Descends(c, d), One(Asked(x.node, d, j), c),
         Push(WithEntry(y), c, d), diags' = Cat(diags, ResolveDiags(c, d))
  PROVE  RInv'
  <1>1. PICK f, kind, n, i, items, e, h, key, value, w, g, key2, value2, w2 :
          /\ f = Top /\ kind = Top.kind /\ n = Top.node /\ i = Top.idx /\ items = Top.items
          /\ e = x.node /\ h = x.idx /\ key = x.key /\ value = x.value /\ w = x.waiting
          /\ g = WithEntry(y) /\ key2 = y.key /\ value2 = y.value /\ w2 = y.waiting
    OBVIOUS
  <1>2. /\ d \in 0 .. DepthLimit /\ doc \in [Nodes -> Element] /\ diags \in Seq(Diag) /\ d \in Nat
        /\ f \in Frame /\ FrameFits(f, d) /\ Holds(f, d)
        /\ n \in Nodes /\ i \in 1 .. Len(Kids(n)) /\ e \in Nodes
    BY <1>1, TopScans
  <1>3. Stands(f, kind, n, i, items, {}, {x}) /\ ScanAt(x, e, h, key, value, w)
    BY <1>1, TopScans
  <1>4. /\ g \in Frame /\ g.node = Top.node
        /\ Stands(g, kind, n, i, items, {}, {y}) /\ ScanAt(y, e, j, key2, value2, w2)
    BY <1>1, ScansOn
  <1>5. FrameFits(g, d)
    <2>1. /\ kind = doc[n].kind /\ i <= Len(Kids(n))
          /\ i > 0 /\ e = Kids(n)[i] /\ doc[e].kind = "entry"
      <3>1. FrameFits(f, d)
        BY <1>2
      <3> QED
        BY <1>1, <1>3, <3>1, StandsFits
    <2>2. \A z \in {y} : i > 0 /\ z.node = Kids(n)[i] /\ doc[z.node].kind = "entry" /\ ScanFits(z, d)
      BY <1>1, <2>1
    <2> QED
      BY <1>4, <2>1, <2>2, StandsFits
  <1>6. Short(g, d) /\ Whole(g, d)
    BY <1>2, <1>3, <1>4, ScanningGathers
  <1>7. /\ LeftToSay(f, d) = EntrySaysFrom(n, d, i + 1, e, h + 1)
        /\ LeftToSay(g, d) = EntrySaysFrom(n, d, i + 1, e, j + 1)
    <2>1. LeftToSay(f, d) = EntrySaysFrom(n, d, i + 1, e, h + 1)
      BY <1>3, ScanningSays
    <2>2. LeftToSay(g, d) = EntrySaysFrom(n, d, i + 1, e, j + 1)
      BY <1>4, ScanningSays
    <2> QED
      BY <2>1, <2>2
  <1>8. /\ LeftToGather(f, d) = Both({Own(n, d)}, Calls(EntryLooks(n, d, i + 1, e, h + 1), d))
        /\ LeftToGather(g, d) = Both({Own(n, d)}, Calls(EntryLooks(n, d, i + 1, e, j + 1), d))
    <2>1. LeftToGather(f, d) = Both({Own(n, d)}, Calls(EntryLooks(n, d, i + 1, e, h + 1), d))
      BY <1>3, ScanningLooks
    <2>2. LeftToGather(g, d) = Both({Own(n, d)}, Calls(EntryLooks(n, d, i + 1, e, j + 1), d))
      BY <1>4, ScanningLooks
    <2> QED
      BY <2>1, <2>2
  <1>9. PICK said, inside, rest :
          /\ said = ResolveDiags(c, d) /\ inside = Said[d + 1][c]
          /\ rest = EntrySaysFrom(n, d, i + 1, e, j + 1)
    OBVIOUS
  <1>10. j = h + 1 /\ j \in 1 .. Len(Kids(e)) /\ One(Asked(e, d, j), c)
    BY <1>1
  <1>11. LeftToSay(f, d) = Cat(said, Cat(inside, LeftToSay(g, d))) /\ said \in Seq(Diag)
    <2>1. /\ SayingAny(Said, {c}, d) = Cat(said, inside)
          /\ said \in Seq(Diag) /\ inside \in Seq(Diag)
      BY <1>2, <1>9, SayingIs
    <2>2. /\ EntrySaysFrom(n, d, i + 1, e, j) = Cat(SayingAny(Said, Asked(e, d, j), d), rest)
          /\ rest \in Seq(Diag)
      <3>1. PICK k, at, next : k = j /\ at = i + 1 /\ next = k + 1
        OBVIOUS
      <3>2. doc \in [Nodes -> Element] /\ InEntry(n, i, e, k, d)
        BY <1>2, <1>10, <3>1 DEF InEntry
      <3>3. /\ EntrySaysFrom(n, d, at, e, k)
                 = Cat(SayingAny(Said, Asked(e, d, k), d), EntrySaysFrom(n, d, at, e, next))
            /\ EntrySaysFrom(n, d, at, e, next) \in Seq(Diag)
        BY <3>1, <3>2, ScanSays
      <3> QED
        BY <1>9, <3>1, <3>3
    <2>3. EntrySaysFrom(n, d, i + 1, e, j) = Cat(Cat(said, inside), rest)
      BY <1>10, <2>1, <2>2 DEF One
    <2>4. Cat(Cat(said, inside), rest) = Cat(said, Cat(inside, rest))
      BY <2>1, <2>2, CatAssociative
    <2> QED
      BY <1>7, <1>9, <1>10, <2>1, <2>3, <2>4
  <1>12. LeftToGather(f, d) = LeftToGather(g, d) \cup Facts[d + 1][c]
    <2>1. EntryLooks(n, d, i + 1, e, j) = Both(EntryLooks(n, d, i + 1, e, j + 1), Asked(e, d, j))
      BY <1>2, <1>10, ScanLooks
    <2>2. EntryLooks(n, d, i + 1, e, j) = Both(EntryLooks(n, d, i + 1, e, j + 1), {c})
      BY <1>10, <2>1 DEF One
    <2>3. Calls(EntryLooks(n, d, i + 1, e, j), d)
            = Calls(EntryLooks(n, d, i + 1, e, j + 1), d) \cup Facts[d + 1][c]
      BY <2>2, OneCall
    <2> QED
      BY <1>8, <1>10, <2>3 DEF Both
  <1> QED
    BY <1>1, <1>2, <1>4, <1>5, <1>6, <1>9, <1>11, <1>12, Entered DEF Short

(* The scan has back what it was waiting for.                               *)
LEMMA ScanBack ==
  ASSUME ConstantsOK, IInv, RInv, stack # <<>>, incoming' = {}, UNCHANGED <<doc, diags, built, result>>,
         Top.kind = "map", NEW d, d = Len(stack) - 1,
         NEW x \in Top.entry, NEW y \in EntryScan, y.node = x.node, y.idx = x.idx, ScanFits(y, d),
         stack' = WithTop(WithEntry(y))
  PROVE  RInv'
  <1>1. PICK f, kind, n, i, items, e, h, key, value, w, g, key2, value2, w2 :
          /\ f = Top /\ kind = Top.kind /\ n = Top.node /\ i = Top.idx /\ items = Top.items
          /\ e = x.node /\ h = x.idx /\ key = x.key /\ value = x.value /\ w = x.waiting
          /\ g = WithEntry(y) /\ key2 = y.key /\ value2 = y.value /\ w2 = y.waiting
    OBVIOUS
  <1>2. /\ d \in 0 .. DepthLimit /\ doc \in [Nodes -> Element] /\ diags \in Seq(Diag) /\ d \in Nat
        /\ f \in Frame /\ FrameFits(f, d) /\ Holds(f, d)
        /\ n \in Nodes /\ i \in 1 .. Len(Kids(n)) /\ e \in Nodes
    BY <1>1, TopScans
  <1>3. Stands(f, kind, n, i, items, {}, {x}) /\ ScanAt(x, e, h, key, value, w)
    BY <1>1, TopScans
  <1>4. /\ g \in Frame /\ g.node = Top.node
        /\ Stands(g, kind, n, i, items, {}, {y}) /\ ScanAt(y, e, h, key2, value2, w2)
    BY <1>1, ScansOn
  <1>5. FrameFits(g, d)
    <2>1. /\ kind = doc[n].kind /\ i <= Len(Kids(n))
          /\ i > 0 /\ e = Kids(n)[i] /\ doc[e].kind = "entry"
      <3>1. FrameFits(f, d)
        BY <1>2
      <3> QED
        BY <1>1, <1>3, <3>1, StandsFits
    <2>2. \A z \in {y} : i > 0 /\ z.node = Kids(n)[i] /\ doc[z.node].kind = "entry" /\ ScanFits(z, d)
      BY <1>1, <2>1
    <2> QED
      BY <1>4, <2>1, <2>2, StandsFits
  <1>6. Short(g, d) /\ Whole(g, d)
    BY <1>2, <1>3, <1>4, ScanningGathers
  <1>7. /\ LeftToSay(f, d) = EntrySaysFrom(n, d, i + 1, e, h + 1)
        /\ LeftToSay(g, d) = EntrySaysFrom(n, d, i + 1, e, h + 1)
    <2>1. LeftToSay(f, d) = EntrySaysFrom(n, d, i + 1, e, h + 1)
      BY <1>3, ScanningSays
    <2>2. LeftToSay(g, d) = EntrySaysFrom(n, d, i + 1, e, h + 1)
      BY <1>4, ScanningSays
    <2> QED
      BY <2>1, <2>2
  <1>8. /\ LeftToGather(f, d) = Both({Own(n, d)}, Calls(EntryLooks(n, d, i + 1, e, h + 1), d))
        /\ LeftToGather(g, d) = Both({Own(n, d)}, Calls(EntryLooks(n, d, i + 1, e, h + 1), d))
    <2>1. LeftToGather(f, d) = Both({Own(n, d)}, Calls(EntryLooks(n, d, i + 1, e, h + 1), d))
      BY <1>3, ScanningLooks
    <2>2. LeftToGather(g, d) = Both({Own(n, d)}, Calls(EntryLooks(n, d, i + 1, e, h + 1), d))
      BY <1>4, ScanningLooks
    <2> QED
      BY <2>1, <2>2
  <1>9. LeftToSay(f, d) \in Seq(Diag)
    BY <1>2, LeftType
  <1>10. PICK said : said = <<>>
    OBVIOUS
  <1>11. said \in Seq(Diag) /\ diags' = Cat(diags, said) /\ LeftToSay(f, d) = Cat(said, LeftToSay(g, d))
    BY <1>2, <1>7, <1>9, <1>10, CatEmpty
  <1>12. LeftToGather(g, d) = LeftToGather(f, d)
    BY <1>8
  <1> QED
    BY <1>1, <1>4, <1>5, <1>6, <1>11, <1>12, Walked DEF Whole
-----------------------------------------------------------------------------
(* The steps in an entry.                                                   *)
IsAt(x, e, h, j) == x.node = e /\ x.idx = h /\ j = h + 1

(* What the scan does with the next child is what the entry asks for there. *)
LEMMA EntryAt ==
  ASSUME ConstantsOK, IInv, RInv, stack # <<>>, incoming = {}, Top.kind = "map",
         NEW d, d = Len(stack) - 1, NEW x \in Top.entry, EntryHasNext(x),
         NEW e, NEW h, NEW j, IsAt(x, e, h, j)
  PROVE  /\ e \in Nodes /\ h \in Nat /\ j \in 1 .. Len(Kids(e)) /\ x.waiting = {}
         /\ x.key = KeyUpTo(e, d, h) /\ x.value = ValueUpTo(e, d, h)
         /\ x.seenValue <=> SeenUpTo(e, h)
         /\ EntryChild(x) = Kids(e)[j]
         /\ TriesKey(x) <=> j \in Tried(e, d)
         /\ TriesValue(x) <=> j \in ValueAt(e)
         /\ TriesKey(x) => KeyChild(x) = InKey(e, j)
  <1>1. x.node = e /\ x.idx = h /\ j = h + 1
    BY DEF IsAt
  <1>2. /\ doc \in [Nodes -> Element] /\ x \in EntryScan /\ x.node \in Nodes /\ x.idx \in Nat
        /\ Len(Kids(x.node)) \in Nat /\ x.waiting = {} /\ ScanFits(x, d)
        /\ ScanAt(x, x.node, x.idx, x.key, x.value, x.waiting)
    BY TopScans
  <1>3. e \in Nodes /\ h \in Nat /\ j \in 1 .. Len(Kids(e))
    BY <1>1, <1>2 DEF EntryHasNext
  <1>4. PICK key, value : ScanAt(x, e, h, key, value, {}) /\ key = x.key /\ value = x.value
    BY <1>1, <1>2
  <1>5. /\ key = KeyUpTo(e, d, h) /\ value = ValueUpTo(e, d, h)
        /\ (x.seenValue <=> SeenUpTo(e, h))
    BY <1>2, <1>4, ScanIdle
  <1>6. EntryChild(x) = Kids(e)[j]
    BY <1>1 DEF EntryChild
  <1>7. IsKey(EntryChild(x)) <=> j \in Keys(e)
    BY <1>3, <1>6 DEF Keys
  <1>8. j \in Filled(e) <=> j \in Keys(e) /\ Kids(EntryChild(x)) # <<>>
    BY <1>6 DEF Filled
  <1>9. j \in Tried(e, d) <=> j \in Filled(e) /\ KeyUpTo(e, d, h) = {}
    BY <1>1, <1>2, <1>3, TriedIs
  <1>10. j \in ValueAt(e) <=> j \notin Keys(e) /\ ~SeenUpTo(e, h)
    <2>1. PICK upTo : upTo = ValueUpTo(e, d, j)
      OBVIOUS
    <2> QED
      BY <1>1, <1>2, <1>3, <2>1, ValueAtIs
  <1>11. KeyChild(x) = InKey(e, j)
    BY <1>6 DEF KeyChild, InKey
  <1>12. TriesKey(x) <=> j \in Tried(e, d)
    BY <1>4, <1>5, <1>7, <1>8, <1>9 DEF TriesKey
  <1>13. TriesValue(x) <=> j \in ValueAt(e)
    BY <1>5, <1>7, <1>10 DEF TriesValue
  <1> QED
    BY <1>2, <1>3, <1>4, <1>5, <1>6, <1>11, <1>12, <1>13

(* The scan past the next child.                                            *)
LEMMA PastIs ==
  ASSUME NEW x \in EntryScan
  PROVE  /\ EntryPast(x) \in EntryScan /\ EntryPast(x).node = x.node /\ EntryPast(x).idx = x.idx + 1
         /\ EntryPast(x).key = x.key /\ EntryPast(x).value = x.value
         /\ EntryPast(x).waiting = x.waiting /\ EntryPast(x).seenValue = x.seenValue
  BY DEF EntryPast, EntryScan

(* A scan that has what the first j children give.                          *)
LEMMA ScanHas ==
  ASSUME doc \in [Nodes -> Element], NEW d, NEW e \in Nodes, NEW j \in 1 .. Len(Kids(e)),
         NEW y, NEW key, NEW value, ScanAt(y, e, j, key, value, {}),
         key = KeyUpTo(e, d, j), value = ValueUpTo(e, d, j), y.seenValue <=> SeenUpTo(e, j)
  PROVE  ScanFits(y, d)
  <1>1. j <= Len(Kids(e))
    BY EntryPlaces
  <1> QED
    BY <1>1, ScanIdle

(* A child that is not tried.                                               *)
LEMMA EntrySkipKeeps ==
  ASSUME ConstantsOK, IInv, RInv, EntrySkip
  PROVE  RInv'
  <1>1. /\ stack # <<>> /\ incoming = {} /\ incoming' = {} /\ Top.kind = "map"
        /\ UNCHANGED <<doc, built, result>> /\ diags' = diags
    BY DEF EntrySkip, Stepping, IInv, TypeOK
  <1>2. PICK d : d = Len(stack) - 1
    OBVIOUS
  <1>3. PICK x \in Top.entry :
          /\ EntryHasNext(x) /\ ~TriesKey(x) /\ ~TriesValue(x)
          /\ stack' = WithTop(WithEntry(EntryPast(x)))
    BY DEF EntrySkip
  <1>4. PICK e, h, j : x.node = e /\ x.idx = h /\ j = h + 1
    OBVIOUS
  <1>5. /\ e \in Nodes /\ h \in Nat /\ j \in 1 .. Len(Kids(e)) /\ x.waiting = {}
        /\ x.key = KeyUpTo(e, d, h) /\ x.value = ValueUpTo(e, d, h)
        /\ x.seenValue <=> SeenUpTo(e, h)
        /\ j \notin Tried(e, d) /\ j \notin ValueAt(e)
    <2>1. IsAt(x, e, h, j)
      BY <1>4 DEF IsAt
    <2> QED
      BY <1>1, <1>2, <1>3, <2>1, EntryAt
  <1>6. /\ doc \in [Nodes -> Element] /\ diags \in Seq(Diag) /\ x \in EntryScan
        /\ d \in 0 .. DepthLimit
    BY <1>1, <1>2, TopScans
  <1>7. PICK y : y = EntryPast(x)
    OBVIOUS
  <1>8. /\ y \in EntryScan /\ y.node = e /\ y.idx = j /\ y.key = x.key /\ y.value = x.value
        /\ y.waiting = {} /\ y.seenValue = x.seenValue
    BY <1>4, <1>5, <1>6, <1>7, PastIs
  <1>9. ScanFits(y, d)
    <2>1. PICK key, value : key = y.key /\ value = y.value
      OBVIOUS
    <2>2. ScanAt(y, e, j, key, value, {})
      BY <1>8, <2>1 DEF ScanAt
    <2>3. KeyUpTo(e, d, j) = KeyUpTo(e, d, h)
      BY <1>4, <1>5, <1>6, TriedIs
    <2>4. ValueUpTo(e, d, j) = ValueUpTo(e, d, h) /\ (SeenUpTo(e, j) <=> SeenUpTo(e, h))
      <3>1. /\ doc \in [Nodes -> Element] /\ e \in Nodes /\ h \in Nat /\ j = h + 1
            /\ j \in 1 .. Len(Kids(e)) /\ j \notin ValueAt(e)
        BY <1>4, <1>5, <1>6
      <3> QED
        BY <3>1, ValueAtIs
    <2> QED
      BY <1>5, <1>6, <1>8, <2>1, <2>2, <2>3, <2>4, ScanHas
  <1>10. Asked(e, d, j) = {} /\ SayingAny(Said, Asked(e, d, j), d) = <<>>
    BY <1>5 DEF Asked, SayingAny
  <1>11. PICK said : said = <<>>
    OBVIOUS
  <1>12. diags' = Cat(diags, said) /\ said = SayingAny(Said, Asked(e, d, j), d)
    BY <1>1, <1>6, <1>10, <1>11, CatEmpty
  <1>13. stack' = WithTop(WithEntry(y))
    BY <1>3, <1>7
  <1> QED
    BY <1>1, <1>2, <1>4, <1>5, <1>8, <1>9, <1>10, <1>12, <1>13, ScanWalked

(* A key that resolves at once, or does not resolve.                        *)
LEMMA KeyResolvedKeeps ==
  ASSUME ConstantsOK, IInv, RInv, KeyResolved
  PROVE  RInv'
  <1>1. /\ stack # <<>> /\ incoming = {} /\ incoming' = {} /\ Top.kind = "map"
        /\ UNCHANGED <<doc, built, result>>
    BY DEF KeyResolved, Stepping, IInv, TypeOK
  <1>2. PICK d : d = Len(stack) - 1
    OBVIOUS
  <1>3. PICK x \in Top.entry :
          /\ TriesKey(x) /\ ~Descends(KeyChild(x), EntryDepth)
          /\ stack' = WithTop(WithEntry([EntryPast(x) EXCEPT !.key = Resolved(KeyChild(x), EntryDepth)]))
          /\ diags' = diags \o ResolveDiags(KeyChild(x), EntryDepth)
    BY DEF KeyResolved
  <1>4. PICK e, h, j : x.node = e /\ x.idx = h /\ j = h + 1
    OBVIOUS
  <1>5. /\ e \in Nodes /\ h \in Nat /\ j \in 1 .. Len(Kids(e)) /\ x.waiting = {}
        /\ x.value = ValueUpTo(e, d, h)
        /\ x.seenValue <=> SeenUpTo(e, h)
        /\ j \in Tried(e, d) /\ KeyChild(x) = InKey(e, j)
    <2>1. IsAt(x, e, h, j)
      BY <1>4 DEF IsAt
    <2>2. EntryHasNext(x)
      BY <1>3 DEF TriesKey
    <2> QED
      BY <1>1, <1>2, <1>3, <2>1, <2>2, EntryAt
  <1>6. /\ doc \in [Nodes -> Element] /\ diags \in Seq(Diag) /\ x \in EntryScan
        /\ d \in 0 .. DepthLimit /\ EntryDepth = d
    BY <1>1, <1>2, TopScans
  <1>7. PICK c, given : c = KeyChild(x) /\ given = Resolved(c, d)
    OBVIOUS
  <1>8. /\ c \in Nodes /\ ~Descends(c, d) /\ c = InKey(e, j) /\ j \notin ValueAt(e)
        /\ diags' = Cat(diags, ResolveDiags(c, d))
    BY <1>3, <1>5, <1>6, <1>7, EntryPlaces DEF Cat
  <1>9. Yields(c, d) = given /\ SayingAny(Said, {c}, d) = ResolveDiags(c, d) /\ given \in SUBSET Value
    BY <1>6, <1>7, <1>8, SayingIs, ResolveType
  <1>10. PICK y : y = [EntryPast(x) EXCEPT !.key = given]
    OBVIOUS
  <1>11. /\ y \in EntryScan /\ y.node = e /\ y.idx = j /\ y.key = given /\ y.value = x.value
         /\ y.waiting = {} /\ y.seenValue = x.seenValue
    <2>1. PICK past : past = EntryPast(x)
      OBVIOUS
    <2>2. /\ past \in EntryScan /\ past.node = e /\ past.idx = j /\ past.key = x.key
          /\ past.value = x.value /\ past.waiting = {} /\ past.seenValue = x.seenValue
      BY <1>4, <1>5, <1>6, <2>1, PastIs
    <2> QED
      BY <1>9, <1>10, <2>1, <2>2 DEF EntryScan
  <1>12. ScanFits(y, d)
    <2>1. PICK value : value = y.value
      OBVIOUS
    <2>2. ScanAt(y, e, j, given, value, {})
      BY <1>11, <2>1 DEF ScanAt
    <2>3. KeyUpTo(e, d, j) = given
      BY <1>4, <1>5, <1>6, <1>8, <1>9, TriedIs
    <2>4. ValueUpTo(e, d, j) = ValueUpTo(e, d, h) /\ (SeenUpTo(e, j) <=> SeenUpTo(e, h))
      <3>1. /\ doc \in [Nodes -> Element] /\ e \in Nodes /\ h \in Nat /\ j = h + 1
            /\ j \in 1 .. Len(Kids(e)) /\ j \notin ValueAt(e)
        BY <1>4, <1>5, <1>6, <1>8
      <3> QED
        BY <3>1, ValueAtIs
    <2> QED
      BY <1>5, <1>6, <1>11, <2>1, <2>2, <2>3, <2>4, ScanHas
  <1>13. Asked(e, d, j) = {c}
    BY <1>5, <1>8 DEF Asked
  <1>14. PICK said : said = ResolveDiags(c, d)
    OBVIOUS
  <1>15. /\ diags' = Cat(diags, said) /\ said = SayingAny(Said, Asked(e, d, j), d)
         /\ \A k \in Asked(e, d, j) : ~Descends(k, d)
    BY <1>8, <1>9, <1>13, <1>14
  <1>16. stack' = WithTop(WithEntry(y))
    BY <1>3, <1>6, <1>7, <1>10
  <1> QED
    BY <1>1, <1>2, <1>4, <1>5, <1>11, <1>12, <1>15, <1>16, ScanWalked

(* A value that resolves at once, or does not resolve.                      *)
LEMMA ValueResolvedKeeps ==
  ASSUME ConstantsOK, IInv, RInv, ValueResolved
  PROVE  RInv'
  <1>1. /\ stack # <<>> /\ incoming = {} /\ incoming' = {} /\ Top.kind = "map"
        /\ UNCHANGED <<doc, built, result>>
    BY DEF ValueResolved, Stepping, IInv, TypeOK
  <1>2. PICK d : d = Len(stack) - 1
    OBVIOUS
  <1>3. PICK x \in Top.entry :
          /\ TriesValue(x) /\ ~Descends(EntryChild(x), EntryDepth)
          /\ stack' = WithTop(WithEntry([EntryPast(x) EXCEPT
                         !.seenValue = TRUE, !.value = Resolved(EntryChild(x), EntryDepth)]))
          /\ diags' = diags \o ResolveDiags(EntryChild(x), EntryDepth)
    BY DEF ValueResolved
  <1>4. PICK e, h, j : x.node = e /\ x.idx = h /\ j = h + 1
    OBVIOUS
  <1>5. /\ e \in Nodes /\ h \in Nat /\ j \in 1 .. Len(Kids(e)) /\ x.waiting = {}
        /\ x.key = KeyUpTo(e, d, h)
        /\ j \in ValueAt(e) /\ EntryChild(x) = Kids(e)[j]
    <2>1. IsAt(x, e, h, j)
      BY <1>4 DEF IsAt
    <2>2. EntryHasNext(x)
      BY <1>3 DEF TriesValue
    <2> QED
      BY <1>1, <1>2, <1>3, <2>1, <2>2, EntryAt
  <1>6. /\ doc \in [Nodes -> Element] /\ diags \in Seq(Diag) /\ x \in EntryScan
        /\ d \in 0 .. DepthLimit /\ EntryDepth = d
    BY <1>1, <1>2, TopScans
  <1>7. PICK c, given : c = EntryChild(x) /\ given = Resolved(c, d)
    OBVIOUS
  <1>8. /\ c \in Nodes /\ ~Descends(c, d) /\ c = Kids(e)[j] /\ j \notin Tried(e, d)
        /\ diags' = Cat(diags, ResolveDiags(c, d))
    BY <1>3, <1>5, <1>6, <1>7, EntryPlaces DEF Cat
  <1>9. Yields(c, d) = given /\ SayingAny(Said, {c}, d) = ResolveDiags(c, d) /\ given \in SUBSET Value
    BY <1>6, <1>7, <1>8, SayingIs, ResolveType
  <1>10. PICK y : y = [EntryPast(x) EXCEPT !.seenValue = TRUE, !.value = given]
    OBVIOUS
  <1>11. /\ y \in EntryScan /\ y.node = e /\ y.idx = j /\ y.key = x.key /\ y.value = given
         /\ y.waiting = {} /\ y.seenValue
    <2>1. PICK past : past = EntryPast(x)
      OBVIOUS
    <2>2. /\ past \in EntryScan /\ past.node = e /\ past.idx = j /\ past.key = x.key
          /\ past.value = x.value /\ past.waiting = {}
      BY <1>4, <1>5, <1>6, <2>1, PastIs
    <2> QED
      BY <1>9, <1>10, <2>1, <2>2 DEF EntryScan
  <1>12. ScanFits(y, d)
    <2>1. PICK key : key = y.key
      OBVIOUS
    <2>2. ScanAt(y, e, j, key, given, {})
      BY <1>11, <2>1 DEF ScanAt
    <2>3. KeyUpTo(e, d, j) = KeyUpTo(e, d, h)
      BY <1>4, <1>5, <1>6, <1>8, TriedIs
    <2>4. ValueUpTo(e, d, j) = given /\ SeenUpTo(e, j)
      BY <1>4, <1>5, <1>6, <1>8, <1>9, ValueAtIs
    <2> QED
      BY <1>5, <1>6, <1>11, <2>1, <2>2, <2>3, <2>4, ScanHas
  <1>13. Asked(e, d, j) = {c}
    BY <1>5, <1>8 DEF Asked
  <1>14. PICK said : said = ResolveDiags(c, d)
    OBVIOUS
  <1>15. /\ diags' = Cat(diags, said) /\ said = SayingAny(Said, Asked(e, d, j), d)
         /\ \A k \in Asked(e, d, j) : ~Descends(k, d)
    BY <1>8, <1>9, <1>13, <1>14
  <1>16. stack' = WithTop(WithEntry(y))
    BY <1>3, <1>6, <1>7, <1>10
  <1> QED
    BY <1>1, <1>2, <1>4, <1>5, <1>11, <1>12, <1>15, <1>16, ScanWalked

(* A key that is put off.                                                   *)
LEMMA KeyDeferredKeeps ==
  ASSUME ConstantsOK, IInv, RInv, KeyDeferred
  PROVE  RInv'
  <1>1. /\ stack # <<>> /\ incoming = {} /\ incoming' = {} /\ Top.kind = "map"
        /\ UNCHANGED <<doc, built, result>>
    BY DEF KeyDeferred, Stepping, IInv, TypeOK
  <1>2. PICK d : d = Len(stack) - 1
    OBVIOUS
  <1>3. PICK x \in Top.entry :
          /\ TriesKey(x) /\ Descends(KeyChild(x), EntryDepth)
          /\ Push(WithEntry([EntryPast(x) EXCEPT !.waiting = {"key"}]), KeyChild(x), EntryDepth)
          /\ diags' = diags \o ResolveDiags(KeyChild(x), EntryDepth)
    BY DEF KeyDeferred
  <1>4. PICK e, h, j : x.node = e /\ x.idx = h /\ j = h + 1
    OBVIOUS
  <1>5. /\ e \in Nodes /\ h \in Nat /\ j \in 1 .. Len(Kids(e)) /\ x.waiting = {}
        /\ x.key = KeyUpTo(e, d, h) /\ x.value = ValueUpTo(e, d, h)
        /\ x.seenValue <=> SeenUpTo(e, h)
        /\ j \in Tried(e, d) /\ KeyChild(x) = InKey(e, j)
    <2>1. IsAt(x, e, h, j)
      BY <1>4 DEF IsAt
    <2>2. EntryHasNext(x)
      BY <1>3 DEF TriesKey
    <2> QED
      BY <1>1, <1>2, <1>3, <2>1, <2>2, EntryAt
  <1>6. /\ doc \in [Nodes -> Element] /\ diags \in Seq(Diag) /\ x \in EntryScan
        /\ d \in 0 .. DepthLimit /\ EntryDepth = d
    BY <1>1, <1>2, TopScans
  <1>7. PICK c : c = KeyChild(x)
    OBVIOUS
  <1>8. /\ c \in Nodes /\ Descends(c, d) /\ c = InKey(e, j) /\ j \notin ValueAt(e)
        /\ diags' = Cat(diags, ResolveDiags(c, d))
    BY <1>3, <1>5, <1>6, <1>7, EntryPlaces DEF Cat
  <1>9. PICK y : y = [EntryPast(x) EXCEPT !.waiting = {"key"}]
    OBVIOUS
  <1>10. /\ y \in EntryScan /\ y.node = e /\ y.idx = j /\ y.key = x.key /\ y.value = x.value
         /\ y.waiting = {"key"} /\ y.seenValue = x.seenValue
    <2>1. PICK past : past = EntryPast(x)
      OBVIOUS
    <2>2. /\ past \in EntryScan /\ past.node = e /\ past.idx = j /\ past.key = x.key
          /\ past.value = x.value /\ past.seenValue = x.seenValue
      BY <1>4, <1>5, <1>6, <2>1, PastIs
    <2> QED
      BY <1>9, <2>1, <2>2 DEF EntryScan
  <1>11. ScanFits(y, d)
    <2>1. PICK key, value : key = y.key /\ value = y.value
      OBVIOUS
    <2>2. ScanAt(y, e, j, key, value, {"key"})
      BY <1>10, <2>1 DEF ScanAt
    <2>3. ValueUpTo(e, d, j) = ValueUpTo(e, d, h) /\ (SeenUpTo(e, j) <=> SeenUpTo(e, h))
      BY <1>4, <1>5, <1>6, <1>8, ValueAtIs
    <2>4. j \in Earliest(Found(e, d))
      <3>1. Yields(InKey(e, j), d) # {}
        BY <1>8 DEF Yields
      <3> QED
        BY <1>4, <1>5, <1>6, <3>1, TriedIs
    <2>5. j <= Len(Kids(e))
      BY <1>5, <1>6, EntryPlaces
    <2>6. ScanFits(y, d) <=>
           /\ j <= Len(Kids(e)) /\ key = KeyUpTo(e, d, h) /\ value = ValueUpTo(e, d, j)
           /\ (y.seenValue <=> SeenUpTo(e, j)) /\ j \in Earliest(Found(e, d))
      BY <1>4, <1>5, <1>6, <2>2, ScanOfKey
    <2> QED
      BY <1>5, <1>10, <2>1, <2>3, <2>4, <2>5, <2>6
  <1>12. One(Asked(e, d, j), c)
    BY <1>5, <1>8 DEF Asked, One
  <1>13. Push(WithEntry(y), c, d)
    BY <1>3, <1>6, <1>7, <1>9
  <1> QED
    BY <1>1, <1>2, <1>4, <1>5, <1>8, <1>10, <1>11, <1>12, <1>13, ScanEntered

(* A value that is put off.                                                 *)
LEMMA ValueDeferredKeeps ==
  ASSUME ConstantsOK, IInv, RInv, ValueDeferred
  PROVE  RInv'
  <1>1. /\ stack # <<>> /\ incoming = {} /\ incoming' = {} /\ Top.kind = "map"
        /\ UNCHANGED <<doc, built, result>>
    BY DEF ValueDeferred, Stepping, IInv, TypeOK
  <1>2. PICK d : d = Len(stack) - 1
    OBVIOUS
  <1>3. PICK x \in Top.entry :
          /\ TriesValue(x) /\ Descends(EntryChild(x), EntryDepth)
          /\ Push(WithEntry([EntryPast(x) EXCEPT !.seenValue = TRUE, !.waiting = {"value"}]),
                  EntryChild(x), EntryDepth)
          /\ diags' = diags \o ResolveDiags(EntryChild(x), EntryDepth)
    BY DEF ValueDeferred
  <1>4. PICK e, h, j : x.node = e /\ x.idx = h /\ j = h + 1
    OBVIOUS
  <1>5. /\ e \in Nodes /\ h \in Nat /\ j \in 1 .. Len(Kids(e)) /\ x.waiting = {}
        /\ x.key = KeyUpTo(e, d, h) /\ x.value = ValueUpTo(e, d, h)
        /\ j \in ValueAt(e) /\ EntryChild(x) = Kids(e)[j]
    <2>1. IsAt(x, e, h, j)
      BY <1>4 DEF IsAt
    <2>2. EntryHasNext(x)
      BY <1>3 DEF TriesValue
    <2> QED
      BY <1>1, <1>2, <1>3, <2>1, <2>2, EntryAt
  <1>6. /\ doc \in [Nodes -> Element] /\ diags \in Seq(Diag) /\ x \in EntryScan
        /\ d \in 0 .. DepthLimit /\ EntryDepth = d
    BY <1>1, <1>2, TopScans
  <1>7. PICK c : c = EntryChild(x)
    OBVIOUS
  <1>8. /\ c \in Nodes /\ Descends(c, d) /\ c = Kids(e)[j] /\ j \notin Tried(e, d)
        /\ diags' = Cat(diags, ResolveDiags(c, d))
    BY <1>3, <1>5, <1>6, <1>7, EntryPlaces DEF Cat
  <1>9. PICK y : y = [EntryPast(x) EXCEPT !.seenValue = TRUE, !.waiting = {"value"}]
    OBVIOUS
  <1>10. /\ y \in EntryScan /\ y.node = e /\ y.idx = j /\ y.key = x.key /\ y.value = x.value
         /\ y.waiting = {"value"} /\ y.seenValue
    <2>1. PICK past : past = EntryPast(x)
      OBVIOUS
    <2>2. /\ past \in EntryScan /\ past.node = e /\ past.idx = j /\ past.key = x.key
          /\ past.value = x.value
      BY <1>4, <1>5, <1>6, <2>1, PastIs
    <2> QED
      BY <1>9, <2>1, <2>2 DEF EntryScan
  <1>11. ScanFits(y, d)
    <2>1. PICK key, value : key = y.key /\ value = y.value
      OBVIOUS
    <2>2. ScanAt(y, e, j, key, value, {"value"})
      BY <1>10, <2>1 DEF ScanAt
    <2>3. SeenUpTo(e, j)
      BY <1>5, <1>6 DEF SeenUpTo
    <2>4. KeyUpTo(e, d, j) = KeyUpTo(e, d, h)
      BY <1>4, <1>5, <1>6, <1>8, TriedIs
    <2>5. j <= Len(Kids(e))
      BY <1>5, <1>6, EntryPlaces
    <2>6. ScanFits(y, d) <=>
           /\ j <= Len(Kids(e)) /\ key = KeyUpTo(e, d, j) /\ value = ValueUpTo(e, d, h)
           /\ (y.seenValue <=> SeenUpTo(e, j)) /\ j \in ValueAt(e)
      <3>1. doc \in [Nodes -> Element] /\ e \in Nodes /\ j \in Nat /\ h \in Nat /\ j = h + 1
        BY <1>4, <1>5, <1>6
      <3> QED
        BY <2>2, <3>1, ScanOfValue
    <2> QED
      BY <1>5, <1>10, <2>1, <2>3, <2>4, <2>5, <2>6
  <1>12. One(Asked(e, d, j), c)
    BY <1>5, <1>8 DEF Asked, One
  <1>13. Push(WithEntry(y), c, d)
    BY <1>3, <1>6, <1>7, <1>9
  <1> QED
    BY <1>1, <1>2, <1>4, <1>5, <1>8, <1>10, <1>11, <1>12, <1>13, ScanEntered

(* The key or the value that comes in.                                      *)
LEMMA EntryDeliveredKeeps ==
  ASSUME ConstantsOK, IInv, RInv, EntryDelivered
  PROVE  RInv'
  <1>1. /\ stack # <<>> /\ incoming # {} /\ incoming' = {} /\ Top.kind = "map"
        /\ UNCHANGED <<doc, diags, built, result>>
    BY DEF EntryDelivered, Delivering, IInv, TypeOK
  <1>2. PICK d : d = Len(stack) - 1
    OBVIOUS
  <1>3. PICK v \in incoming, x \in Top.entry : \E slot \in x.waiting :
          stack' = WithTop(WithEntry(Delivered(x, slot, v)))
    BY DEF EntryDelivered
  <1>4. PICK slot \in x.waiting : stack' = WithTop(WithEntry(Delivered(x, slot, v)))
    BY <1>3
  <1>5. /\ doc \in [Nodes -> Element] /\ x \in EntryScan /\ d \in 0 .. DepthLimit /\ ScanFits(x, d)
        /\ Top.entry = {x}
    <2>1. Stands(Top, Top.kind, Top.node, Top.idx, Top.items, {}, {x})
      BY <1>1, <1>2, <1>3, TopScans
    <2> QED
      BY <1>1, <1>2, <1>3, <2>1, TopScans DEF Stands
  <1>6. v \in Value /\ v.node \in Awaited(Top) /\ Yields(v.node, d) = {v}
    BY <1>1, <1>2, <1>3, ComesIn
  <1>7. v.node \in AwaitedByEntry(x)
    BY <1>1, <1>5, <1>6 DEF Awaited
  <1>8. PICK e, j, h : x.node = e /\ x.idx = j /\ h = j - 1
    OBVIOUS
  <1>9. e \in Nodes /\ j \in Nat
    BY <1>5, <1>8 DEF EntryScan
  <1>10. PICK y : y = Delivered(x, slot, v)
    OBVIOUS
  <1>11. PICK key, value : key = x.key /\ value = x.value
    OBVIOUS
  <1>12. CASE x.waiting = {"key"}
    <2>1. slot = "key" /\ v.node = InKey(e, j)
      BY <1>4, <1>7, <1>8, <1>12 DEF AwaitedByEntry, InKey
    <2>2. /\ y \in EntryScan /\ y.node = e /\ y.idx = j /\ y.key = {v} /\ y.value = value
          /\ y.waiting = {} /\ y.seenValue = x.seenValue
      BY <1>5, <1>6, <1>8, <1>10, <1>11, <2>1 DEF Delivered, EntryScan
    <2>3. j \in Earliest(Found(e, d))
      BY <1>5, <1>8, <1>12 DEF ScanFits
    <2>4. j \in Found(e, d) /\ j \in 1 .. Len(Kids(e))
      BY <1>5, <1>9, <2>3, EntryPlaces DEF Earliest
    <2>5. h \in Nat /\ j = h + 1
      BY <1>8, <1>9, <2>4
    <2>6. ScanAt(x, e, j, key, value, {"key"})
      BY <1>8, <1>11, <1>12 DEF ScanAt
    <2>7. /\ value = ValueUpTo(e, d, j) /\ (x.seenValue <=> SeenUpTo(e, j))
          /\ key = KeyUpTo(e, d, h)
      <3>1. ScanFits(x, d) <=>
              /\ j <= Len(Kids(e)) /\ key = KeyUpTo(e, d, h) /\ value = ValueUpTo(e, d, j)
              /\ (x.seenValue <=> SeenUpTo(e, j)) /\ j \in Earliest(Found(e, d))
        BY <1>5, <1>9, <2>5, <2>6, ScanOfKey
      <3> QED
        BY <1>5, <3>1
    <2>8. KeyUpTo(e, d, j) = {v}
      <3>1. j \in Tried(e, d)
        BY <2>3 DEF Earliest, Found, Tried
      <3>2. KeyUpTo(e, d, j) = Yields(InKey(e, j), d)
        BY <1>5, <1>9, <2>4, <2>5, <3>1, TriedIs
      <3> QED
        BY <1>6, <2>1, <3>2
    <2>9. ScanFits(y, d)
      <3>1. PICK given : given = {v}
        OBVIOUS
      <3>2. ScanAt(y, e, j, given, value, {})
        BY <2>2, <3>1 DEF ScanAt
      <3> QED
        BY <1>5, <1>9, <2>2, <2>4, <2>7, <2>8, <3>1, <3>2, ScanHas
    <2> QED
      BY <1>1, <1>2, <1>4, <1>8, <1>10, <2>2, <2>9, ScanBack
  <1>13. CASE x.waiting = {"value"}
    <2>1. slot = "value" /\ v.node = Kids(e)[j]
      BY <1>4, <1>7, <1>8, <1>13 DEF AwaitedByEntry
    <2>2. /\ y \in EntryScan /\ y.node = e /\ y.idx = j /\ y.key = key /\ y.value = {v}
          /\ y.waiting = {} /\ y.seenValue = x.seenValue
      BY <1>5, <1>6, <1>8, <1>10, <1>11, <2>1 DEF Delivered, EntryScan
    <2>3. j \in ValueAt(e)
      BY <1>5, <1>8, <1>13 DEF ScanFits
    <2>4. j \in 1 .. Len(Kids(e))
      BY <1>5, <1>9, <2>3, EntryPlaces
    <2>5. h \in Nat /\ j = h + 1
      BY <1>8, <1>9, <2>4
    <2>6. ScanAt(x, e, j, key, value, {"value"})
      BY <1>8, <1>11, <1>13 DEF ScanAt
    <2>7. /\ key = KeyUpTo(e, d, j) /\ (x.seenValue <=> SeenUpTo(e, j))
          /\ value = ValueUpTo(e, d, h)
      BY <1>5, <1>9, <2>5, <2>6, ScanOfValue
    <2>8. ValueUpTo(e, d, j) = {v}
      <3>1. ValueUpTo(e, d, j) = Yields(Kids(e)[j], d)
        BY <1>5, <1>9, <2>3, <2>4, <2>5, ValueAtIs
      <3> QED
        BY <1>6, <2>1, <3>1
    <2>9. ScanFits(y, d)
      <3>1. PICK given : given = {v}
        OBVIOUS
      <3>2. ScanAt(y, e, j, key, given, {})
        BY <2>2, <3>1 DEF ScanAt
      <3> QED
        BY <1>5, <1>9, <2>2, <2>4, <2>7, <2>8, <3>1, <3>2, ScanHas
    <2> QED
      BY <1>1, <1>2, <1>4, <1>8, <1>10, <2>2, <2>9, ScanBack
  <1>14. x.waiting = {"key"} \/ x.waiting = {"value"}
    BY <1>7 DEF AwaitedByEntry
  <1> QED
    BY <1>12, <1>13, <1>14

(* The scan of an entry that is just begun.                                 *)
IsEntry(n, e) == doc[n].kind = "map" /\ doc[e].kind = "entry"

(* A scan that has read nothing fits its entry.                             *)
LEMMA ScanBegins ==
  ASSUME doc \in [Nodes -> Element], NEW d, NEW e \in Nodes
  PROVE  /\ BeginEntry(e) \in EntryScan /\ ScanFits(BeginEntry(e), d)
         /\ ScanAt(BeginEntry(e), e, 0, {}, {}, {})
  <1>1. PICK b : b = BeginEntry(e)
    OBVIOUS
  <1>2. /\ b \in EntryScan /\ b.node = e /\ b.idx = 0 /\ b.key = {} /\ b.value = {}
        /\ b.waiting = {} /\ ~b.seenValue
    BY <1>1 DEF BeginEntry, EntryScan
  <1>3. PICK none, h : none = {} /\ h = 0
    OBVIOUS
  <1>4. ScanAt(b, e, h, none, none, {})
    BY <1>2, <1>3 DEF ScanAt
  <1>5. Len(Kids(e)) \in Nat /\ \A k \in 1 .. Len(Kids(e)) : ~(k <= h)
    BY <1>3, EntryPlaces
  <1>6. \A k : k \in Earliest(Found(e, d)) \/ k \in ValueAt(e) => ~(k <= h)
    <2>1. \A k : k \in Earliest(Found(e, d)) => k \in 1 .. Len(Kids(e))
      BY EntryPlaces DEF Earliest
    <2>2. \A k : k \in ValueAt(e) => k \in 1 .. Len(Kids(e))
      BY EntryPlaces
    <2> QED
      BY <1>5, <2>1, <2>2
  <1>7. none = KeyUpTo(e, d, h) /\ none = ValueUpTo(e, d, h) /\ ~SeenUpTo(e, h)
    BY <1>3, <1>6 DEF KeyUpTo, ValueUpTo, SeenUpTo
  <1>8. h <= Len(Kids(e))
    BY <1>3, <1>5
  <1>9. ScanFits(b, d)
    <2>1. ScanFits(b, d) <=>
            /\ h <= Len(Kids(e)) /\ none = KeyUpTo(e, d, h) /\ none = ValueUpTo(e, d, h)
            /\ (b.seenValue <=> SeenUpTo(e, h))
      BY <1>4, ScanIdle
    <2> QED
      BY <1>2, <1>7, <1>8, <2>1
  <1> QED
    BY <1>1, <1>2, <1>3, <1>4, <1>9

(* What is said of the attributes of an entry.                              *)
LEMMA ConflictsType ==
  ASSUME doc \in [Nodes -> Element], NEW e \in Nodes
  PROVE  /\ ConflictDiags(doc[e].key, doc[e].keyRef, e) \in Seq(Diag)
         /\ ConflictDiags(doc[e].value, doc[e].valueRef, e) \in Seq(Diag)
         /\ EntryConflicts(e) \in Seq(Diag)
  <1>1. /\ doc[e].value \in BOOLEAN /\ doc[e].valueRef \in RefAttr
        /\ doc[e].key \in BOOLEAN /\ doc[e].keyRef \in RefAttr
    BY ElementType
  <1>2. /\ ConflictDiags(doc[e].key, doc[e].keyRef, e) \in Seq(Diag)
        /\ ConflictDiags(doc[e].value, doc[e].valueRef, e) \in Seq(Diag)
    BY <1>1, DiagnoseType DEF ConflictDiags, Code
  <1> QED
    BY <1>2, ConcatProperties DEF EntryConflicts

(* A map at an entry it has just begun has all that is left of the child.   *)
LEMMA BeginSays ==
  ASSUME ConstantsOK, doc \in [Nodes -> Element], NEW d \in 0 .. DepthLimit,
         NEW n \in Nodes, NEW i, NEW j, NEW e \in Nodes, IsNext(n, i, j, e), IsEntry(n, e),
         NEW kind, NEW items, NEW f, Stands(f, kind, n, i, items, {}, {}),
         NEW b, ScanAt(b, e, 0, {}, {}, {}), NEW g, Stands(g, kind, n, j, items, {}, {b})
  PROVE  /\ LeftToSay(f, d) = Cat(EntryConflicts(e), LeftToSay(g, d))
         /\ EntryConflicts(e) \in Seq(Diag)
  <1>1. PICK said, tells, ends, rest :
          /\ said = EntryConflicts(e) /\ tells = TellFrom(e, d, 1)
          /\ ends = MapEntryDiags(e) /\ rest = SayFrom(n, d, j + 1)
    OBVIOUS
  <1>2. /\ SayFrom(n, d, j) = Cat(ChildSays(Said, n, d, e), rest)
        /\ SayFrom(n, d, j) \in Seq(Diag) /\ rest \in Seq(Diag)
    BY <1>1, NextSays DEF IsNext
  <1>3. Len(Kids(e)) \in Nat /\ 1 \in 1 .. Len(Kids(e)) + 1
    BY EntryPlaces
  <1>4. /\ tells \in Seq(Diag) /\ ends \in Seq(Diag) /\ Cat(tells, ends) \in Seq(Diag)
        /\ tells = Joined(EntrySays(Said, e, d), Len(Kids(e)))
    BY <1>1, <1>3, RestType
  <1>5. said \in Seq(Diag)
    BY <1>1, ConflictsType
  <1>6. ChildSays(Said, n, d, e) = Cat(Cat(said, tells), ends)
    BY <1>1, <1>4 DEF ChildSays, IsEntry, Cat
  <1>7. LeftToSay(f, d) = SayFrom(n, d, j)
    <2>1. LeftToSay(f, d) = Cat(<<>>, SayFrom(n, d, j))
      BY StandsSays, SlotEmpty DEF IsNext
    <2> QED
      BY <1>2, <2>1, CatEmpty
  <1>8. LeftToSay(g, d) = Cat(Cat(tells, ends), rest)
    <2>1. PICK h, none : h = 0 /\ none = {}
      OBVIOUS
    <2>2. ScanAt(b, e, h, none, none, {})
      BY <2>1
    <2>3. LeftToSay(g, d) = EntrySaysFrom(n, d, j + 1, e, h + 1)
      BY <2>2, ScanningSays
    <2>4. h + 1 = 1
      BY <2>1
    <2> QED
      BY <1>1, <2>3, <2>4 DEF EntrySaysFrom
  <1>9. Cat(Cat(said, tells), ends) = Cat(said, Cat(tells, ends))
    BY <1>4, <1>5, CatAssociative
  <1>10. Cat(Cat(said, Cat(tells, ends)), rest) = Cat(said, Cat(Cat(tells, ends), rest))
    BY <1>2, <1>4, <1>5, CatAssociative
  <1> QED
    BY <1>1, <1>2, <1>5, <1>6, <1>7, <1>8, <1>9, <1>10

(* Beginning the scan of an entry makes no call: what the map has left to   *)
(* gather is the same.                                                      *)
LEMMA BeginGathers ==
  ASSUME ConstantsOK, doc \in [Nodes -> Element], NEW d \in 0 .. DepthLimit,
         NEW n \in Nodes, NEW i, NEW j, NEW e \in Nodes, IsNext(n, i, j, e), IsEntry(n, e),
         NEW kind, NEW items, NEW f, Stands(f, kind, n, i, items, {}, {}),
         NEW b, ScanAt(b, e, 0, {}, {}, {}), NEW g, Stands(g, kind, n, j, items, {}, {b})
  PROVE  LeftToGather(g, d) = LeftToGather(f, d)
  <1>1. LookFrom(n, d, j) = Both(LookFrom(n, d, j + 1), Looked(n, d, e))
    BY NextLooks DEF IsNext
  <1>2. Looked(n, d, e) = AskFrom(e, d, 1)
    BY DEF IsEntry, Looked, AskFrom
  <1>3. LookFrom(n, d, j) = EntryLooks(n, d, j + 1, e, 1)
    BY <1>1, <1>2 DEF EntryLooks
  <1>4. LeftToGather(f, d) = Both({Own(n, d)}, Calls(LookFrom(n, d, j), d))
    <2>1. PICK own : own = Own(n, d)
      OBVIOUS
    <2>2. LeftToGather(f, d) = {own} \cup Calls(Looks(n, d, j, {}), d)
      BY <2>1, StandsLooks DEF IsNext, Own
    <2>3. Looks(n, d, j, {}) = LookFrom(n, d, j)
      BY DEF Looks
    <2> QED
      BY <2>1, <2>2, <2>3 DEF Both
  <1>5. LeftToGather(g, d) = Both({Own(n, d)}, Calls(EntryLooks(n, d, j + 1, e, 1), d))
    <2>1. PICK h, none : h = 0 /\ none = {}
      OBVIOUS
    <2>2. ScanAt(b, e, h, none, none, {})
      BY <2>1
    <2>3. LeftToGather(g, d) = Both({Own(n, d)}, Calls(EntryLooks(n, d, j + 1, e, h + 1), d))
      BY <2>2, ScanningLooks
    <2>4. h + 1 = 1
      BY <2>1
    <2> QED
      BY <2>3, <2>4
  <1> QED
    BY <1>3, <1>4, <1>5

(* The map that has begun the scan fits, and has gathered what the children *)
(* before the entry add.                                                    *)
LEMMA BeginFits ==
  ASSUME ConstantsOK, doc \in [Nodes -> Element], NEW d \in 0 .. DepthLimit,
         NEW n \in Nodes, NEW i, NEW j, NEW e \in Nodes, IsNext(n, i, j, e), IsEntry(n, e),
         NEW kind, NEW items, NEW f, Stands(f, kind, n, i, items, {}, {}),
         FrameFits(f, d), Whole(f, d),
         NEW b, ScanAt(b, e, 0, {}, {}, {}), ScanFits(b, d), NEW g, Stands(g, kind, n, j, items, {}, {b})
  PROVE  FrameFits(g, d) /\ Whole(g, d)
  <1>1. /\ kind = doc[n].kind /\ j = i + 1 /\ j \in 1 .. Len(Kids(n)) /\ e = Kids(n)[j]
        /\ doc[e].kind = "entry" /\ b.node = e
    BY StandsFits DEF IsNext, IsEntry, ScanAt
  <1>2. j > 0 /\ j <= Len(Kids(n))
    BY <1>1, EntryPlaces
  <1>3. FrameFits(g, d)
    <2>1. \A z \in {b} : j > 0 /\ z.node = Kids(n)[j] /\ doc[z.node].kind = "entry" /\ ScanFits(z, d)
      BY <1>1, <1>2
    <2> QED
      BY <1>1, <1>2, <2>1, StandsFits
  <1>4. PICK all, some : all = Gathers(n, d) /\ some = Cat(items, AddFrom(n, d, j))
    OBVIOUS
  <1>5. some = all
    <2>1. Whole(f, d) <=> Cat(items, AddFrom(n, d, i + 1)) = Gathers(n, d)
      BY StandsGathers
    <2> QED
      BY <1>1, <1>4, <2>1
  <1>6. Whole(g, d)
    <2>1. PICK scans : scans = {b}
      OBVIOUS
    <2>2. Stands(g, kind, n, j, items, {}, scans) /\ scans # {}
      BY <2>1
    <2>3. Whole(g, d) <=> Cat(items, AddFrom(n, d, j)) = Gathers(n, d)
      BY <2>2, StandsGathers
    <2> QED
      BY <1>4, <1>5, <2>3
  <1> QED
    BY <1>3, <1>6

(* An entry is begun.                                                       *)
LEMMA EntryBeginKeeps ==
  ASSUME ConstantsOK, IInv, RInv, EntryBegin
  PROVE  RInv'
  <1>1. /\ stack # <<>> /\ incoming = {} /\ incoming' = {} /\ Top.kind = "map" /\ HasNext
        /\ Top.entry = {} /\ UNCHANGED <<doc, built, result>>
    BY DEF EntryBegin, Stepping, IInv, TypeOK
  <1>2. PICK d, f, kind, n, i, items, e, b :
          /\ d = Len(stack) - 1 /\ f = Top /\ kind = Top.kind /\ n = Top.node /\ i = Top.idx
          /\ items = Top.items /\ e = NextChild /\ b = BeginEntry(e)
    OBVIOUS
  <1>3. /\ d \in 0 .. DepthLimit /\ doc \in [Nodes -> Element] /\ diags \in Seq(Diag)
        /\ n \in Nodes /\ i \in Nat /\ Len(Kids(n)) \in Nat
        /\ FrameFits(f, d) /\ Whole(f, d) /\ doc[n].kind = "map" /\ Top.waiting = {}
        /\ Stands(f, kind, n, i, items, {}, {})
    BY <1>1, <1>2, TopStands
  <1>4. PICK j : j = i + 1
    OBVIOUS
  <1>5. IsNext(n, i, j, e) /\ IsEntry(n, e) /\ e \in Nodes
    <2>1. j \in 1 .. Len(Kids(n)) /\ e = Kids(n)[j]
      BY <1>1, <1>2, <1>3, <1>4 DEF HasNext, NextChild
    <2>2. doc[e].kind = "entry"
      BY <1>2 DEF EntryBegin
    <2> QED
      BY <1>1, <1>2, <1>3, <1>4, <2>1, <2>2, NextChildType DEF IsNext, IsEntry
  <1>6. b \in EntryScan /\ ScanFits(b, d) /\ ScanAt(b, e, 0, {}, {}, {})
    BY <1>2, <1>3, <1>5, ScanBegins
  <1>7. PICK g : g = [Past EXCEPT !.entry = {b}]
    OBVIOUS
  <1>8. g \in Frame /\ g.node = Top.node /\ Stands(g, kind, n, j, items, {}, {b})
    <2>1. Past \in Frame /\ Stands(Past, Top.kind, Top.node, Top.idx + 1, Top.items, {}, {})
      BY <1>1, <1>3, PastStands
    <2>2. {b} \in SUBSET EntryScan
      BY <1>6
    <2> QED
      BY <1>2, <1>4, <1>7, <2>1, <2>2 DEF Frame, Stands
  <1>9. stack' = WithTop(g)
    BY <1>2, <1>7 DEF EntryBegin
  <1>10. FrameFits(g, d) /\ Whole(g, d)
    BY <1>3, <1>5, <1>6, <1>8, BeginFits
  <1>11. PICK said : said = EntryConflicts(e)
    OBVIOUS
  <1>12. LeftToSay(f, d) = Cat(said, LeftToSay(g, d)) /\ said \in Seq(Diag)
    BY <1>3, <1>5, <1>6, <1>8, <1>11, BeginSays
  <1>13. LeftToGather(g, d) = LeftToGather(f, d)
    BY <1>3, <1>5, <1>6, <1>8, BeginGathers
  <1>14. diags' = Cat(diags, said)
    <2>1. PICK k, v : /\ k = ConflictDiags(doc[e].key, doc[e].keyRef, e)
                      /\ v = ConflictDiags(doc[e].value, doc[e].valueRef, e)
      OBVIOUS
    <2>2. k \in Seq(Diag) /\ v \in Seq(Diag)
      BY <1>3, <1>5, <2>1, ConflictsType
    <2>3. said = Cat(k, v)
      BY <1>11, <2>1 DEF EntryConflicts, Cat
    <2>4. diags' = Cat(Cat(diags, k), v)
      BY <1>2, <2>1 DEF EntryBegin, Cat
    <2> QED
      BY <1>3, <2>2, <2>3, <2>4, CatAssociative
  <1> QED
    BY <1>1, <1>2, <1>8, <1>9, <1>10, <1>12, <1>13, <1>14, Walked DEF Whole

(* An entry is finished with its key and its value.                         *)
LEMMA EntryHasAll ==
  ASSUME doc \in [Nodes -> Element], NEW d, NEW e \in Nodes, NEW h, h = Len(Kids(e))
  PROVE  KeyUpTo(e, d, h) = EntryKey(e, d) /\ ValueUpTo(e, d, h) = EntryValue(e, d)
  <1>1. \A k \in 1 .. Len(Kids(e)) : k <= h
    BY EntryPlaces
  <1>2. {k \in Earliest(Found(e, d)) : k <= h} = Earliest(Found(e, d))
    <2>1. \A k \in Earliest(Found(e, d)) : k \in 1 .. Len(Kids(e))
      BY EntryPlaces DEF Earliest
    <2> QED
      BY <1>1, <2>1
  <1>3. {k \in ValueAt(e) : k <= h} = ValueAt(e)
    BY <1>1, EntryPlaces
  <1> QED
    BY <1>2, <1>3 DEF KeyUpTo, ValueUpTo, EntryKey, EntryValue

(* The map has then what was left of the child, and has said the rest.      *)
AtEnd(e, h) == h = Len(Kids(e))

(* After the last child of an entry only the entry's own diagnostics are    *)
(* left of it, and no call.                                                 *)
LEMMA EndSays ==
  ASSUME ConstantsOK, doc \in [Nodes -> Element], NEW d \in 0 .. DepthLimit,
         NEW n \in Nodes, NEW i, NEW e \in Nodes, IsChild(n, i, e),
         NEW kind, NEW items, NEW x, NEW f, Stands(f, kind, n, i, items, {}, {x}),
         NEW h, NEW key, NEW value, ScanAt(x, e, h, key, value, {}), AtEnd(e, h),
         NEW more, NEW g, Stands(g, kind, n, i, more, {}, {})
  PROVE  /\ LeftToSay(f, d) = Cat(MapEntryDiags(e), LeftToSay(g, d))
         /\ MapEntryDiags(e) \in Seq(Diag)
         /\ LeftToGather(g, d) = LeftToGather(f, d)
  <1>1. PICK ends, rest : ends = MapEntryDiags(e) /\ rest = SayFrom(n, d, i + 1)
    OBVIOUS
  <1>2. rest \in Seq(Diag)
    BY <1>1, NextSays DEF IsChild
  <1>3. h + 1 \in 1 .. Len(Kids(e)) + 1 /\ h + 1 = Len(Kids(e)) + 1
    BY EntryPlaces DEF AtEnd
  <1>4. ends \in Seq(Diag) /\ TellFrom(e, d, h + 1) = <<>> /\ AskFrom(e, d, h + 1) = {}
    BY <1>1, <1>3, RestType
  <1>5. LeftToSay(f, d) = Cat(ends, rest)
    <2>1. LeftToSay(f, d) = EntrySaysFrom(n, d, i + 1, e, h + 1)
      BY ScanningSays
    <2>2. LeftToSay(f, d) = Cat(Cat(<<>>, ends), rest)
      BY <1>1, <1>4, <2>1 DEF EntrySaysFrom
    <2> QED
      BY <1>4, <2>2, CatEmpty
  <1>6. LeftToSay(g, d) = rest
    <2>1. LeftToSay(g, d) = Cat(<<>>, rest)
      BY <1>1, StandsSays, SlotEmpty
    <2> QED
      BY <1>2, <2>1, CatEmpty
  <1>7. LeftToGather(g, d) = LeftToGather(f, d)
    <2>1. PICK own : own = Own(n, d)
      OBVIOUS
    <2>2. LeftToGather(f, d) = Both({own}, Calls(EntryLooks(n, d, i + 1, e, h + 1), d))
      BY <2>1, ScanningLooks
    <2>3. EntryLooks(n, d, i + 1, e, h + 1) = LookFrom(n, d, i + 1)
      BY <1>4 DEF EntryLooks, Both
    <2>4. LeftToGather(g, d) = {own} \cup Calls(Looks(n, d, i + 1, {}), d)
      BY <2>1, StandsLooks DEF Own
    <2>5. Looks(n, d, i + 1, {}) = LookFrom(n, d, i + 1)
      BY DEF Looks
    <2> QED
      BY <2>2, <2>3, <2>4, <2>5 DEF Both
  <1> QED
    BY <1>1, <1>4, <1>5, <1>6, <1>7

(* The map that adds what the entry comes to has gathered what its children *)
(* up to the entry add.                                                     *)
LEMMA EndFits ==
  ASSUME ConstantsOK, doc \in [Nodes -> Element], NEW d \in 0 .. DepthLimit,
         NEW n \in Nodes, NEW i, NEW e, IsChild(n, i, e),
         NEW kind, NEW items \in Seq(Item), NEW x, NEW f, Stands(f, kind, n, i, items, {}, {x}),
         FrameFits(f, d), Whole(f, d), NEW more, Gives(n, d, e, more),
         NEW g, Stands(g, kind, n, i, Cat(items, more), {}, {})
  PROVE  FrameFits(g, d) /\ Whole(g, d)
  <1>1. i \in 1 .. Len(Kids(n)) /\ e = Kids(n)[i]
    BY DEF IsChild
  <1>2. /\ AddFrom(n, d, i) = Cat(more, AddFrom(n, d, i + 1))
        /\ more \in Seq(Item) /\ AddFrom(n, d, i + 1) \in Seq(Item)
    BY <1>1, NextAdds DEF Gives
  <1>3. FrameFits(g, d)
    <2>1. kind = doc[n].kind /\ i <= Len(Kids(n))
      BY StandsFits
    <2> QED
      BY <2>1, StandsFits
  <1>4. PICK all : all = Gathers(n, d)
    OBVIOUS
  <1>5. Cat(items, AddFrom(n, d, i)) = all
    <2>1. {x} # {}
      OBVIOUS
    <2>2. Whole(f, d) <=> Cat(items, AddFrom(n, d, i)) = Gathers(n, d)
      BY <2>1, StandsGathers
    <2> QED
      BY <1>4, <2>2
  <1>6. Cat(Cat(items, more), AddFrom(n, d, i + 1)) = all
    BY <1>2, <1>5, CatAssociative
  <1>7. Whole(g, d)
    BY <1>4, <1>6, StandsGathers
  <1> QED
    BY <1>3, <1>7

(* RInv is kept when an entry has been read to its end.                     *)
LEMMA EntryFinishedKeeps ==
  ASSUME ConstantsOK, IInv, RInv, EntryFinished
  PROVE  RInv'
  <1>1. /\ stack # <<>> /\ incoming = {} /\ incoming' = {} /\ Top.kind = "map"
        /\ UNCHANGED <<doc, built, result>>
    BY DEF EntryFinished, Stepping, IInv, TypeOK
  <1>2. PICK x \in Top.entry :
          /\ ~EntryHasNext(x)
          /\ stack' = WithTop([Top EXCEPT !.entry = {},
               !.items = @ \o MapEntry(x.node, x.key, x.value)])
          /\ diags' = diags \o MapEntryDiags(x.node)
    BY DEF EntryFinished
  <1>3. PICK d, f, kind, n, i, items, e, h, key, value :
          /\ d = Len(stack) - 1 /\ f = Top /\ kind = Top.kind /\ n = Top.node /\ i = Top.idx
          /\ items = Top.items /\ e = x.node /\ h = x.idx /\ key = x.key /\ value = x.value
    OBVIOUS
  <1>4. /\ d \in 0 .. DepthLimit /\ doc \in [Nodes -> Element] /\ diags \in Seq(Diag)
        /\ FrameFits(f, d) /\ n \in Nodes /\ i \in 1 .. Len(Kids(n)) /\ items \in Seq(Item)
        /\ e = Kids(n)[i] /\ doc[e].kind = "entry" /\ doc[n].kind = "map"
        /\ x \in EntryScan /\ e \in Nodes /\ x.waiting = {} /\ ScanFits(x, d) /\ f \in Frame
        /\ x.idx \in Nat /\ Len(Kids(x.node)) \in Nat /\ x.idx <= Len(Kids(x.node))
    BY <1>1, <1>3, TopScans
  <1>5. Stands(f, kind, n, i, items, {}, {x}) /\ ScanAt(x, e, h, key, value, {})
    BY <1>1, <1>3, <1>4, TopScans
  <1>6. Whole(f, d)
    BY <1>1, <1>3, TopStands
  <1>7. h = Len(Kids(e)) /\ AtEnd(e, h)
    BY <1>2, <1>3, <1>4 DEF EntryHasNext, AtEnd
  <1>8. key = EntryKey(e, d) /\ value = EntryValue(e, d)
    <2>1. key = KeyUpTo(e, d, h) /\ value = ValueUpTo(e, d, h)
      BY <1>4, <1>5, ScanIdle
    <2> QED
      BY <1>4, <1>7, <2>1, EntryHasAll
  <1>9. PICK more : more = MapEntry(e, key, value)
    OBVIOUS
  <1>10. Gives(n, d, e, more) /\ IsChild(n, i, e)
    <2>1. Adds(n, d, e) = MapEntry(e, EntryKey(e, d), EntryValue(e, d))
      BY <1>4 DEF Adds
    <2> QED
      BY <1>4, <1>8, <1>9, <2>1 DEF Gives, IsChild
  <1>11. more \in Seq(Item)
    <2>1. key \in SUBSET Value /\ value \in SUBSET Value
      BY <1>3, <1>4 DEF EntryScan
    <2> QED
      BY <1>4, <1>9, <2>1, MapEntryType
  <1>12. PICK all : all = Cat(items, more)
    OBVIOUS
  <1>13. all \in Seq(Item)
    BY <1>4, <1>11, <1>12, CatType
  <1>14. PICK g : g = [Top EXCEPT !.entry = {}, !.items = all]
    OBVIOUS
  <1>15. g \in Frame /\ g.node = Top.node /\ Stands(g, kind, n, i, Cat(items, more), {}, {})
    <2>1. Top \in Frame /\ Top.waiting = {}
      BY <1>1, <1>3, <1>4, <1>5 DEF Stands
    <2>2. /\ g \in Frame /\ g.kind = Top.kind /\ g.node = Top.node /\ g.idx = Top.idx
          /\ g.waiting = {} /\ g.entry = {} /\ g.items = all
      BY <1>13, <1>14, <2>1 DEF Frame
    <2> QED
      BY <1>3, <1>12, <2>2 DEF Stands
  <1>16. stack' = WithTop(g)
    BY <1>2, <1>3, <1>4, <1>9, <1>12, <1>14 DEF Cat, Frame
  <1>17. FrameFits(g, d) /\ Whole(g, d)
    BY <1>4, <1>5, <1>6, <1>10, <1>15, EndFits
  <1>18. PICK said : said = MapEntryDiags(e)
    OBVIOUS
  <1>19. /\ LeftToSay(f, d) = Cat(said, LeftToSay(g, d)) /\ said \in Seq(Diag)
         /\ LeftToGather(g, d) = LeftToGather(f, d)
    <2>1. /\ d \in 0 .. DepthLimit /\ doc \in [Nodes -> Element] /\ n \in Nodes /\ e \in Nodes
          /\ IsChild(n, i, e) /\ AtEnd(e, h) /\ Stands(g, kind, n, i, all, {}, {})
      BY <1>4, <1>7, <1>10, <1>12, <1>15
    <2> QED
      BY <1>5, <1>18, <2>1, EndSays
  <1>20. diags' = Cat(diags, said)
    BY <1>2, <1>3, <1>18 DEF Cat
  <1> QED
    BY <1>1, <1>3, <1>15, <1>16, <1>17, <1>19, <1>20, Walked DEF Whole

(* The last child is behind: the frame returns.                             *)
LEMMA FinishedKeeps ==
  ASSUME ConstantsOK, IInv, RInv, BeanFinished \/ ListFinished \/ MapFinished
  PROVE  RInv'
  <1>1. PICK kind, form : /\ Finished(kind, form) /\ Top.entry = {}
                          /\ form = IF kind = "bean" THEN "inner" ELSE "collection"
    <2>1. ASSUME NEW kind, NEW form, Finished(kind, form), kind # "map"
          PROVE  Top.entry = {}
      <3>1. stack # <<>> /\ Top.kind = kind
        BY <2>1 DEF Finished, Stepping, IInv, TypeOK
      <3> QED
        BY <2>1, <3>1, Ready DEF FrameOK
    <2> QED
      BY <2>1 DEF BeanFinished, ListFinished, MapFinished
  <1>2. stack # <<>> /\ Top.kind = kind
    BY <1>1 DEF Finished, Stepping, IInv, TypeOK
  <1>3. form = Form(Top.node)
    <2>1. PICK d : d = Len(stack) - 1
      OBVIOUS
    <2>2. Top.kind = doc[Top.node].kind
      BY <1>2, <2>1, TopStands
    <2> QED
      BY <1>1, <1>2, <2>2 DEF Form
  <1> QED
    BY <1>1, <1>3, Left

(* Whatever a step does, what has been said and what is left go on to add   *)
(* up to the recursion.                                                     *)
LEMMA NextRInv ==
  ASSUME ConstantsOK, IInv, RInv, [Next]_vars
  PROVE  RInv'
  <1>1. CASE BeanStep
    BY <1>1, BeanOtherKeeps, InjectPlainKeeps, InjectResolvedKeeps, InjectDeferredKeeps,
       InjectDeliveredKeeps, FinishedKeeps DEF BeanStep
  <1>2. CASE ListStep
    BY <1>2, ItemResolvedKeeps, ItemDeferredKeeps, ItemDeliveredKeeps, FinishedKeeps DEF ListStep
  <1>3. CASE MapStep
    BY <1>3, MapSkipKeeps, EntryBeginKeeps, EntrySkipKeeps, KeyResolvedKeeps, KeyDeferredKeeps,
       ValueResolvedKeeps, ValueDeferredKeeps, EntryDeliveredKeeps, EntryFinishedKeeps,
       FinishedKeeps DEF MapStep
  <1>4. CASE UNCHANGED vars
    <2>1. /\ doc' = doc /\ stack' = stack /\ incoming' = incoming
          /\ diags' = diags /\ built' = built /\ result' = result
      BY <1>4 DEF vars
    <2>2. doc \in [Nodes -> Element]
      BY DEF IInv, TypeOK
    <2>3. /\ \A f, d : LeftToSay(f, d)' = LeftToSay(f, d) /\ LeftToGather(f, d)' = LeftToGather(f, d)
          /\ \A f, d : FrameFits(f, d)' <=> FrameFits(f, d)
          /\ \A f, d, awaits : Gathering(f, d, awaits)' <=> Gathering(f, d, awaits)
          /\ Facts' = Facts /\ RecursionSays' = RecursionSays
      BY <2>1, <2>2, LeftStays, RecursionStays
    <2>4. \A k \in 1 .. Len(stack) :
            FrameFits(stack[k], k - 1)' /\ Gathering(stack[k], k - 1, Awaits(k))'
      <3>1. SUFFICES ASSUME NEW k \in 1 .. Len(stack)
                     PROVE  FrameFits(stack[k], k - 1)' /\ Gathering(stack[k], k - 1, Awaits(k))'
        OBVIOUS
      <3>2. PICK f, a : f = stack[k] /\ a = Awaits(k)
        OBVIOUS
      <3>3. FrameFits(f, k - 1) /\ Gathering(f, k - 1, a)
        BY <3>2 DEF RInv
      <3>4. stack'[k] = f /\ Awaits(k)' = a
        BY <2>1, <3>2 DEF Awaits
      <3> QED
        BY <2>3, <3>3, <3>4
    <2>5. \A k \in 2 .. Len(stack) : Descends(stack[k].node, k - 2)'
      BY <2>1, TreeStays DEF RInv
    <2>6. \A v \in incoming : v = Val(Form(v.node), v.node)' /\ Descends(v.node, Len(stack) - 1)'
      <3>1. SUFFICES ASSUME NEW v \in incoming
                     PROVE  v = Val(Form(v.node), v.node)' /\ Descends(v.node, Len(stack) - 1)'
        OBVIOUS
      <3>2. v = Val(Form(v.node), v.node) /\ Descends(v.node, Len(stack) - 1)
        BY DEF RInv
      <3>3. Form(v.node)' = Form(v.node) /\ Len(stack') = Len(stack)
        BY <2>1, TreeStays
      <3> QED
        BY <2>1, <3>2, <3>3, TreeStays DEF Val
    <2>7. SaidSoFar'
      <3>1. SaidSoFar
        BY DEF RInv
      <3>2. PICK left \in [0 .. Len(stack) -> Seq(Diag)] :
              /\ left[0] = <<>>
              /\ \A k \in 1 .. Len(stack) : left[k] = LeftToSay(stack[k], k - 1) \o left[k - 1]
              /\ RecursionSays = diags \o left[Len(stack)]
        BY <3>1 DEF SaidSoFar
      <3>3. \A k \in 1 .. Len(stack) : LeftToSay(stack[k], k - 1)' = LeftToSay(stack[k], k - 1)
        <4>1. SUFFICES ASSUME NEW k \in 1 .. Len(stack)
                       PROVE  LeftToSay(stack[k], k - 1)' = LeftToSay(stack[k], k - 1)
          OBVIOUS
        <4>2. PICK f : f = stack[k]
          OBVIOUS
        <4>3. stack'[k] = f
          BY <2>1, <4>2
        <4> QED
          BY <2>3, <4>2, <4>3
      <3> QED
        BY <2>1, <2>3, <3>2, <3>3 DEF SaidSoFar
    <2>8. GatheredSoFar'
      <3>1. \A k \in 1 .. Len(stack) : LeftToGather(stack[k], k - 1)' = LeftToGather(stack[k], k - 1)
        <4>1. SUFFICES ASSUME NEW k \in 1 .. Len(stack)
                       PROVE  LeftToGather(stack[k], k - 1)' = LeftToGather(stack[k], k - 1)
          OBVIOUS
        <4>2. PICK f : f = stack[k]
          OBVIOUS
        <4>3. stack'[k] = f
          BY <2>1, <4>2
        <4> QED
          BY <2>3, <4>2, <4>3
      <3> QED
        BY <2>1, <2>3, <3>1 DEF RInv, GatheredSoFar
    <2> QED
      BY <2>1, <2>4, <2>5, <2>6, <2>7, <2>8 DEF RInv
  <1> QED
    BY <1>1, <1>2, <1>3, <1>4 DEF Next

(* All is left to be said, and to be gathered, at the outset.               *)
LEMMA InitRInv ==
  ASSUME ConstantsOK, Init
  PROVE  RInv
  <1>1. doc \in [Nodes -> Element] /\ RootBean \in Nodes /\ doc[RootBean].kind = "bean"
    BY DEF ConstantsOK, Init
  <1>2. PICK f, said : /\ f = [FrameFor(RootBean, 0) EXCEPT !.depth = 0]
                       /\ said = DiagnoseIf(doc[RootBean].flawed, "BeanAttributes", RootBean)
    OBVIOUS
  <1>3. /\ stack = <<f>> /\ diags = said /\ incoming = {} /\ built = {} /\ result = {}
    BY <1>2 DEF Init
  <1>4. f.node = RootBean /\ FreshAt(f, RootBean)
    BY <1>2 DEF FrameFor, FreshAt
  <1>5. /\ FrameFits(f, 0) /\ Gathering(f, 0, FALSE)
        /\ LeftToSay(f, 0) = Said[0][RootBean] /\ LeftToGather(f, 0) = Facts[0][RootBean]
        /\ Said[0][RootBean] \in Seq(Diag)
    <2>1. PICK d, c : d = 0 /\ c = RootBean /\ d \in 0 .. DepthLimit /\ c \in Nodes
      BY <1>1 DEF ConstantsOK
    <2>2. FreshAt(f, c)
      BY <1>4, <2>1
    <2>3. /\ FrameFits(f, d) /\ Gathering(f, d, FALSE)
          /\ LeftToSay(f, d) = Said[d][c] /\ LeftToGather(f, d) = Facts[d][c]
      BY <1>1, <2>1, <2>2, Fresh
    <2>4. Said[d][c] \in Seq(Diag)
      BY <1>1, <2>1, SaidReads
    <2> QED
      BY <2>1, <2>3, <2>4
  <1>6. Len(stack) = 1 /\ stack[1] = f
    BY <1>3
  <1>7. \A k \in 1 .. Len(stack) : FrameFits(stack[k], k - 1) /\ Gathering(stack[k], k - 1, Awaits(k))
    <2>1. SUFFICES ASSUME NEW k \in 1 .. Len(stack)
                   PROVE  FrameFits(stack[k], k - 1) /\ Gathering(stack[k], k - 1, Awaits(k))
      OBVIOUS
    <2>2. k = 1 /\ k - 1 = 0
      BY <1>6, <2>1
    <2>3. Awaits(k) = FALSE
      BY <1>3, <1>6, <2>2 DEF Awaits
    <2> QED
      BY <1>5, <1>6, <2>2, <2>3
  <1>8. SaidSoFar
    <2>1. PICK all : all = Said[0][RootBean]
      OBVIOUS
    <2>2. PICK left : left = [k \in 0 .. 1 |-> IF k = 0 THEN <<>> ELSE all]
      OBVIOUS
    <2>3. /\ left \in [0 .. 1 -> Seq(Diag)] /\ left[0] = <<>> /\ left[1] = all
      <3>1. <<>> \in Seq(Diag)
        BY EmptySeq
      <3> QED
        BY <1>5, <2>1, <2>2, <3>1
    <2>4. left[1] = LeftToSay(f, 0) \o left[0]
      <3>1. all \o <<>> = all
        BY <1>5, <2>1, ConcatEmptySeq
      <3> QED
        BY <1>5, <2>1, <2>3, <3>1
    <2>5. \A k \in 1 .. Len(stack) : left[k] = LeftToSay(stack[k], k - 1) \o left[k - 1]
      <3>1. SUFFICES ASSUME NEW k \in 1 .. Len(stack)
                     PROVE  left[k] = LeftToSay(stack[k], k - 1) \o left[k - 1]
        OBVIOUS
      <3>2. k = 1 /\ k - 1 = 0
        BY <1>6, <3>1
      <3> QED
        BY <1>6, <2>4, <3>2
    <2>6. RecursionSays = diags \o left[Len(stack)]
      BY <1>2, <1>3, <1>6, <2>1, <2>3 DEF RecursionSays
    <2> QED
      BY <1>6, <2>3, <2>5, <2>6 DEF SaidSoFar
  <1>9. GatheredSoFar
    <2>1. \A k : k \in 1 .. Len(stack) <=> k = 1
      BY <1>6
    <2>2. \A k : k = 1 => LeftToGather(stack[k], k - 1) = Facts[0][RootBean]
      BY <1>5, <1>6
    <2>3. UNION {LeftToGather(stack[k], k - 1) : k \in 1 .. Len(stack)} = Facts[0][RootBean]
      BY <2>1, <2>2
    <2> QED
      BY <1>3, <2>3 DEF GatheredSoFar
  <1>10. stack[1].node = RootBean /\ \A k \in 2 .. Len(stack) : Descends(stack[k].node, k - 2)
    BY <1>4, <1>6
  <1> QED
    BY <1>1, <1>3, <1>7, <1>8, <1>9, <1>10 DEF RInv

(* In every state of every run, what the engine has said and what its       *)
(* frames have left to say is what the recursion says; and likewise for     *)
(* what is built.                                                           *)
THEOREM RecursionInvariance == Spec => []RInv
  <1>1. Init => RInv
    BY ConstantsOK, InitRInv
  <1>2. IInv /\ RInv /\ [Next]_vars => RInv'
    BY ConstantsOK, NextRInv
  <1> QED
    BY <1>1, <1>2, Invariance, PTL DEF Spec

(* The explicit stack says what the recursion of parse_bean said before it, *)
(* in that order, and all of it: "the exact same diagnostic sequence".      *)
THEOREM SaysWhatTheRecursionSays == Spec => []SameDiagnostics
  <1>1. ASSUME IInv, RInv PROVE SameDiagnostics
    <2>1. stack \in Seq(Frame) /\ diags \in Seq(Diag) /\ (result # {} => stack = <<>>)
      BY <1>1 DEF IInv, TypeOK
    <2>2. PICK left \in [0 .. Len(stack) -> Seq(Diag)] :
            left[0] = <<>> /\ RecursionSays = diags \o left[Len(stack)]
      BY <1>1 DEF RInv, SaidSoFar
    <2>3. PICK n, rest : n = Len(stack) /\ rest = left[n]
      OBVIOUS
    <2>4. n \in Nat /\ rest \in Seq(Diag)
      BY <2>1, <2>2, <2>3, LenProperties
    <2>5. PICK said : said = RecursionSays
      OBVIOUS
    <2>6. said = diags \o rest
      BY <2>2, <2>3, <2>5
    <2>7. /\ said \in Seq(Diag) /\ Len(said) = Len(diags) + Len(rest)
          /\ \A k \in 1 .. Len(diags) + Len(rest) :
               said[k] = IF k <= Len(diags) THEN diags[k] ELSE rest[k - Len(diags)]
          /\ Len(diags) \in Nat /\ Len(rest) \in Nat
      BY <2>1, <2>4, <2>6, ConcatProperties, LenProperties
    <2>8. Len(diags) <= Len(said) /\ \A k \in 1 .. Len(diags) : diags[k] = said[k]
      BY <2>7
    <2>9. result # {} => diags = said
      <3>1. SUFFICES ASSUME result # {} PROVE diags = said
        OBVIOUS
      <3>2. rest = <<>>
        BY <2>1, <2>2, <2>3, <3>1
      <3> QED
        BY <2>1, <2>6, <3>2, ConcatEmptySeq
    <2> QED
      BY <2>5, <2>8, <2>9 DEF SameDiagnostics
  <1> QED
    BY <1>1, Invariance, RecursionInvariance, PTL

(* It builds what the recursion builds: every bean and collection with the  *)
(* values the recursion gives it and nothing else, all of it in the end.    *)
THEOREM BuildsWhatTheRecursionBuilds == Spec => []SameValues
  <1>1. ASSUME IInv, RInv PROVE SameValues
    <2>1. /\ result # {} => stack = <<>>
          /\ result \subseteq Value /\ AtMostOne(result)
      BY <1>1 DEF IInv, TypeOK
    <2>2. PICK facts : facts = Facts[0][RootBean]
      OBVIOUS
    <2>3. facts = built \cup UNION {LeftToGather(stack[k], k - 1) : k \in 1 .. Len(stack)}
      BY <1>1, <2>2 DEF RInv, GatheredSoFar
    <2>4. result # {} => built = facts
      <3>1. SUFFICES ASSUME result # {} PROVE built = facts
        OBVIOUS
      <3>2. 1 .. Len(stack) = {}
        BY <2>1, <3>1
      <3> QED
        BY <2>3, <3>2
    <2>5. result # {} => result = {Val("inner", RootBean)}
      BY <1>1 DEF RInv
    <2> QED
      BY <2>2, <2>3, <2>4, <2>5 DEF SameValues
  <1> QED
    BY <1>1, Invariance, RecursionInvariance, PTL
=============================================================================
