--------------------------- MODULE BeansBodyProofs ---------------------------
(* Theorems about the body engine, for every document and depth limit.      *)
EXTENDS BodiesAsDeclared, StackLemmas, FiniteSetTheorems

(* A cursor stays within the children of its element, and a body has only   *)
(* what is before the cursor.  Without the first half nothing is known of   *)
(* the context of a body that is finished.                                  *)
FrameOK(f) == f.idx <= Len(Kids(f.node)) /\ HoldsOnly(f.ctx, f.node, f.idx)

(* What the invariants say of the stack alone.                              *)
StackOK ==
  /\ stack \in Seq(Frame)
  /\ \A i \in 1 .. Len(stack) : FrameOK(stack[i])
  /\ \A i \in 1 .. Len(stack) - 1 : stack[i].idx > 0 /\ stack[i + 1].node = Taken(stack[i])
  /\ DepthBounded

(* The inductive invariant.                                                 *)
IInv ==
  /\ TypeOK /\ DeliversToParent /\ NothingStrays /\ DepthBounded
  /\ \A i \in 1 .. Len(stack) : FrameOK(stack[i])
-----------------------------------------------------------------------------
(* Lemmas about the operators of BeansBody.                                 *)

(* Every element of the tree has its declarations and children.             *)
LEMMA ElementType ==
  ASSUME doc \in [Nodes -> Element], NEW n \in Nodes
  PROVE  /\ doc[n].xmlns \in NsScope /\ Kids(n) \in Seq(Nodes)
         /\ doc[n].flawed \in BOOLEAN
  <1>1. doc[n] \in Element
    OBVIOUS
  <1> QED
    BY <1>1 DEF Element, Kids

(* A child of an element is an element.                                     *)
LEMMA KidType ==
  ASSUME doc \in [Nodes -> Element], NEW n \in Nodes, NEW i \in 1 .. Len(Kids(n))
  PROVE  Kids(n)[i] \in Nodes
  <1>1. Kids(n) \in Seq(Nodes)
    BY ElementType
  <1> QED
    BY <1>1, ElementOfSeq

(* One diagnostic, or none, is a sequence of diagnostics.                   *)
LEMMA DiagnoseType ==
  ASSUME NEW b, NEW code \in Code, NEW n \in Nodes
  PROVE  /\ Diagnose(code, n) \in Seq(Diag)
         /\ DiagnoseIf(b, code, n) \in Seq(Diag)
  <1>1. [code |-> code, at |-> {n}] \in Diag
    BY DEF Diag, Option
  <1> QED
    BY <1>1 DEF DiagnoseIf, Diagnose

(* The scope of an element is a scope.                                      *)
LEMMA OverlayType ==
  ASSUME doc \in [Nodes -> Element], NEW scope \in NsScope, NEW n \in Nodes
  PROVE  Overlay(scope, n) \in NsScope
  <1>1. doc[n].xmlns \in NsScope
    BY ElementType
  <1> QED
    BY <1>1 DEF Overlay, NsScope

(* An empty context strays nowhere.                                         *)
LEMMA EmptyHolds ==
  ASSUME NEW n, NEW read
  PROVE  EmptyCtx \in BeansFileCtx /\ HoldsOnly(EmptyCtx, n, read)
  <1>1. EmptyCtx \in BeansFileCtx
    BY DEF EmptyCtx, BeansFileCtx
  <1>2. \A slot \in Slot : Len(EmptyCtx[slot]) = 0
    BY DEF EmptyCtx
  <1> QED
    BY <1>1, <1>2 DEF HoldsOnly

(* A new frame has read nothing.                                            *)
LEMMA FrameForType ==
  ASSUME doc \in [Nodes -> Element], NEW n \in Nodes, NEW scope \in NsScope, NEW d \in Nat
  PROVE  /\ FrameFor(n, scope, d) \in Frame
         /\ FrameOK(FrameFor(n, scope, d))
         /\ FrameFor(n, scope, d).node = n /\ FrameFor(n, scope, d).depth = d
  <1> DEFINE f == FrameFor(n, scope, d)
  <1>1. f.node = n /\ f.idx = 0 /\ f.depth = d /\ f.ctx = EmptyCtx
    BY DEF FrameFor
  <1>2. f \in Frame
    BY OverlayType, EmptyHolds DEF FrameFor, Frame
  <1>3. Len(Kids(n)) \in Nat
    BY ElementType
  <1> HIDE DEF f
  <1>4. FrameOK(f)
    BY <1>1, <1>3, EmptyHolds DEF FrameOK
  <1> QED
    BY <1>1, <1>2, <1>4 DEF f

(* What a body has read it still has read further on.                       *)
LEMMA HoldsOnlyMore ==
  ASSUME NEW ctx, NEW n, NEW i \in Nat, NEW j \in Nat, i <= j, HoldsOnly(ctx, n, i)
  PROVE  HoldsOnly(ctx, n, j)
  <1>1. \A k \in 1 .. i : k \in 1 .. j
    OBVIOUS
  <1> QED
    BY <1>1 DEF HoldsOnly

(* Keeping the child that has just been read keeps a frame sound.           *)
LEMMA KeptType ==
  ASSUME doc \in [Nodes -> Element], NEW f \in Frame, FrameOK(f), f.idx > 0,
         NEW slot \in Slot
  PROVE  /\ Kept(f, slot, Taken(f)) \in Frame
         /\ FrameOK(Kept(f, slot, Taken(f)))
         /\ Kept(f, slot, Taken(f)).node = f.node
         /\ Kept(f, slot, Taken(f)).depth = f.depth
         /\ Kept(f, slot, Taken(f)).idx = f.idx
  <1> DEFINE n == Taken(f)
             ctx == [f.ctx EXCEPT ![slot] = Append(@, n)]
             g == Kept(f, slot, n)
  <1>1. f.node \in Nodes /\ f.idx \in Nat /\ f.ctx \in BeansFileCtx /\ f.depth \in Nat
    BY DEF Frame
  <1>2. f.idx \in 1 .. Len(Kids(f.node)) /\ f.idx \in 1 .. f.idx
    <2>1. Len(Kids(f.node)) \in Nat
      BY <1>1, ElementType
    <2> QED
      BY <1>1, <2>1 DEF FrameOK
  <1>3. n \in Nodes
    BY <1>1, <1>2, KidType DEF Taken
  <1>4. f.ctx[slot] \in Seq(Nodes)
    BY <1>1 DEF BeansFileCtx
  <1>5. /\ Append(f.ctx[slot], n) \in Seq(Nodes)
        /\ Len(Append(f.ctx[slot], n)) = Len(f.ctx[slot]) + 1
        /\ \A j \in 1 .. Len(f.ctx[slot]) : Append(f.ctx[slot], n)[j] = f.ctx[slot][j]
        /\ Append(f.ctx[slot], n)[Len(f.ctx[slot]) + 1] = n
    BY <1>3, <1>4, AppendProperties
  <1>6. ctx \in BeansFileCtx
    BY <1>1, <1>5 DEF BeansFileCtx
  <1>7. /\ g \in Frame /\ g.ctx = ctx
        /\ g.node = f.node /\ g.depth = f.depth /\ g.idx = f.idx
    <2>1. g = [f EXCEPT !.ctx = ctx]
      BY DEF Kept
    <2> HIDE DEF ctx, g
    <2> QED
      BY <1>6, <2>1 DEF Frame
  <1>8. HoldsOnly(ctx, f.node, f.idx)
    <2>1. SUFFICES ASSUME NEW s \in Slot, NEW j \in 1 .. Len(ctx[s])
                   PROVE  \E i \in 1 .. f.idx : ctx[s][j] = Kids(f.node)[i]
      BY DEF HoldsOnly
    <2>2. \A t \in Slot : \A k \in 1 .. Len(f.ctx[t]) :
            \E i \in 1 .. f.idx : f.ctx[t][k] = Kids(f.node)[i]
      BY DEF FrameOK, HoldsOnly
    <2>3. CASE s # slot
      <3>1. ctx[s] = f.ctx[s]
        BY <1>1, <2>3 DEF BeansFileCtx
      <3> HIDE DEF ctx
      <3>2. j \in 1 .. Len(f.ctx[s])
        BY <3>1
      <3> QED
        BY <2>2, <3>1, <3>2
    <2>4. CASE s = slot
      <3>1. ctx[s] = Append(f.ctx[slot], n)
        BY <1>1, <2>4 DEF BeansFileCtx
      <3>2. Len(f.ctx[slot]) \in Nat
        BY <1>4
      <3>3. CASE j \in 1 .. Len(f.ctx[slot])
        BY <1>5, <2>2, <3>1, <3>3
      <3>4. CASE j = Len(f.ctx[slot]) + 1
        <4>1. ctx[s][j] = Kids(f.node)[f.idx]
          BY <1>5, <3>1, <3>4 DEF Taken
        <4> QED
          BY <1>2, <4>1
      <3>5. j \in 1 .. Len(f.ctx[slot]) \/ j = Len(f.ctx[slot]) + 1
        BY <1>5, <3>1, <3>2
      <3> QED
        BY <3>3, <3>4, <3>5
    <2> QED
      BY <2>3, <2>4
  <1> HIDE DEF ctx, g
  <1>9. FrameOK(g)
    BY <1>7, <1>8 DEF FrameOK
  <1> QED
    BY <1>7, <1>9 DEF g
-----------------------------------------------------------------------------
(* The three things a step does to the stack.                               *)

LEMMA StackFromInv ==
  ASSUME IInv
  PROVE  StackOK
  BY DEF IInv, TypeOK, DeliversToParent, StackOK

(* The top is a frame, with the depth its place in the stack gives it.      *)
LEMMA TopType ==
  ASSUME StackOK, stack # <<>>
  PROVE  /\ Len(stack) \in Nat /\ Len(stack) >= 1
         /\ Top = stack[Len(stack)]
         /\ Top \in Frame /\ FrameOK(Top) /\ Top.depth = Len(stack) - 1
  <1>1. Len(stack) \in 1 .. Len(stack)
    BY EmptySeq DEF StackOK
  <1>2. stack[Len(stack)] \in Frame /\ FrameOK(stack[Len(stack)])
    BY <1>1, ElementOfSeq DEF StackOK
  <1>3. stack[Len(stack)].depth = Len(stack) - 1
    BY <1>1 DEF StackOK, DepthBounded
  <1>4. Len(stack) \in Nat /\ Len(stack) >= 1
    BY EmptySeq DEF StackOK
  <1> QED
    BY <1>2, <1>3, <1>4 DEF Top

(* What is said of a frame depends on it and on the tree only.              *)
LEMMA FrameStable ==
  ASSUME UNCHANGED doc, NEW f, NEW i, stack'[i] = f
  PROVE  /\ FrameOK(stack[i])' <=> FrameOK(f)
         /\ Taken(stack[i])' = Taken(f)
  <1>1. (FrameOK(stack[i]))' <=> FrameOK(f)
    BY DEF FrameOK, HoldsOnly, Kids
  <1>2. (Taken(stack[i]))' = Taken(f)
    BY DEF Taken, Kids
  <1> QED
    BY <1>1, <1>2

(* The top frame moves on in its own body.                                  *)
LEMMA Replaced ==
  ASSUME StackOK, stack # <<>>, UNCHANGED doc,
         NEW f \in Frame, FrameOK(f), f.node = Top.node, f.depth = Top.depth,
         stack' = WithTop(f)
  PROVE  /\ StackOK' /\ stack' # <<>> /\ stack'[1].node = stack[1].node
  <1> DEFINE n == Len(stack)
  <1>1. /\ stack' \in Seq(Frame) /\ Len(stack') = n
        /\ \A i \in 1 .. n : stack'[i] = IF i = n THEN f ELSE stack[i]
    BY ReplaceLast DEF StackOK, WithTop
  <1>2. n \in Nat /\ n >= 1
    BY EmptySeq DEF StackOK
  <1>3. \A i \in 1 .. n : stack'[i].node = stack[i].node /\ stack'[i].depth = stack[i].depth
    BY <1>1 DEF Top
  <1>4. \A i \in 1 .. n : FrameOK(stack[i])'
    BY <1>1, FrameStable DEF StackOK
  <1>5. \A i \in 1 .. n - 1 : (stack[i].idx > 0 /\ stack[i + 1].node = Taken(stack[i]))'
    <2>1. SUFFICES ASSUME NEW i \in 1 .. n - 1
                   PROVE  (stack[i].idx > 0 /\ stack[i + 1].node = Taken(stack[i]))'
      OBVIOUS
    <2>2. stack'[i] = stack[i] /\ stack'[i + 1].node = stack[i + 1].node
      BY <1>1, <1>2, <1>3
    <2> QED
      BY <2>2 DEF StackOK, Taken, Kids
  <1>6. DepthBounded'
    BY <1>1, <1>3 DEF StackOK, DepthBounded
  <1>7. 1 \in 1 .. n
    BY <1>2
  <1> QED
    BY <1>1, <1>2, <1>3, <1>4, <1>5, <1>6, <1>7, EmptySeq DEF StackOK

(* A frame is pushed for the child the top frame has just taken.            *)
LEMMA Pushed ==
  ASSUME StackOK, stack # <<>>, UNCHANGED doc,
         NEW f \in Frame, FrameOK(f), f.node = Top.node, f.depth = Top.depth, f.idx > 0,
         NEW g \in Frame, FrameOK(g), g.node = Taken(f), g.depth = f.depth + 1,
         g.depth < DepthLimit,
         stack' = Append(WithTop(f), g)
  PROVE  /\ StackOK' /\ stack' # <<>> /\ stack'[1].node = stack[1].node
  <1> DEFINE n == Len(stack)
             s == WithTop(f)
  <1>1. /\ s \in Seq(Frame) /\ Len(s) = n
        /\ \A i \in 1 .. n : s[i] = IF i = n THEN f ELSE stack[i]
    BY ReplaceLast DEF StackOK, WithTop
  <1>2. n \in Nat /\ n >= 1 /\ Top = stack[n] /\ Top.depth = n - 1
    BY TopType
  <1> HIDE DEF s
  <1>3. /\ stack' \in Seq(Frame) /\ Len(stack') = n + 1 /\ stack' # <<>>
        /\ \A i \in 1 .. n : stack'[i] = s[i]
        /\ stack'[n + 1] = g
    BY <1>1, AppendProperties DEF s
  <1>4. \A i \in 1 .. n : stack'[i] = IF i = n THEN f ELSE stack[i]
    BY <1>1, <1>3
  <1>5. \A i \in 1 .. n : stack'[i].node = stack[i].node /\ stack'[i].depth = stack[i].depth
    BY <1>2, <1>4
  <1>6. \A i \in 1 .. n + 1 : FrameOK(stack[i])'
    <2>1. \A i \in 1 .. n : FrameOK(stack'[i])
      BY <1>4 DEF StackOK
    <2>2. \A i \in 1 .. n + 1 : FrameOK(stack'[i])
      BY <1>2, <1>3, <2>1
    <2> QED
      BY <2>2, FrameStable
  <1>7. \A i \in 1 .. n : (stack[i].idx > 0 /\ stack[i + 1].node = Taken(stack[i]))'
    <2>1. SUFFICES ASSUME NEW i \in 1 .. n
                   PROVE  (stack[i].idx > 0 /\ stack[i + 1].node = Taken(stack[i]))'
      OBVIOUS
    <2>2. CASE i = n
      <3>1. stack'[i] = f /\ stack'[i + 1].node = Taken(f)
        BY <1>3, <1>4, <2>2
      <3>2. Taken(stack[i])' = Taken(f)
        BY <3>1, FrameStable
      <3> QED
        BY <3>1, <3>2
    <2>3. CASE i # n
      <3>1. i \in 1 .. n - 1 /\ i \in 1 .. n /\ i + 1 \in 1 .. n
        <4> HIDE DEF n
        <4> QED
          BY <1>2, <2>3
      <3>2. stack'[i] = stack[i] /\ stack'[i + 1].node = stack[i + 1].node
        BY <1>4, <1>5, <2>3, <3>1
      <3> QED
        BY <3>1, <3>2 DEF StackOK, Taken, Kids
    <2> QED
      BY <2>2, <2>3
  <1>8. DepthBounded'
    <2>1. g.depth = n /\ n + 1 <= DepthLimit
      BY <1>2, ConstantsOK
    <2>2. \A i \in 1 .. n + 1 : stack'[i].depth = i - 1
      BY <1>2, <1>3, <1>5, <2>1 DEF StackOK, DepthBounded
    <2> QED
      BY <1>3, <2>1, <2>2 DEF DepthBounded
  <1>9. 1 \in 1 .. n /\ n + 1 - 1 = n
    BY <1>2
  <1> QED
    BY <1>3, <1>5, <1>6, <1>7, <1>8, <1>9 DEF StackOK

(* A finished frame leaves the one it was pushed over on top.               *)
LEMMA Popped ==
  ASSUME StackOK, stack # <<>>, UNCHANGED doc,
         stack' = SubSeq(stack, 1, Len(stack) - 1)
  PROVE  /\ StackOK'
         /\ stack' = <<>> <=> Len(stack) = 1
         /\ Len(stack) # 1 => /\ stack'[1].node = stack[1].node
                              /\ (Top.idx > 0)' /\ Top.node = Taken(Top)'
  <1> DEFINE n == Len(stack)
  <1>1. n \in Nat /\ n >= 1
    BY EmptySeq DEF StackOK
  <1>2. stack \in Seq(Frame)
    BY DEF StackOK
  <1>3. /\ stack' \in Seq(Frame) /\ Len(stack') = n - 1
        /\ \A i \in 1 .. n - 1 : stack'[i] = stack[i]
        /\ stack' = <<>> <=> n = 1
    BY <1>2, RemoveLast
  <1>4. \A i \in 1 .. n - 1 : FrameOK(stack[i])'
    <2>1. \A i \in 1 .. n - 1 : stack'[i] = stack[i] /\ FrameOK(stack[i])
      BY <1>1, <1>3 DEF StackOK
    <2> QED
      BY <2>1, FrameStable
  <1>5. \A i \in 1 .. n - 2 : (stack[i].idx > 0 /\ stack[i + 1].node = Taken(stack[i]))'
    <2>1. SUFFICES ASSUME NEW i \in 1 .. n - 2
                   PROVE  (stack[i].idx > 0 /\ stack[i + 1].node = Taken(stack[i]))'
      OBVIOUS
    <2>2. stack'[i] = stack[i] /\ stack'[i + 1] = stack[i + 1] /\ i \in 1 .. n - 1
      BY <1>1, <1>3
    <2> QED
      BY <2>2 DEF StackOK, Taken, Kids
  <1>6. DepthBounded'
    BY <1>1, <1>3, ConstantsOK DEF StackOK, DepthBounded
  <1>7. ASSUME n # 1
        PROVE  /\ stack'[1].node = stack[1].node
               /\ (Top.idx > 0)' /\ Top.node = Taken(Top)'
    <2>1. n - 1 \in 1 .. n - 1 /\ (n - 1) + 1 = n /\ 1 \in 1 .. n - 1
      <3> HIDE DEF n
      <3> QED
        BY <1>1, <1>7
    <2>2. Top' = stack[n - 1] /\ stack'[1] = stack[1]
      BY <1>3, <2>1 DEF Top
    <2>3. stack[n - 1].idx > 0 /\ stack[n].node = Taken(stack[n - 1])
      BY <2>1 DEF StackOK
    <2> QED
      BY <2>2, <2>3 DEF Top, Taken, Kids
  <1> QED
    BY <1>1, <1>3, <1>4, <1>5, <1>6, <1>7 DEF StackOK
-----------------------------------------------------------------------------
(* The invariant, for the three kinds of steps.                             *)

(* What is left to show of a step when its stack is known to be sound.      *)
LEMMA InvFromStack ==
  ASSUME IInv, UNCHANGED doc, StackOK',
         (stage = "body" <=> stack # <<>>)', (stage = "body" => root = {stack[1].node})',
         stage' \in {"root", "body", "done"}, root' \in Option({RootElement}),
         incoming' \in Option(Nodes), (incoming # {} => stage = "body")',
         (\A n \in incoming : Top.idx > 0 /\ n = Taken(Top))',
         diags' \in Seq(Diag),
         files' \subseteq File,
         \A f \in files' \ files : HoldsOnly(f.ctx, f.node, Len(Kids(f.node))),
         (result \subseteq root /\ (result # {} => stage = "done"))'
  PROVE  IInv'
  <1>1. TypeOK'
    BY DEF IInv, TypeOK, StackOK
  <1>2. DeliversToParent'
    BY DEF DeliversToParent, StackOK
  <1>3. NothingStrays'
    <2>1. \A f \in files' : HoldsOnly(f.ctx, f.node, Len(Kids(f.node)))
      BY DEF IInv, NothingStrays
    <2>2. \A f \in files' : HoldsOnly(f.ctx, f.node, Len(Kids(f.node)))'
      BY <2>1 DEF HoldsOnly, Kids
    <2>3. (\A i \in 1 .. Len(stack) : HoldsOnly(stack[i].ctx, stack[i].node, stack[i].idx))'
      BY DEF StackOK, FrameOK
    <2> QED
      BY <2>2, <2>3 DEF NothingStrays
  <1> QED
    BY <1>1, <1>2, <1>3 DEF IInv, StackOK

(* A step that leaves the top frame at a child it has read.                 *)
LEMMA Advanced ==
  ASSUME IInv, stage = "body", UNCHANGED <<doc, root, stage, result>>, incoming' = {},
         diags' \in Seq(Diag), files' \subseteq File,
         \A f \in files' \ files : HoldsOnly(f.ctx, f.node, Len(Kids(f.node))),
         NEW f \in Frame, FrameOK(f), f.node = Top.node, f.depth = Top.depth,
         stack' = WithTop(f)
  PROVE  IInv'
  <1>1. StackOK /\ stack # <<>>
    BY StackFromInv DEF IInv, TypeOK
  <1>2. StackOK' /\ stack' # <<>> /\ stack'[1].node = stack[1].node
    BY <1>1, Replaced
  <1>3. root = {stack[1].node} /\ root \in Option({RootElement}) /\ result = {}
    BY DEF IInv, TypeOK, DeliversToParent
  <1>4. incoming' \in Option(Nodes)
    BY DEF Option
  <1> QED
    BY <1>2, <1>3, <1>4, InvFromStack

(* The child under the cursor, and the frame past it.                       *)
LEMMA PastType ==
  ASSUME IInv, NEW slots, Stepping(slots)
  PROVE  /\ NextChild \in Nodes
         /\ Past \in Frame /\ FrameOK(Past)
         /\ Past.node = Top.node /\ Past.depth = Top.depth /\ Past.scope = Top.scope
         /\ Past.idx > 0 /\ NextChild = Taken(Past)
  <1>1. stage = "body" /\ HasNext /\ StackOK /\ stack # <<>> /\ doc \in [Nodes -> Element]
    BY StackFromInv DEF Stepping, IInv, TypeOK
  <1>2. Top \in Frame /\ FrameOK(Top)
    BY <1>1, TopType
  <1>3. Top.node \in Nodes /\ Top.idx \in Nat /\ Top.ctx \in BeansFileCtx
    BY <1>2 DEF Frame
  <1>4. Len(Kids(Top.node)) \in Nat
    BY <1>1, <1>3, ElementType
  <1>5. Top.idx + 1 \in 1 .. Len(Kids(Top.node))
    BY <1>1, <1>3, <1>4 DEF HasNext
  <1>6. NextChild \in Nodes
    BY <1>1, <1>3, <1>5, KidType DEF NextChild
  <1>7. /\ Past \in Frame
        /\ Past.node = Top.node /\ Past.depth = Top.depth /\ Past.scope = Top.scope
        /\ Past.idx = Top.idx + 1 /\ Past.ctx = Top.ctx
    BY <1>2, <1>3 DEF Past, Frame
  <1>8. HoldsOnly(Top.ctx, Top.node, Top.idx + 1)
    BY <1>2, <1>3, HoldsOnlyMore DEF FrameOK
  <1>9. FrameOK(Past)
    BY <1>3, <1>4, <1>5, <1>7, <1>8 DEF FrameOK
  <1>10. NextChild = Taken(Past)
    BY <1>7 DEF NextChild, Taken
  <1> QED
    BY <1>3, <1>6, <1>7, <1>9, <1>10

(* A child is kept, and something is said of it.                            *)
LEMMA ChildKept ==
  ASSUME IInv, NEW slots \in SUBSET Slot, Stepping(slots), NEW slot \in Slot,
         stack' = WithTop(Kept(Past, slot, NextChild)),
         diags' \in Seq(Diag), files' \subseteq File,
         \A f \in files' \ files : HoldsOnly(f.ctx, f.node, Len(Kids(f.node))),
         UNCHANGED <<doc, root, stage, incoming, result>>
  PROVE  IInv'
  <1> DEFINE g == Kept(Past, slot, NextChild)
  <1>1. stage = "body" /\ incoming = {} /\ doc \in [Nodes -> Element]
    BY DEF Stepping, IInv, TypeOK
  <1>2. /\ Past \in Frame /\ FrameOK(Past) /\ Past.idx > 0 /\ NextChild = Taken(Past)
        /\ Past.node = Top.node /\ Past.depth = Top.depth
    BY PastType
  <1>3. g \in Frame /\ FrameOK(g) /\ g.node = Top.node /\ g.depth = Top.depth
    BY <1>1, <1>2, KeptType
  <1> HIDE DEF g
  <1>4. stack' = WithTop(g)
    BY DEF g
  <1> QED
    BY <1>1, <1>3, <1>4, Advanced
-----------------------------------------------------------------------------
(* One lemma per action.                                                    *)

LEMMA RejectRootStep ==
  ASSUME IInv, RejectRoot
  PROVE  IInv'
  <1>1. /\ stage = "root" /\ stage' = "done" /\ stack = <<>> /\ incoming = {} /\ result = {}
        /\ diags' = Append(diags, [code |-> "NotBeansRoot", at |-> root])
        /\ UNCHANGED <<doc, root, stack, incoming, files, result>>
    BY DEF RejectRoot, IInv, TypeOK
  <1>2. diags' \in Seq(Diag)
    <2>1. root \in Option(Nodes)
      BY ConstantsOK DEF IInv, TypeOK, Option
    <2>2. [code |-> "NotBeansRoot", at |-> root] \in Diag
      BY <2>1 DEF Diag, Code
    <2> QED
      BY <1>1, <2>2 DEF IInv, TypeOK
  <1>3. Len(stack') = 0
    BY <1>1
  <1>4. StackOK'
    <2>1. StackOK
      BY StackFromInv
    <2> QED
      BY <1>1, <1>3, <2>1 DEF StackOK, DepthBounded
  <1>5. root' \in Option({RootElement}) /\ incoming' \in Option(Nodes) /\ files' \subseteq File
    BY <1>1 DEF IInv, TypeOK
  <1> QED
    BY <1>1, <1>2, <1>4, <1>5, InvFromStack

LEMMA EnterRootStep ==
  ASSUME IInv, EnterRoot
  PROVE  IInv'
  <1>1. /\ stage' = "body" /\ incoming = {} /\ result = {}
        /\ UNCHANGED <<doc, root, incoming, diags, files, result>>
        /\ doc \in [Nodes -> Element]
    BY DEF EnterRoot, IInv, TypeOK
  <1>2. PICK n \in root : stack' = <<FrameFor(n, NoScope, 0)>>
    BY DEF EnterRoot
  <1>3. root = {n} /\ n = RootElement /\ n \in Nodes
    BY <1>2, ConstantsOK DEF IInv, TypeOK, Option
  <1> DEFINE f == FrameFor(n, NoScope, 0)
  <1>4. f \in Frame /\ FrameOK(f) /\ f.node = n /\ f.depth = 0
    <2>1. NoScope \in NsScope
      BY DEF NoScope, NsScope, Option
    <2> QED
      BY <1>1, <1>3, <2>1, FrameForType
  <1> HIDE DEF f
  <1>5. stack' \in Seq(Frame) /\ Len(stack') = 1 /\ stack'[1] = f /\ stack' # <<>>
    BY <1>2, <1>4 DEF f
  <1>6. FrameOK(stack[1])'
    BY <1>1, <1>4, <1>5, FrameStable
  <1>7. DepthBounded'
    BY <1>4, <1>5, ConstantsOK DEF DepthBounded
  <1>8. StackOK'
    BY <1>5, <1>6, <1>7 DEF StackOK
  <1>9. /\ root' \in Option({RootElement}) /\ incoming' \in Option(Nodes)
        /\ files' \subseteq File /\ diags' \in Seq(Diag)
    BY <1>1 DEF IInv, TypeOK
  <1> QED
    BY <1>1, <1>3, <1>4, <1>5, <1>8, <1>9, InvFromStack

LEMMA LeafChildStep ==
  ASSUME IInv, LeafChild
  PROVE  IInv'
  <1> DEFINE slots == {"imports", "aliases", "component_scans", "property_sources"}
             slot  == Arm(NextChild, Top.scope)
  <1>1. /\ slots \in SUBSET Slot /\ Stepping(slots) /\ slot \in Slot
        /\ stack' = WithTop(Kept(Past, slot, NextChild))
        /\ UNCHANGED <<doc, root, stage, incoming, diags, files, result>>
    BY DEF LeafChild, Stepping, Slot
  <1>2. diags' \in Seq(Diag) /\ files' \subseteq File
    BY <1>1 DEF IInv, TypeOK
  <1> HIDE DEF slots, slot
  <1> QED
    BY <1>1, <1>2, ChildKept

LEMMA DescriptionChildStep ==
  ASSUME IInv, DescriptionChild
  PROVE  IInv'
  <1> DEFINE f   == [Past EXCEPT !.ctx["description"] = <<NextChild>>]
             ctx == [Past.ctx EXCEPT !["description"] = <<NextChild>>]
  <1>1. /\ Stepping({"description"}) /\ stack' = WithTop(f)
        /\ UNCHANGED <<doc, root, stage, incoming, diags, files, result>>
    BY DEF DescriptionChild
  <1>2. /\ stage = "body" /\ incoming = {}
        /\ diags' \in Seq(Diag) /\ files' \subseteq File
    BY <1>1 DEF Stepping, IInv, TypeOK
  <1>3. /\ NextChild \in Nodes /\ Past \in Frame /\ FrameOK(Past) /\ Past.idx > 0
        /\ NextChild = Taken(Past) /\ Past.node = Top.node /\ Past.depth = Top.depth
    BY <1>1, PastType
  <1>4. Past.ctx \in BeansFileCtx /\ Past.idx \in Nat
    BY <1>3 DEF Frame
  <1>5. /\ <<NextChild>> \in Seq(Nodes) /\ Len(<<NextChild>>) = 1
        /\ <<NextChild>>[1] = NextChild
    BY <1>3
  <1>6. ctx \in BeansFileCtx
    BY <1>4, <1>5 DEF BeansFileCtx
  <1>7. /\ f \in Frame /\ f.ctx = ctx
        /\ f.node = Top.node /\ f.depth = Top.depth /\ f.idx = Past.idx
    <2>1. f = [Past EXCEPT !.ctx = ctx]
      OBVIOUS
    <2> HIDE DEF ctx, f
    <2> QED
      BY <1>3, <1>6, <2>1 DEF Frame
  <1>8. HoldsOnly(ctx, Past.node, Past.idx)
    <2>1. SUFFICES ASSUME NEW s \in Slot, NEW j \in 1 .. Len(ctx[s])
                   PROVE  \E i \in 1 .. Past.idx : ctx[s][j] = Kids(Past.node)[i]
      BY DEF HoldsOnly
    <2>2. \A t \in Slot : \A k \in 1 .. Len(Past.ctx[t]) :
            \E i \in 1 .. Past.idx : Past.ctx[t][k] = Kids(Past.node)[i]
      BY <1>3 DEF FrameOK, HoldsOnly
    <2>3. CASE s # "description"
      <3>1. ctx[s] = Past.ctx[s]
        BY <1>4, <2>3 DEF BeansFileCtx
      <3> HIDE DEF ctx
      <3>2. j \in 1 .. Len(Past.ctx[s])
        BY <3>1
      <3> QED
        BY <2>2, <3>1, <3>2
    <2>4. CASE s = "description"
      <3>1. ctx[s] = <<NextChild>>
        BY <1>4, <2>4 DEF BeansFileCtx, Slot
      <3> HIDE DEF ctx
      <3>2. j = 1
        BY <1>5, <3>1
      <3>3. Past.idx \in 1 .. Past.idx
        BY <1>3, <1>4
      <3>4. ctx[s][j] = Kids(Past.node)[Past.idx]
        BY <1>3, <1>5, <3>1, <3>2 DEF Taken
      <3> QED
        BY <3>3, <3>4
    <2> QED
      BY <2>3, <2>4
  <1> HIDE DEF ctx, f
  <1>9. FrameOK(f)
    BY <1>3, <1>7, <1>8 DEF FrameOK
  <1> QED
    BY <1>1, <1>2, <1>7, <1>9, Advanced

LEMMA BeanChildStep ==
  ASSUME IInv, BeanChild
  PROVE  IInv'
  <1>1. /\ Stepping({"beans"}) /\ {"beans"} \in SUBSET Slot /\ "beans" \in Slot
        /\ stack' = WithTop(Kept(Past, "beans", NextChild))
        /\ diags' = diags \o DiagnoseIf(doc[NextChild].flawed, "BeanDiagnostic", NextChild)
                          \o DiagnoseIf(IsDuplicate(NextChild), "DuplicateBeanId", NextChild)
        /\ UNCHANGED <<doc, root, stage, incoming, files, result>>
    BY DEF BeanChild, Slot
  <1>2. NextChild \in Nodes
    BY <1>1, PastType
  <1>3. /\ DiagnoseIf(doc[NextChild].flawed, "BeanDiagnostic", NextChild) \in Seq(Diag)
        /\ DiagnoseIf(IsDuplicate(NextChild), "DuplicateBeanId", NextChild) \in Seq(Diag)
    BY <1>2, DiagnoseType DEF Code
  <1>4. diags \in Seq(Diag) /\ files' \subseteq File
    BY <1>1 DEF IInv, TypeOK
  <1>5. diags' \in Seq(Diag)
    BY <1>1, <1>3, <1>4, ConcatProperties
  <1> QED
    BY <1>1, <1>4, <1>5, ChildKept

LEMMA NamespacedChildStep ==
  ASSUME IInv, NamespacedChild
  PROVE  IInv'
  <1>1. /\ Stepping({"namespaced"}) /\ {"namespaced"} \in SUBSET Slot /\ "namespaced" \in Slot
        /\ stack' = WithTop(Kept(Past, "namespaced", NextChild))
        /\ diags' = diags \o DiagnoseIf(doc[NextChild].flawed, "NamespacedDiagnostic", NextChild)
        /\ UNCHANGED <<doc, root, stage, incoming, files, result>>
    BY DEF NamespacedChild, Slot
  <1>2. NextChild \in Nodes
    BY <1>1, PastType
  <1>3. DiagnoseIf(doc[NextChild].flawed, "NamespacedDiagnostic", NextChild) \in Seq(Diag)
    BY <1>2, DiagnoseType DEF Code
  <1>4. diags \in Seq(Diag) /\ files' \subseteq File
    BY <1>1 DEF IInv, TypeOK
  <1>5. diags' \in Seq(Diag)
    BY <1>1, <1>3, <1>4, ConcatProperties
  <1> QED
    BY <1>1, <1>4, <1>5, ChildKept

LEMMA UnknownChildStep ==
  ASSUME IInv, UnknownChild
  PROVE  IInv'
  <1>1. /\ Stepping({"unknown"}) /\ stack' = WithTop(Past)
        /\ diags' = diags \o Diagnose("UnknownElement", NextChild)
        /\ UNCHANGED <<doc, root, stage, incoming, files, result>>
    BY DEF UnknownChild
  <1>2. /\ NextChild \in Nodes /\ Past \in Frame /\ FrameOK(Past)
        /\ Past.node = Top.node /\ Past.depth = Top.depth
    BY <1>1, PastType
  <1>3. Diagnose("UnknownElement", NextChild) \in Seq(Diag)
    BY <1>2, DiagnoseType DEF Code
  <1>4. diags \in Seq(Diag) /\ files' \subseteq File /\ stage = "body" /\ incoming = {}
    BY <1>1 DEF IInv, TypeOK, Stepping
  <1>5. diags' \in Seq(Diag)
    BY <1>1, <1>3, <1>4, ConcatProperties
  <1> QED
    BY <1>1, <1>2, <1>4, <1>5, Advanced

LEMMA NestedAtLimitStep ==
  ASSUME IInv, NestedAtLimit
  PROVE  IInv'
  <1>1. /\ Stepping({"nested_profiles"}) /\ {"nested_profiles"} \in SUBSET Slot
        /\ "nested_profiles" \in Slot
        /\ stack' = WithTop(Kept(Past, "nested_profiles", NextChild))
        /\ diags' = diags \o Diagnose("NestingLimitExceeded", NextChild)
        /\ files' = files \cup {[node |-> NextChild, ctx |-> EmptyCtx]}
        /\ UNCHANGED <<doc, root, stage, incoming, result>>
    BY DEF NestedAtLimit, Slot
  <1>2. NextChild \in Nodes
    BY <1>1, PastType
  <1>3. Diagnose("NestingLimitExceeded", NextChild) \in Seq(Diag)
    BY <1>2, DiagnoseType DEF Code
  <1>4. diags \in Seq(Diag) /\ files \subseteq File
    BY DEF IInv, TypeOK
  <1>5. diags' \in Seq(Diag)
    BY <1>1, <1>3, <1>4, ConcatProperties
  <1>6. files' \subseteq File
    BY <1>1, <1>2, <1>4, EmptyHolds DEF File
  <1>7. \A f \in files' \ files : HoldsOnly(f.ctx, f.node, Len(Kids(f.node)))
    BY <1>1, EmptyHolds
  <1> QED
    BY <1>1, <1>5, <1>6, <1>7, ChildKept

LEMMA NestedPushStep ==
  ASSUME IInv, NestedPush
  PROVE  IInv'
  <1>1. /\ Stepping({"nested_profiles"}) /\ Top.depth + 1 < DepthLimit
        /\ stack' = Append(WithTop(Past), FrameFor(NextChild, Top.scope, Top.depth + 1))
        /\ UNCHANGED <<doc, root, stage, incoming, diags, files, result>>
    BY DEF NestedPush
  <1>2. /\ NextChild \in Nodes /\ Past \in Frame /\ FrameOK(Past) /\ Past.idx > 0
        /\ NextChild = Taken(Past) /\ Past.node = Top.node /\ Past.depth = Top.depth
    BY <1>1, PastType
  <1>3. /\ stage = "body" /\ incoming = {} /\ StackOK /\ stack # <<>>
        /\ doc \in [Nodes -> Element]
    BY <1>1, StackFromInv DEF Stepping, IInv, TypeOK
  <1>4. Top.scope \in NsScope /\ Top.depth + 1 \in Nat
    BY <1>3, TopType DEF Frame
  <1> DEFINE g == FrameFor(NextChild, Top.scope, Top.depth + 1)
  <1>5. g \in Frame /\ FrameOK(g) /\ g.node = NextChild /\ g.depth = Top.depth + 1
    BY <1>2, <1>3, <1>4, FrameForType
  <1> HIDE DEF g
  <1>6. StackOK' /\ stack' # <<>> /\ stack'[1].node = stack[1].node
    <2>1. stack' = Append(WithTop(Past), g)
      BY <1>1 DEF g
    <2>2. g.node = Taken(Past) /\ g.depth = Past.depth + 1 /\ g.depth < DepthLimit
      BY <1>1, <1>2, <1>5
    <2> QED
      BY <1>1, <1>2, <1>3, <1>5, <2>1, <2>2, Pushed
  <1>7. /\ root = {stack[1].node} /\ root \in Option({RootElement}) /\ result = {}
        /\ diags' \in Seq(Diag) /\ files' \subseteq File /\ incoming' \in Option(Nodes)
    BY <1>1, <1>3 DEF IInv, TypeOK, DeliversToParent
  <1> QED
    BY <1>1, <1>3, <1>6, <1>7, InvFromStack

LEMMA NestedDeliveredStep ==
  ASSUME IInv, NestedDelivered
  PROVE  IInv'
  <1>1. /\ stage = "body" /\ incoming' = {}
        /\ UNCHANGED <<doc, root, stage, diags, files, result>>
    BY DEF NestedDelivered
  <1>2. PICK n \in incoming : stack' = WithTop(Kept(Top, "nested_profiles", n))
    BY DEF NestedDelivered
  <1>3. Top.idx > 0 /\ n = Taken(Top)
    BY <1>2 DEF IInv, DeliversToParent
  <1>4. /\ StackOK /\ stack # <<>> /\ doc \in [Nodes -> Element]
        /\ diags' \in Seq(Diag) /\ files' \subseteq File
    BY <1>1, StackFromInv DEF IInv, TypeOK
  <1>5. Top \in Frame /\ FrameOK(Top)
    BY <1>4, TopType
  <1> DEFINE g == Kept(Top, "nested_profiles", n)
  <1>6. g \in Frame /\ FrameOK(g) /\ g.node = Top.node /\ g.depth = Top.depth
    <2>1. "nested_profiles" \in Slot
      BY DEF Slot
    <2> QED
      BY <1>3, <1>4, <1>5, <2>1, KeptType
  <1> HIDE DEF g
  <1>7. stack' = WithTop(g)
    BY <1>2 DEF g
  <1> QED
    BY <1>1, <1>4, <1>6, <1>7, Advanced

LEMMA BodyFinishedStep ==
  ASSUME IInv, BodyFinished
  PROVE  IInv'
  <1>1. /\ stage = "body" /\ incoming = {} /\ ~HasNext
        /\ files' = files \cup {[node |-> Top.node, ctx |-> Top.ctx]}
        /\ stack' = SubSeq(stack, 1, Len(stack) - 1)
        /\ IF Len(stack) = 1
           THEN result' = {Top.node} /\ stage' = "done" /\ UNCHANGED incoming
           ELSE incoming' = {Top.node} /\ UNCHANGED <<stage, result>>
        /\ UNCHANGED <<doc, root, diags>>
    BY DEF BodyFinished
  <1>2. /\ StackOK /\ stack # <<>> /\ doc \in [Nodes -> Element] /\ result = {}
        /\ root = {stack[1].node} /\ root \in Option({RootElement})
        /\ diags' \in Seq(Diag) /\ files \subseteq File
    BY <1>1, StackFromInv DEF IInv, TypeOK, DeliversToParent
  <1>3. Top \in Frame /\ FrameOK(Top) /\ Top = stack[Len(stack)]
    BY <1>2, TopType
  <1>4. Top.node \in Nodes /\ Top.idx \in Nat /\ Top.ctx \in BeansFileCtx
    BY <1>3 DEF Frame
  <1>5. /\ StackOK'
        /\ stack' = <<>> <=> Len(stack) = 1
        /\ Len(stack) # 1 => /\ stack'[1].node = stack[1].node
                             /\ (Top.idx > 0)' /\ Top.node = Taken(Top)'
    BY <1>1, <1>2, Popped
  <1>6. files' \subseteq File
    BY <1>1, <1>2, <1>4 DEF File
  <1>7. \A f \in files' \ files : HoldsOnly(f.ctx, f.node, Len(Kids(f.node)))
    <2>1. Len(Kids(Top.node)) \in Nat
      BY <1>2, <1>4, ElementType
    <2>2. Len(Kids(Top.node)) = Top.idx
      BY <1>1, <1>3, <1>4, <2>1 DEF HasNext, FrameOK
    <2>3. HoldsOnly(Top.ctx, Top.node, Len(Kids(Top.node)))
      BY <1>3, <2>2 DEF FrameOK
    <2> QED
      BY <1>1, <2>3
  <1>8. CASE Len(stack) = 1
    <2>1. result' = root' /\ stage' = "done" /\ incoming' = {} /\ stack' = <<>>
      BY <1>1, <1>2, <1>3, <1>5, <1>8
    <2>2. incoming' \in Option(Nodes) /\ root' \in Option({RootElement})
      BY <1>1, <1>2, <2>1 DEF Option
    <2> QED
      BY <1>1, <1>2, <1>5, <1>6, <1>7, <2>1, <2>2, InvFromStack
  <1>9. CASE Len(stack) # 1
    <2>1. /\ incoming' = {Top.node} /\ stage' = "body" /\ result' = {} /\ stack' # <<>>
          /\ stack'[1].node = stack[1].node
      BY <1>1, <1>2, <1>5, <1>9
    <2>2. incoming' \in Option(Nodes) /\ root' \in Option({RootElement})
      BY <1>1, <1>2, <1>4, <2>1 DEF Option
    <2>3. (\A n \in incoming : Top.idx > 0 /\ n = Taken(Top))'
      BY <1>5, <1>9, <2>1
    <2> QED
      BY <1>1, <1>2, <1>5, <1>6, <1>7, <2>1, <2>2, <2>3, InvFromStack
  <1> QED
    BY <1>8, <1>9
-----------------------------------------------------------------------------
(* The invariant holds at first,                                            *)
LEMMA InitIInv ==
  ASSUME Init
  PROVE  IInv
  <1>1. /\ doc \in [Nodes -> Element] /\ root \in Option({RootElement})
        /\ stage = "root" /\ stack = <<>> /\ diags = <<>>
        /\ incoming = {} /\ files = {} /\ result = {}
    BY ConstantsOK DEF Init, Option
  <1>2. Len(stack) = 0 /\ stack \in Seq(Frame) /\ diags \in Seq(Diag)
    BY <1>1
  <1>3. TypeOK
    BY <1>1, <1>2 DEF TypeOK, Option
  <1>4. DeliversToParent /\ NothingStrays /\ DepthBounded
    BY <1>1, <1>2, ConstantsOK DEF DeliversToParent, NothingStrays, DepthBounded
  <1> QED
    BY <1>2, <1>3, <1>4 DEF IInv

(* and every step preserves it.                                             *)
LEMMA NextIInv ==
  ASSUME IInv, [Next]_vars
  PROVE  IInv'
  <1>1. CASE BodyStep
    BY <1>1, LeafChildStep, DescriptionChildStep, BeanChildStep, NamespacedChildStep,
       UnknownChildStep, NestedAtLimitStep, NestedPushStep, NestedDeliveredStep,
       BodyFinishedStep DEF BodyStep
  <1>2. CASE UNCHANGED vars
    <2>1. UNCHANGED <<doc, root, stage, stack, incoming, diags, files, result>>
      BY <1>2 DEF vars
    <2>2. TypeOK'
      BY <2>1 DEF IInv, TypeOK
    <2>3. DepthBounded'
      BY <2>1 DEF IInv, DepthBounded
    <2>4. DeliversToParent'
      BY <2>1 DEF IInv, DeliversToParent, Taken, Kids, Top
    <2>5. NothingStrays'
      BY <2>1 DEF IInv, NothingStrays, HoldsOnly, Kids
    <2>6. (\A i \in 1 .. Len(stack) : FrameOK(stack[i]))'
      BY <2>1, FrameStable DEF IInv
    <2> QED
      BY <2>2, <2>3, <2>4, <2>5, <2>6 DEF IInv
  <1> QED
    BY <1>1, <1>2, RejectRootStep, EnterRootStep DEF Next

(* All of it, in every state of every run.                                  *)
THEOREM Invariance == Spec => []IInv
  <1>1. Init => IInv
    BY InitIInv
  <1>2. IInv /\ [Next]_vars => IInv'
    BY NextIInv
  <1> QED
    BY <1>1, <1>2, PTL DEF Spec

(* The engine's state is well formed: it has a stack exactly while it reads *)
(* a body, and what it returns is the root.                                 *)
THEOREM TypeCorrect == Spec => []TypeOK
  <1>1. IInv => TypeOK
    BY DEF IInv
  <1> QED
    BY <1>1, Invariance, PTL

(* deliver keeps no record of what is waited for, and needs none: what it   *)
(* is called with is always the child the top frame has just taken.         *)
THEOREM DeliveryNeedsNoRecord == Spec => []DeliversToParent
  <1>1. IInv => DeliversToParent
    BY DEF IInv
  <1> QED
    BY <1>1, Invariance, PTL

(* No body, open or finished, ever holds what stands in another.            *)
THEOREM NoChildGoesAstray == Spec => []NothingStrays
  <1>1. IInv => NothingStrays
    BY DEF IInv
  <1> QED
    BY <1>1, Invariance, PTL

(* No document makes the stack of bodies higher than the limit.             *)
THEOREM DepthIsBounded == Spec => []DepthBounded
  <1>1. IInv => DepthBounded
    BY DEF IInv
  <1> QED
    BY <1>1, Invariance, PTL
-----------------------------------------------------------------------------
(* Lemmas about documents, their elements numbered in document order.       *)

(* The elements are a run of numbers from that of the root on.              *)
LEMMA Numbers ==
  /\ Nodes \subseteq Nat /\ RootElement = 1 /\ 1 \in Nodes
  /\ \A n \in Nodes, k \in Nat : 1 <= k /\ k <= n => k \in Nodes
  /\ \A n \in Nodes : 1 <= n
  <1>1. Cardinality(Nodes) \in Nat
    BY DocumentOrder, FS_CardinalityType
  <1> QED
    BY <1>1, DocumentOrder, ConstantsOK

(* An element comes before its children and is the only one they are        *)
(* children of; these come in their order.                                  *)
LEMMA KidsInOrder ==
  ASSUME doc \in Documents, NEW n \in Nodes
  PROVE  /\ Children(n) = {Kids(n)[i] : i \in 1 .. Len(Kids(n))}
         /\ Len(Kids(n)) \in Nat
         /\ \A i, j \in 1 .. Len(Kids(n)) : i < j => Kids(n)[i] < Kids(n)[j]
         /\ \A c \in Children(n) : c \in Nodes /\ n < c /\ Parent(c) = {n}
  <1>1. doc \in [Nodes -> Element] /\ InDocumentOrder(doc)
    BY ConstantsOK, DocumentOrder
  <1>2. Kids(n) \in Seq(Nodes) /\ Kids(n) = doc[n].kids
    BY <1>1, ElementType DEF Kids
  <1>3. DOMAIN doc[n].kids = 1 .. Len(Kids(n))
    BY <1>2
  <1>4. Children(n) = {Kids(n)[i] : i \in 1 .. Len(Kids(n))}
    BY <1>2, <1>3 DEF Children, KidsOf
  <1>5. \A i, j \in 1 .. Len(Kids(n)) : i < j => Kids(n)[i] < Kids(n)[j]
    BY <1>1, <1>2, <1>3 DEF InDocumentOrder
  <1>6. ASSUME NEW c \in Children(n)
        PROVE  c \in Nodes /\ n < c /\ Parent(c) = {n}
    <2>1. c \in Nodes
      BY <1>1, <1>4, <1>6, KidType
    <2>2. n < c /\ \A m \in Nodes : c \in KidsOf(doc, m) => m = n
      BY <1>1, <1>6 DEF InDocumentOrder, Children
    <2>3. Parent(c) = {n}
      BY <1>6, <2>2 DEF Parent, Children
    <2> QED
      BY <2>1, <2>2, <2>3
  <1> QED
    BY <1>2, <1>4, <1>5, <1>6

(* Above a child there is itself and what is above its element.             *)
LEMMA AboveChild ==
  ASSUME doc \in Documents, NEW n \in Nodes, NEW c \in Children(n)
  PROVE  Above(c) = Above(n) \cup {c} /\ n \in Above(n) /\ \A m \in Above(n) : m <= n /\ m < c
  <1>1. c \in Nodes /\ n < c /\ Parent(c) = {n}
    BY KidsInOrder
  <1>2. n \in Nat /\ c \in Nat /\ Nodes \subseteq Nat
    BY <1>1, Numbers
  <1>3. \A k \in Nodes : n < k /\ k < c => \E b \in Parent(k) : n <= b
    <2>1. \A k \in Nodes : n < k /\ k < c => \E m \in Nodes : k \in KidsOf(doc, m) /\ n <= m
      BY DocumentOrder DEF InDocumentOrder, Children
    <2> QED
      BY <2>1 DEF Parent, Children
  <1>4. \A k \in n + 1 .. c : \E b \in Parent(k) : n <= b
    <2>1. SUFFICES ASSUME NEW k \in n + 1 .. c PROVE \E b \in Parent(k) : n <= b
      OBVIOUS
    <2>2. k \in Nodes /\ n < k /\ (k < c \/ k = c)
      BY <1>1, <1>2, Numbers
    <2> QED
      BY <1>1, <1>2, <1>3, <2>2
  <1>5. ASSUME NEW m \in Above(c), m # c
        PROVE  m \in Above(n)
    <2>1. m \in Nodes /\ m <= c /\ \A k \in m + 1 .. c : \E b \in Parent(k) : m <= b
      BY <1>5 DEF Above
    <2>2. m \in Nat /\ c \in m + 1 .. c
      BY <1>2, <1>5, <2>1
    <2>3. m <= n
      BY <1>1, <2>1, <2>2
    <2>4. \A k \in m + 1 .. n : k \in m + 1 .. c
      BY <1>1, <1>2, <2>2
    <2> QED
      BY <2>1, <2>3, <2>4 DEF Above
  <1>6. ASSUME NEW m \in Above(n)
        PROVE  m \in Above(c) /\ m <= n /\ m < c
    <2>1. m \in Nodes /\ m <= n /\ \A k \in m + 1 .. n : \E b \in Parent(k) : m <= b
      BY <1>6 DEF Above
    <2>2. m \in Nat /\ m < c /\ m <= c
      BY <1>1, <1>2, <2>1
    <2>3. ASSUME NEW k \in m + 1 .. c
          PROVE  \E b \in Parent(k) : m <= b
      <3>1. k \in m + 1 .. n \/ k \in n + 1 .. c
        BY <1>2, <2>2
      <3>2. CASE k \in n + 1 .. c
        <4>1. PICK b \in Parent(k) : n <= b
          BY <1>4, <3>2
        <4>2. b \in Nat
          BY <1>2 DEF Parent
        <4>3. m <= b
          BY <1>2, <2>1, <2>2, <4>1, <4>2
        <4> QED
          BY <4>3
      <3>3. CASE k \in m + 1 .. n
        BY <2>1, <3>3
      <3> QED
        BY <3>1, <3>2, <3>3
    <2> QED
      BY <2>1, <2>2, <2>3 DEF Above
  <1>7. c \in Above(c) /\ n \in Above(n)
    BY <1>1, <1>2 DEF Above
  <1> QED
    BY <1>5, <1>6, <1>7

(* Above the root there is nothing else, and below it nothing but children. *)
LEMMA AboveRoot ==
  ASSUME doc \in Documents
  PROVE  /\ Above(RootElement) = {RootElement}
         /\ \A n \in Nodes : RootElement \in Above(n) /\ n # RootElement =>
              \E b \in Nodes : n \in Children(b)
  <1>1. Above(1) = {1}
    <2>1. \A m \in Nodes : m <= 1 => m = 1
      BY Numbers
    <2>2. 1 \in Nodes /\ \A k \in 1 + 1 .. 1 : FALSE
      BY Numbers
    <2> QED
      BY <2>1, <2>2 DEF Above
  <1>2. ASSUME NEW n \in Nodes, 1 \in Above(n), n # 1
        PROVE  \E b \in Nodes : n \in Children(b)
    <2>1. n \in 1 + 1 .. n
      BY <1>2, Numbers
    <2>2. PICK b \in Parent(n) : TRUE
      BY <1>2, <2>1 DEF Above
    <2> QED
      BY <2>2 DEF Parent
  <1> QED
    BY <1>1, <1>2, Numbers

(* The depth of an element is that of the one it is a child of, and one.    *)
LEMMA DepthOfChild ==
  ASSUME doc \in Documents
  PROVE  /\ Cardinality(Above(RootElement)) = 1
         /\ \A n \in Nodes : Cardinality(Above(n)) \in Nat
         /\ \A n \in Nodes : \A c \in Children(n) :
              Cardinality(Above(c)) = Cardinality(Above(n)) + 1
  <1>1. Cardinality(Above(RootElement)) = 1
    BY AboveRoot, FS_Singleton
  <1>2. \A n \in Nodes : IsFiniteSet(Above(n)) /\ Cardinality(Above(n)) \in Nat
    <2>1. \A n \in Nodes : Above(n) \subseteq Nodes
      BY DEF Above
    <2> QED
      BY <2>1, DocumentOrder, FS_Subset, FS_CardinalityType
  <1>3. ASSUME NEW n \in Nodes, NEW c \in Children(n)
        PROVE  Cardinality(Above(c)) = Cardinality(Above(n)) + 1
    <2>1. Above(c) = Above(n) \cup {c} /\ \A m \in Above(n) : m < c
      BY AboveChild
    <2>2. c \notin Above(n)
      <3>1. c \in Nat
        BY KidsInOrder, Numbers
      <3> QED
        BY <2>1, <3>1
    <2> QED
      BY <1>2, <2>1, <2>2, FS_AddElement
  <1> QED
    BY <1>1, <1>2, <1>3
-----------------------------------------------------------------------------
(* Lemmas about namespaces, and what follows from them about bodies.        *)

(* A scope with what the child itself declares is the child's.              *)
LEMMA NearestChild ==
  ASSUME doc \in Documents, NEW n \in Nodes, NEW c \in Children(n), NEW p \in NsPrefixes
  PROVE  Nearest(c, p) = IF doc[c].xmlns[p] # {} THEN doc[c].xmlns[p] ELSE Nearest(n, p)
  <1>1. Above(c) = Above(n) \cup {c} /\ \A m \in Above(n) : m <= n /\ m < c
    BY AboveChild
  <1>2. c \in Nat /\ \A m \in Above(n) : m \in Nat
    BY KidsInOrder, Numbers DEF Above
  <1>3. CASE doc[c].xmlns[p] # {}
    <2>1. Declaring(c, p) = Declaring(n, p) \cup {c} /\ Declaring(n, p) \subseteq Above(n)
      BY <1>1, <1>3 DEF Declaring
    <2>2. \A m \in Declaring(n, p) : m < c /\ m \in Nat
      BY <1>1, <1>2, <2>1
    <2>3. {b \in Declaring(c, p) : \A k \in Declaring(c, p) : k <= b} = {c}
      BY <1>2, <2>1, <2>2
    <2> QED
      BY <1>3, <2>3 DEF Nearest
  <1>4. CASE doc[c].xmlns[p] = {}
    <2>1. Declaring(c, p) = Declaring(n, p)
      BY <1>1, <1>4 DEF Declaring
    <2> QED
      BY <1>4, <2>1 DEF Nearest
  <1> QED
    BY <1>3, <1>4

(* Around the root nothing is declared.                                     *)
LEMMA NearestRoot ==
  ASSUME doc \in Documents, NEW p \in NsPrefixes
  PROVE  Nearest(RootElement, p) = Overlay(NoScope, RootElement)[p]
  <1>1. Above(RootElement) = {RootElement} /\ RootElement <= RootElement
    BY AboveRoot, Numbers
  <1>2. CASE doc[RootElement].xmlns[p] # {}
    <2>1. Declaring(RootElement, p) = {RootElement}
      BY <1>1, <1>2 DEF Declaring
    <2>2. {b \in Declaring(RootElement, p) : \A k \in Declaring(RootElement, p) : k <= b}
            = {RootElement}
      BY <1>1, <2>1
    <2> QED
      BY <1>2, <2>2 DEF Nearest, Overlay
  <1>3. CASE doc[RootElement].xmlns[p] = {}
    <2>1. Declaring(RootElement, p) = {}
      BY <1>1, <1>3 DEF Declaring
    <2> QED
      BY <1>3, <2>1 DEF Nearest, Overlay, NoScope
  <1> QED
    BY <1>2, <1>3

(* A frame's scope is in effect for the children of its element.            *)
LEMMA ArmOfChild ==
  ASSUME doc \in Documents, NEW n \in Nodes, NEW c \in Children(n), NEW scope,
         \A p \in NsPrefixes : scope[p] = Nearest(n, p)
  PROVE  /\ \A p \in NsPrefixes : Overlay(scope, c)[p] = Nearest(c, p)
         /\ Arm(c, scope) = ArmOf(c)
  <1>1. \A p \in NsPrefixes : Overlay(scope, c)[p] = Nearest(c, p)
    BY NearestChild DEF Overlay
  <1>2. Overlay(scope, c) = [p \in NsPrefixes |-> Overlay(scope, c)[p]]
    BY DEF Overlay
  <1>3. Overlay(scope, c) = [p \in NsPrefixes |-> Nearest(c, p)]
    BY <1>1, <1>2
  <1> QED
    BY <1>1, <1>3 DEF ArmOf, NamespaceOf, Arm, TakesBody, Dispatched

(* Nothing is unknown or namespaced but what no field is for, and none of   *)
(* the arms is for a nested body.                                           *)
LEMMA ArmNamedValues ==
  ASSUME NEW ns, NEW local
  PROVE  ArmNamed(ns, local) \in (Slot \ {"nested_profiles"}) \cup {"unknown", "namespaced"}
  <1> DEFINE arms == {arm \in Arms(ns) : arm[1] = local}
  <1>1. ArmNamed(ns, local) = CASE arms # {}                  -> (CHOOSE arm \in arms : TRUE)[2]
                                [] arms = {} /\ IsBeansNs(ns) -> "unknown"
                                [] OTHER                      -> "namespaced"
    BY DEF ArmNamed
  <1>2. \A arm \in Arms(ns) : arm[2] \in Slot \ {"nested_profiles"}
    BY DEF Arms, Slot
  <1>3. CASE arms # {}
    <2>1. PICK arm \in arms : arm = CHOOSE a \in arms : TRUE
      BY <1>3
    <2> QED
      BY <1>1, <1>2, <1>3, <2>1
  <1> QED
    BY <1>1, <1>3

(* A nested body is a <beans> of the beans namespace and nothing else.      *)
LEMMA NestedArm ==
  ASSUME NEW n
  PROVE  ArmOf(n) = "nested_profiles" <=>
           doc[n].local = "beans" /\ IsBeansNs(NamespaceOf(n))
  BY ArmNamedValues DEF ArmOf

(* parse_root accepts the root when it is a body.                           *)
LEMMA RootIsBody ==
  ASSUME doc \in Documents, root = {RootElement}
  PROVE  IsBeansRoot(RootElement) <=> IsBody(RootElement)
  <1>1. Overlay(NoScope, RootElement) = [p \in NsPrefixes |-> Nearest(RootElement, p)]
    <2>1. Overlay(NoScope, RootElement)
            = [p \in NsPrefixes |-> Overlay(NoScope, RootElement)[p]]
      BY DEF Overlay
    <2> QED
      BY <2>1, NearestRoot
  <1>2. IsBody(RootElement) <=> ArmOf(RootElement) = "nested_profiles"
    BY AboveRoot DEF IsBody
  <1> QED
    BY <1>1, <1>2, NestedArm DEF NamespaceOf, IsBeansRoot

(* A <beans> in a body is one, at the next depth; what is read at all is    *)
(* the root or stands in what is read.                                      *)
LEMMA BodyOfChild ==
  ASSUME doc \in Documents, NEW n \in Nodes, NEW c \in Children(n), IsBody(n)
  PROVE  IsBody(c) <=> ArmOf(c) = "nested_profiles"
  <1>1. Above(c) = Above(n) \cup {c}
    BY AboveChild
  <1> QED
    BY <1>1 DEF IsBody

LEMMA ReadInRead ==
  ASSUME doc \in Documents, root \subseteq {RootElement},
         NEW n \in Nodes, Opened(n) \/ Stub(n), n # RootElement
  PROVE  \E b \in Nodes : n \in Children(b) /\ Opened(b) /\ b < n
  <1>1. IsBody(n) /\ Cardinality(Above(n)) <= DepthLimit + 1
    <2>1. Cardinality(Above(n)) \in Nat
      BY DepthOfChild
    <2> QED
      BY <2>1, ConstantsOK DEF Opened, Stub
  <1>2. RootElement \in Above(n)
    BY <1>1 DEF IsBody
  <1>3. PICK b \in Nodes : n \in Children(b)
    BY <1>2, AboveRoot
  <1>4. b < n /\ Above(n) = Above(b) \cup {n}
    BY <1>3, KidsInOrder, AboveChild
  <1>5. IsBody(b)
    BY <1>1, <1>2, <1>4 DEF IsBody
  <1>6. Cardinality(Above(b)) \in Nat /\ Cardinality(Above(n)) = Cardinality(Above(b)) + 1
    BY <1>3, DepthOfChild
  <1>7. Cardinality(Above(b)) <= DepthLimit
    BY <1>1, <1>6, ConstantsOK
  <1> QED
    BY <1>3, <1>4, <1>5, <1>7 DEF Opened
-----------------------------------------------------------------------------
(* What has been read, and what it says of the report and of the bodies.    *)

OpenNodes == {stack[i].node : i \in 1 .. Len(stack)}
Closed    == {f.node : f \in files}
ReadOf(f) == {Kids(f.node)[j] : j \in 1 .. f.idx}

(* The children passed: of an open body those before the cursor, of a       *)
(* finished one all.                                                        *)
Passed == (UNION {ReadOf(stack[i]) : i \in 1 .. Len(stack)})
            \cup UNION {Children(n) : n \in {b \in Closed : Opened(b)}}

(* The child of the i-th body that has been read and not been delivered.    *)
Awaited(i) == IF i < Len(stack) THEN {stack[i + 1].node} ELSE incoming

(* The frames are the bodies around the cursor, each with its scope.        *)
FramesDeclared ==
  \A i \in 1 .. Len(stack) :
    /\ Opened(stack[i].node) /\ Cardinality(Above(stack[i].node)) = i
    /\ \A p \in NsPrefixes : stack[i].scope[p] = Nearest(stack[i].node, p)
    /\ \A j \in 1 .. i : stack[j].node \in Above(stack[i].node)
    /\ stack[i].node \notin Closed

(* A body has what is declared of the children it has been given.           *)
ContextsDeclared ==
  \A i \in 1 .. Len(stack) : \A slot \in Slot :
    Listed(stack[i].ctx[slot], Declared(ReadOf(stack[i]) \ Awaited(i), slot))

(* No body that has been passed is forgotten, and nothing that is to be     *)
(* read has been passed over.                                               *)
ReadInOrder ==
  /\ \A m \in Passed : /\ Opened(m) => m \in Closed \cup OpenNodes
                       /\ Stub(m) => m \in Closed
  /\ \A m \in Passed : \A n \in Nodes :
       n < m /\ (\E b \in Parent(n) : Opened(b)) => n \in Passed
  /\ \A n \in incoming : Opened(n) /\ n \in Closed

FilesDeclared ==
  \A f \in files : AsDeclared(f) /\ (f.node \in Passed \/ stage = "done")

(* The list s tells what is in S, in the order of the report.               *)
Tells(s, S) ==
  /\ {s[i] : i \in 1 .. Len(s)} = S
  /\ \A i, j \in 1 .. Len(s) : i < j => Before(s[i], s[j])

SaidOfAll(S) == UNION {SaidOf(n) : n \in S}

(* What has been passed has been told, unless there is no <beans> to read.  *)
AllTold ==
  /\ stage = "root" => files = {}
  /\ stage = "body" => IsDocument
  /\ stage = "done" /\ result # {} => IsDocument /\ result = root /\ root \subseteq Closed
  /\ IF stage = "done" /\ result = {}
     THEN ~IsDocument /\ files = {} /\ diags = <<[code |-> "NotBeansRoot", at |-> root]>>
     ELSE Tells(diags, SaidOfAll(Passed))

(* The inductive invariant.                                                 *)
DInv == /\ IInv /\ doc \in Documents
        /\ FramesDeclared /\ ContextsDeclared /\ ReadInOrder /\ FilesDeclared /\ AllTold
-----------------------------------------------------------------------------
(* What is declared depends on the document only.                           *)
LEMMA DeclaredStable ==
  ASSUME UNCHANGED <<doc, root>>
  PROVE  /\ \A n : Children(n)' = Children(n) /\ Parent(n)' = Parent(n) /\ Above(n)' = Above(n)
         /\ \A n, p : Nearest(n, p)' = Nearest(n, p)
         /\ \A n : (Opened(n)' <=> Opened(n)) /\ (Stub(n)' <=> Stub(n))
         /\ \A n : SaidOf(n)' = SaidOf(n)
         /\ \A f : ReadOf(f)' = ReadOf(f) /\ (AsDeclared(f)' <=> AsDeclared(f))
         /\ \A S, slot : Declared(S, slot)' = Declared(S, slot)
         /\ \A S : SaidOfAll(S)' = SaidOfAll(S)
         /\ IsDocument' <=> IsDocument
  <1>1. \A n : Children(n)' = Children(n)
    BY DEF Children, KidsOf
  <1>2. \A n : Parent(n)' = Parent(n)
    BY <1>1 DEF Parent
  <1>3. \A n : Above(n)' = Above(n)
    BY <1>2 DEF Above
  <1>4. \A n, p : Nearest(n, p)' = Nearest(n, p)
    BY <1>3 DEF Nearest, Declaring
  <1>5. \A n : ArmOf(n)' = ArmOf(n)
    BY <1>4 DEF ArmOf, NamespaceOf
  <1>6. \A n : IsBody(n)' <=> IsBody(n)
    BY <1>3, <1>5 DEF IsBody
  <1>7. \A n : (Opened(n)' <=> Opened(n)) /\ (Stub(n)' <=> Stub(n))
    BY <1>3, <1>6 DEF Opened, Stub
  <1>8. \A n : Repeats(n)' <=> Repeats(n)
    BY <1>1, <1>2, <1>5 DEF Repeats, SameId
  <1>9. \A n : SaidOf(n)' = SaidOf(n)
    BY <1>2, <1>5, <1>7, <1>8 DEF SaidOf, Say
  <1>10. \A S, slot : Declared(S, slot)' = Declared(S, slot)
    BY <1>5 DEF Declared, Kind
  <1>11. \A f : ReadOf(f)' = ReadOf(f)
    BY DEF ReadOf, Kids
  <1>12. \A f : AsDeclared(f)' <=> AsDeclared(f)
    BY <1>1, <1>7, <1>10 DEF AsDeclared
  <1>13. \A S : SaidOfAll(S)' = SaidOfAll(S)
    BY <1>9 DEF SaidOfAll
  <1>14. IsDocument' <=> IsDocument
    BY <1>6 DEF IsDocument
  <1> QED
    BY <1>1, <1>2, <1>3, <1>4, <1>7, <1>9, <1>10, <1>11, <1>12, <1>13, <1>14

(* One more at the end of a list.                                           *)
LEMMA ListedMore ==
  ASSUME NEW s \in Seq(Nodes), NEW S, Listed(s, S), NEW n \in Nodes, \A m \in S : m < n
  PROVE  Listed(Append(s, n), S \cup {n})
  <1> DEFINE t == Append(s, n)
             k == Len(s)
  <1>1. /\ Len(t) = k + 1 /\ k \in Nat /\ t[k + 1] = n
        /\ \A i \in 1 .. k : t[i] = s[i]
    BY AppendProperties
  <1>2. /\ {s[i] : i \in 1 .. k} = S
        /\ \A i, j \in 1 .. k : i < j => s[i] < s[j]
    BY DEF Listed
  <1> HIDE DEF t, k
  <1>3. \A i \in 1 .. k + 1 : i \in 1 .. k \/ i = k + 1
    BY <1>1
  <1>4. 1 .. k \subseteq 1 .. k + 1 /\ k + 1 \in 1 .. k + 1
    BY <1>1
  <1>5. {t[i] : i \in 1 .. k + 1} = S \cup {n}
    BY <1>1, <1>2, <1>3, <1>4
  <1>6. ASSUME NEW i \in 1 .. k + 1, NEW j \in 1 .. k + 1, i < j
        PROVE  t[i] < t[j]
    <2>1. i \in 1 .. k
      BY <1>1, <1>6
    <2>2. t[i] = s[i] /\ t[i] \in S
      BY <1>1, <1>2, <2>1
    <2>3. CASE j = k + 1
      BY <1>1, <2>2, <2>3
    <2>4. CASE j \in 1 .. k
      BY <1>1, <1>2, <1>6, <2>1, <2>2, <2>4
    <2> QED
      BY <1>3, <2>3, <2>4
  <1> QED
    BY <1>1, <1>5, <1>6 DEF t, Listed

(* One more diagnostic at the end of the report, or none.                   *)
LEMMA TellsMore ==
  ASSUME NEW s \in Seq(Diag), NEW S, Tells(s, S), NEW b \in BOOLEAN, NEW code \in Code,
         NEW n \in Nodes, b => \A d \in S : Before(d, [code |-> code, at |-> {n}])
  PROVE  /\ Tells(s \o DiagnoseIf(b, code, n), S \cup Say(b, code, n))
         /\ s \o DiagnoseIf(b, code, n) \in Seq(Diag)
  <1> DEFINE d == [code |-> code, at |-> {n}]
             t == Append(s, d)
             k == Len(s)
  <1>1. CASE ~b
    <2>1. s \o DiagnoseIf(b, code, n) = s /\ S \cup Say(b, code, n) = S
      BY <1>1 DEF DiagnoseIf, Say
    <2> QED
      BY <2>1
  <1>2. CASE b
    <2>1. d \in Diag
      BY DEF Diag, Option
    <2>2. s \o DiagnoseIf(b, code, n) = t /\ S \cup Say(b, code, n) = S \cup {d}
      BY <1>2, <2>1, AppendIsConcat DEF DiagnoseIf, Diagnose, Say
    <2>3. /\ Len(t) = k + 1 /\ k \in Nat /\ t[k + 1] = d /\ t \in Seq(Diag)
          /\ \A i \in 1 .. k : t[i] = s[i]
      BY <2>1, AppendProperties
    <2>4. /\ {s[i] : i \in 1 .. k} = S
          /\ \A i, j \in 1 .. k : i < j => Before(s[i], s[j])
      BY DEF Tells
    <2>5. \A e \in S : Before(e, d)
      BY <1>2
    <2> HIDE DEF t, k, d
    <2>6. \A i \in 1 .. k + 1 : i \in 1 .. k \/ i = k + 1
      BY <2>3
    <2>7. 1 .. k \subseteq 1 .. k + 1 /\ k + 1 \in 1 .. k + 1
      BY <2>3
    <2>8. {t[i] : i \in 1 .. k + 1} = S \cup {d}
      BY <2>3, <2>4, <2>6, <2>7
    <2>9. ASSUME NEW i \in 1 .. k + 1, NEW j \in 1 .. k + 1, i < j
          PROVE  Before(t[i], t[j])
      <3>1. i \in 1 .. k
        BY <2>3, <2>9
      <3>2. t[i] = s[i] /\ t[i] \in S
        BY <2>3, <2>4, <3>1
      <3>3. CASE j = k + 1
        BY <2>3, <2>5, <3>2, <3>3
      <3>4. CASE j \in 1 .. k
        BY <2>3, <2>4, <2>9, <3>1, <3>2, <3>4
      <3> QED
        BY <2>6, <3>3, <3>4
    <2> QED
      BY <2>2, <2>3, <2>8, <2>9 DEF Tells
  <1> QED
    BY <1>1, <1>2
-----------------------------------------------------------------------------
(* The child under the cursor comes after everything that has been passed,  *)
(* and nothing to be read has been passed over before it.                   *)

LEMMA IsPassed ==
  ASSUME NEW m
  PROVE  m \in Passed <=> \/ \E i \in 1 .. Len(stack) : m \in ReadOf(stack[i])
                          \/ \E n \in Closed : Opened(n) /\ m \in Children(n)
  <1> DEFINE Here  == UNION {ReadOf(stack[i]) : i \in 1 .. Len(stack)}
             There == UNION {Children(n) : n \in {b \in Closed : Opened(b)}}
  <1>1. m \in Here <=> \E i \in 1 .. Len(stack) : m \in ReadOf(stack[i])
    OBVIOUS
  <1>2. m \in There <=> \E n \in Closed : Opened(n) /\ m \in Children(n)
    OBVIOUS
  <1>3. Passed = Here \cup There
    BY DEF Passed
  <1> HIDE DEF Here, There
  <1> QED
    BY <1>1, <1>2, <1>3

(* What a frame has read are children of its element.                       *)
LEMMA ReadAreChildren ==
  ASSUME doc \in Documents, NEW f \in Frame, FrameOK(f)
  PROVE  /\ f.node \in Nodes /\ f.idx \in Nat
         /\ ReadOf(f) \subseteq Children(f.node)
         /\ f.idx = Len(Kids(f.node)) => ReadOf(f) = Children(f.node)
  <1>1. f.node \in Nodes /\ f.idx \in Nat
    BY DEF Frame
  <1>2. /\ Children(f.node) = {Kids(f.node)[i] : i \in 1 .. Len(Kids(f.node))}
        /\ Len(Kids(f.node)) \in Nat
    BY <1>1, KidsInOrder
  <1>3. f.idx <= Len(Kids(f.node))
    BY DEF FrameOK
  <1>4. 1 .. f.idx \subseteq 1 .. Len(Kids(f.node))
    BY <1>1, <1>2, <1>3
  <1> QED
    BY <1>1, <1>2, <1>4 DEF ReadOf

(* The same of every frame of the stack; all stand above the top one.       *)
LEMMA Frames ==
  ASSUME DInv, NEW i \in 1 .. Len(stack)
  PROVE  /\ stack[i] \in Frame /\ FrameOK(stack[i])
         /\ stack[i].node \in Nodes /\ stack[i].idx \in Nat
         /\ ReadOf(stack[i]) \subseteq Children(stack[i].node)
         /\ Top = stack[Len(stack)] /\ Len(stack) \in 1 .. Len(stack)
         /\ stack[i].node \in Above(Top.node) /\ stack[i].node <= Top.node
  <1>1. stack \in Seq(Frame) /\ FrameOK(stack[i]) /\ doc \in Documents
    BY DEF DInv, IInv, TypeOK
  <1>2. stack[i] \in Frame
    BY <1>1, ElementOfSeq
  <1>3. Top = stack[Len(stack)] /\ Len(stack) \in 1 .. Len(stack) /\ i \in 1 .. Len(stack)
    BY <1>1 DEF Top
  <1>4. stack[i].node \in Above(Top.node)
    BY <1>3 DEF DInv, FramesDeclared
  <1> QED
    BY <1>1, <1>2, <1>3, <1>4, ReadAreChildren DEF Above

LEMMA PassedType ==
  ASSUME DInv
  PROVE  Passed \subseteq Nodes
  <1>1. SUFFICES ASSUME NEW m \in Passed PROVE m \in Nodes
    OBVIOUS
  <1>2. doc \in Documents /\ \A n \in Closed : n \in Nodes
    BY DEF Closed, DInv, IInv, TypeOK, File
  <1>3. CASE \E i \in 1 .. Len(stack) : m \in ReadOf(stack[i])
    BY <1>2, <1>3, Frames, KidsInOrder
  <1>4. CASE \E n \in Closed : m \in Children(n)
    BY <1>2, <1>4, KidsInOrder
  <1> QED
    BY <1>1, <1>3, <1>4, IsPassed

(* The child under the cursor, and what there is to know of it.             *)
LEMMA NextIsChild ==
  ASSUME DInv, NEW slots, Stepping(slots)
  PROVE  /\ stage = "body" /\ incoming = {} /\ stack # <<>> /\ doc \in Documents
         /\ NextChild \in Nodes /\ Top.node \in Nodes /\ Top.node < NextChild
         /\ NextChild \in Children(Top.node) /\ Parent(NextChild) = {Top.node}
         /\ Opened(Top.node) /\ Cardinality(Above(Top.node)) = Len(stack)
         /\ Top.depth = Len(stack) - 1
         /\ Arm(NextChild, Top.scope) = ArmOf(NextChild)
         /\ ArmOf(NextChild) \in slots
  <1>1. /\ stage = "body" /\ incoming = {} /\ stack # <<>> /\ HasNext /\ IInv /\ StackOK
        /\ Arm(NextChild, Top.scope) \in slots /\ doc \in Documents
    BY StackFromInv DEF DInv, IInv, TypeOK, Stepping
  <1>2. Len(stack) \in 1 .. Len(stack) /\ Top.depth = Len(stack) - 1 /\ Top = stack[Len(stack)]
    BY <1>1, TopType
  <1>3. Top.node \in Nodes /\ Top.idx \in Nat
    BY <1>2, Frames
  <1>4. /\ Opened(Top.node) /\ Cardinality(Above(Top.node)) = Len(stack)
        /\ \A p \in NsPrefixes : Top.scope[p] = Nearest(Top.node, p)
    BY <1>2 DEF DInv, FramesDeclared
  <1>5. Top.idx + 1 \in 1 .. Len(Kids(Top.node))
    BY <1>1, <1>3, KidsInOrder DEF HasNext
  <1>6. NextChild \in Children(Top.node)
    BY <1>1, <1>3, <1>5, KidsInOrder DEF NextChild
  <1>7. NextChild \in Nodes /\ Top.node < NextChild /\ Parent(NextChild) = {Top.node}
    BY <1>1, <1>3, <1>6, KidsInOrder
  <1>8. Arm(NextChild, Top.scope) = ArmOf(NextChild)
    BY <1>1, <1>3, <1>4, <1>6, ArmOfChild
  <1> QED
    BY <1>1, <1>2, <1>3, <1>4, <1>6, <1>7, <1>8

(* What the top frame has read are the children before it.                  *)
LEMMA ReadBeforeNext ==
  ASSUME DInv, NEW slots, Stepping(slots)
  PROVE  /\ ReadOf(Top) = {m \in Children(Top.node) : m < NextChild}
         /\ ReadOf(Past) = ReadOf(Top) \cup {NextChild}
  <1> DEFINE kids == Kids(Top.node)
             i == Top.idx
  <1>1. Top.node \in Nodes /\ i \in Nat /\ doc \in Documents
    BY NextIsChild, TopType, StackFromInv DEF DInv, Frame
  <1>2. NextChild = kids[i + 1] /\ ReadOf(Top) = {kids[j] : j \in 1 .. i}
    BY DEF NextChild, ReadOf
  <1>3. /\ Children(Top.node) = {kids[j] : j \in 1 .. Len(kids)} /\ Len(kids) \in Nat
        /\ \A j, k \in 1 .. Len(kids) : j < k => kids[j] < kids[k]
        /\ \A c \in Children(Top.node) : c \in Nat
    BY <1>1, KidsInOrder, Numbers
  <1>4. i + 1 <= Len(kids)
    BY <1>1, <1>3 DEF Stepping, HasNext
  <1>5. Past.node = Top.node /\ Past.idx = i + 1
    BY PastType, TopType, StackFromInv, NextIsChild DEF DInv, Past, Frame
  <1>6. ReadOf(Past) = {kids[j] : j \in 1 .. i + 1}
    BY <1>5 DEF ReadOf
  <1> HIDE DEF kids, i
  <1>7. /\ i + 1 \in 1 .. Len(kids) /\ 1 .. i \subseteq 1 .. Len(kids)
        /\ \A j \in 1 .. i + 1 : j \in 1 .. i \/ j = i + 1
        /\ 1 .. i \subseteq 1 .. i + 1 /\ i + 1 \in 1 .. i + 1
    BY <1>1, <1>3, <1>4
  <1>8. ReadOf(Past) = ReadOf(Top) \cup {NextChild}
    BY <1>2, <1>6, <1>7
  <1>9. ASSUME NEW j \in 1 .. Len(kids)
        PROVE  j \in 1 .. i <=> kids[j] < kids[i + 1]
    <2>1. CASE j < i + 1
      <3>1. kids[j] < kids[i + 1]
        BY <1>3, <1>7, <2>1
      <3> QED
        BY <1>1, <2>1, <3>1
    <2>2. CASE j = i + 1
      <3>1. j \notin 1 .. i /\ kids[j] = kids[i + 1] /\ kids[j] \in Nat
        BY <1>1, <1>3, <2>2
      <3> QED
        BY <3>1
    <2>3. CASE i + 1 < j
      <3>1. kids[i + 1] < kids[j] /\ kids[j] \in Nat /\ kids[i + 1] \in Nat
        BY <1>3, <1>7, <2>3
      <3> QED
        BY <1>1, <2>3, <3>1
    <2> QED
      BY <1>1, <2>1, <2>2, <2>3
  <1> QED
    BY <1>2, <1>3, <1>7, <1>8, <1>9

LEMMA NextIsNew ==
  ASSUME DInv, NEW slots, Stepping(slots)
  PROVE  /\ NextChild \notin Closed /\ NextChild \notin OpenNodes
         /\ \A m \in Passed : m \in Nodes /\ m < NextChild
  <1> DEFINE c == NextChild
             k == Len(stack)
  <1>1. /\ c \in Nodes /\ c \in Children(Top.node) /\ Parent(c) = {Top.node} /\ Opened(Top.node)
        /\ Top.node \in Nodes /\ Top.node < c /\ doc \in Documents /\ stage = "body"
        /\ stack # <<>> /\ StackOK
    BY NextIsChild, StackFromInv DEF DInv
  <1>2. Top = stack[k] /\ k \in 1 .. k
    BY <1>1, TopType
  <1> HIDE DEF c
  <1>3. c \notin OpenNodes
    <2>1. SUFFICES ASSUME NEW i \in 1 .. k, stack[i].node = c PROVE FALSE
      BY DEF OpenNodes
    <2>2. c <= Top.node
      BY <2>1, Frames
    <2>3. c \in Nat /\ Top.node \in Nat
      BY <1>1, Numbers
    <2> QED
      BY <1>1, <2>2, <2>3
  <1>4. ASSUME NEW i \in 1 .. k PROVE c \notin ReadOf(stack[i])
    <2>1. SUFFICES ASSUME c \in ReadOf(stack[i]) PROVE FALSE
      OBVIOUS
    <2>2. stack[i].node = Top.node
      <3>1. c \in Children(stack[i].node) /\ stack[i].node \in Nodes
        BY <2>1, Frames
      <3> QED
        BY <1>1, <3>1 DEF Parent
    <2>3. i = k
      <3>1. Cardinality(Above(stack[i].node)) = i /\ Cardinality(Above(stack[k].node)) = k
        BY <1>2 DEF DInv, FramesDeclared
      <3> QED
        BY <1>2, <2>2, <3>1
    <2>4. c < c
      BY <1>2, <2>1, <2>3, ReadBeforeNext DEF c
    <2> QED
      BY <1>1, <2>4, Numbers
  <1>5. c \notin Passed
    <2>1. SUFFICES ASSUME NEW n \in Closed, Opened(n), c \in Children(n) PROVE FALSE
      BY <1>4, IsPassed
    <2>2. n \in Nodes
      BY DEF Closed, DInv, IInv, TypeOK, File
    <2>3. n = Top.node
      BY <1>1, <2>1, <2>2 DEF Parent
    <2> QED
      BY <1>2, <2>3 DEF DInv, FramesDeclared
  <1>6. c \notin Closed
    BY <1>1, <1>5 DEF Closed, DInv, FilesDeclared
  <1>7. ASSUME NEW m \in Passed PROVE m \in Nodes /\ m < c
    <2>1. m \in Nodes
      BY <1>7, PassedType
    <2>2. ~(c < m)
      <3>1. c < m => c \in Passed
        BY <1>1 DEF DInv, ReadInOrder
      <3> QED
        BY <1>5, <3>1
    <2>3. m # c
      BY <1>5
    <2> QED
      BY <1>1, <2>1, <2>2, <2>3, Numbers
  <1> QED
    BY <1>3, <1>6, <1>7 DEF c

LEMMA NoneLeftOut ==
  ASSUME DInv, NEW slots, Stepping(slots), NEW n \in Nodes, n < NextChild,
         \E b \in Parent(n) : Opened(b)
  PROVE  n \in Passed
  <1> DEFINE c == NextChild
             k == Len(stack)
             Left == {m \in Nodes : m < c /\ m \notin Passed /\ \E b \in Parent(m) : Opened(b)}
  <1>1. SUFFICES ASSUME Left # {} PROVE FALSE
    OBVIOUS
  <1>2. PICK m \in Left : \A y \in Left : m <= y
    <2>1. Left \subseteq Nat
      BY Numbers
    <2> HIDE DEF Left
    <2> QED
      BY <1>1, <2>1, Least
  <1>3. PICK b \in Parent(m) : Opened(b)
    BY <1>2
  <1>4. /\ c \in Nodes /\ c \in Children(Top.node) /\ Top.node \in Nodes /\ stack # <<>>
        /\ doc \in Documents /\ stage = "body" /\ StackOK /\ incoming = {}
    BY NextIsChild, StackFromInv DEF DInv
  <1>5. b \in Nodes /\ m \in Children(b) /\ m \in Nodes /\ m < c /\ m \notin Passed
    BY <1>2 DEF Parent
  <1>6. b < m /\ Parent(m) = {b} /\ b \in Nat /\ m \in Nat /\ c \in Nat
    BY <1>4, <1>5, KidsInOrder, Numbers
  <1>7. Top = stack[k] /\ k \in 1 .. k
    BY <1>4, TopType
  <1>8. b \in OpenNodes
    <2>1. b \notin Closed
      BY <1>3, <1>5, IsPassed
    <2>2. CASE b = RootElement
      <3>1. root = {stack[1].node} /\ root \subseteq {RootElement}
        BY <1>4 DEF DInv, IInv, TypeOK, DeliversToParent, Option
      <3>2. 1 \in 1 .. k
        BY <1>7
      <3> QED
        BY <2>2, <3>1, <3>2 DEF OpenNodes
    <2>3. CASE b # RootElement
      <3>1. root \subseteq {RootElement}
        BY DEF DInv, IInv, TypeOK, Option
      <3>2. PICK a \in Nodes : b \in Children(a) /\ Opened(a)
        BY <1>3, <1>4, <1>5, <2>3, <3>1, ReadInRead
      <3>3. a \in Parent(b)
        BY <3>2 DEF Parent
      <3>4. b \in Passed
        <4>1. b \notin Left /\ b < c
          BY <1>2, <1>5, <1>6
        <4> QED
          BY <1>5, <3>2, <3>3, <4>1
      <3> QED
        BY <1>3, <2>1, <3>4 DEF DInv, ReadInOrder
    <2> QED
      BY <2>2, <2>3
  <1>9. PICK i \in 1 .. k : b = stack[i].node
    BY <1>8 DEF OpenNodes
  <1>10. CASE i = k
    <2>1. m \in ReadOf(Top)
      BY <1>5, <1>7, <1>9, <1>10, ReadBeforeNext
    <2> QED
      BY <1>5, <1>7, <2>1, IsPassed
  <1>11. CASE i # k
    <2> DEFINE t == stack[i + 1].node
    <2>1. i \in 1 .. k - 1 /\ i + 1 \in 1 .. k
      BY <1>7, <1>11
    <2>2. t = Taken(stack[i]) /\ stack[i].idx > 0
      BY <1>4, <2>1 DEF StackOK
    <2>3. stack[i] \in Frame /\ FrameOK(stack[i]) /\ stack[i].idx \in Nat
      BY Frames
    <2>4. m \notin ReadOf(stack[i])
      BY <1>5, IsPassed
    <2>5. t < m
      <3> DEFINE kids == Kids(b)
                 j == stack[i].idx
      <3>1. /\ Children(b) = {kids[x] : x \in 1 .. Len(kids)} /\ Len(kids) \in Nat
            /\ \A x, y \in 1 .. Len(kids) : x < y => kids[x] < kids[y]
        BY <1>4, <1>5, KidsInOrder
      <3>2. t = kids[j] /\ j \in Nat /\ j > 0 /\ j <= Len(kids)
        BY <1>9, <2>2, <2>3 DEF Taken, FrameOK
      <3>3. PICK x \in 1 .. Len(kids) : m = kids[x]
        BY <1>5, <3>1
      <3>4. x \notin 1 .. j
        BY <1>9, <2>4, <3>3 DEF ReadOf
      <3> HIDE DEF kids, j, t
      <3>5. j \in 1 .. Len(kids) /\ j < x
        BY <3>1, <3>2, <3>4
      <3> QED
        BY <3>1, <3>2, <3>3, <3>5
    <2>6. t \in Above(c)
      <3>1. t \in Above(Top.node)
        BY <2>1, Frames
      <3> QED
        BY <1>4, <3>1, AboveChild
    <2>7. m \in t + 1 .. c
      <3>1. t \in Nat
        BY <2>6, Numbers DEF Above
      <3> QED
        BY <1>5, <1>6, <2>5, <3>1
    <2>8. t <= b
      BY <1>6, <2>6, <2>7 DEF Above
    <2>9. b < t
      <3>1. t \in Children(b)
        <4>1. t \in ReadOf(stack[i])
          BY <2>2, <2>3 DEF ReadOf, Taken
        <4> QED
          BY <1>9, <4>1, Frames
      <3> QED
        BY <1>4, <1>5, <3>1, KidsInOrder
    <2>10. t \in Nat
      BY <2>6, Numbers DEF Above
    <2> HIDE DEF t
    <2> QED
      BY <1>6, <2>8, <2>9, <2>10
  <1> QED
    BY <1>10, <1>11
-----------------------------------------------------------------------------
(* What the child under the cursor is, what is said of it and where it is   *)
(* kept.                                                                    *)

LEMMA NextIsBody ==
  ASSUME DInv, NEW slots, Stepping(slots)
  PROVE  /\ Opened(NextChild) <=> ArmOf(NextChild) = "nested_profiles" /\ Top.depth + 1 < DepthLimit
         /\ Stub(NextChild) <=> ArmOf(NextChild) = "nested_profiles" /\ Top.depth + 1 >= DepthLimit
         /\ Above(NextChild) = Above(Top.node) \cup {NextChild}
         /\ Cardinality(Above(NextChild)) = Len(stack) + 1
  <1> DEFINE c == NextChild
             k == Len(stack)
  <1>1. /\ c \in Children(Top.node) /\ Opened(Top.node) /\ Cardinality(Above(Top.node)) = k
        /\ Top.depth = k - 1 /\ Top.node \in Nodes /\ doc \in Documents
    BY NextIsChild
  <1>2. k \in Nat
    BY NextIsChild, TopType, StackFromInv DEF DInv
  <1> HIDE DEF c, k
  <1>3. IsBody(c) <=> ArmOf(c) = "nested_profiles"
    BY <1>1, BodyOfChild DEF Opened
  <1>4. Cardinality(Above(c)) = k + 1
    BY <1>1, DepthOfChild
  <1>5. k <= DepthLimit /\ DepthLimit \in Nat
    BY <1>1, ConstantsOK DEF Opened
  <1>6. /\ k + 1 <= DepthLimit <=> Top.depth + 1 < DepthLimit
        /\ k + 1 = DepthLimit + 1 <=> Top.depth + 1 >= DepthLimit
    BY <1>1, <1>2, <1>5
  <1>7. Opened(c) <=> ArmOf(c) = "nested_profiles" /\ Top.depth + 1 < DepthLimit
    BY <1>3, <1>4, <1>6 DEF Opened
  <1>8. Stub(c) <=> ArmOf(c) = "nested_profiles" /\ Top.depth + 1 >= DepthLimit
    BY <1>3, <1>4, <1>6 DEF Stub
  <1> QED
    BY <1>1, <1>4, <1>7, <1>8, AboveChild DEF c, k

LEMMA SaidAt ==
  ASSUME NEW n, NEW d \in SaidOf(n)
  PROVE  d.at = {n}
  BY DEF SaidOf, Say

LEMMA SaidOfNext ==
  ASSUME DInv, NEW slots, Stepping(slots)
  PROVE  SaidOf(NextChild) =
           CASE ArmOf(NextChild) = "unknown"    -> Say(TRUE, "UnknownElement", NextChild)
             [] ArmOf(NextChild) = "namespaced" -> Say(doc[NextChild].flawed, "NamespacedDiagnostic", NextChild)
             [] ArmOf(NextChild) = "beans"      -> Say(doc[NextChild].flawed, "BeanDiagnostic", NextChild)
                                                     \cup Say(IsDuplicate(NextChild), "DuplicateBeanId", NextChild)
             [] OTHER                           -> Say(Stub(NextChild), "NestingLimitExceeded", NextChild)
  <1> DEFINE c == NextChild
  <1>1. /\ Parent(c) = {Top.node} /\ Opened(Top.node) /\ stack # <<>> /\ incoming = {}
        /\ stack \in Seq(Frame) /\ StackOK
    BY NextIsChild, StackFromInv DEF DInv, IInv, TypeOK
  <1>2. ASSUME ArmOf(c) = "beans" PROVE IsDuplicate(c) <=> Repeats(c)
    <2> DEFINE list == Top.ctx["beans"]
    <2>1. Len(stack) \in 1 .. Len(stack) /\ Top = stack[Len(stack)] /\ "beans" \in Slot
      BY <1>1, TopType DEF Slot
    <2>2. Listed(list, Declared(ReadOf(Top) \ {}, "beans"))
      BY <1>1, <2>1 DEF DInv, ContextsDeclared, Awaited
    <2>3. {list[i] : i \in 1 .. Len(list)} = {m \in ReadOf(Top) : ArmOf(m) = "beans"}
      BY <2>2 DEF Listed, Declared, Kind
    <2>4. ReadOf(Top) = {m \in Children(Top.node) : m < c}
      BY ReadBeforeNext
    <2>5. IsDuplicate(c) <=> \E m \in {list[i] : i \in 1 .. Len(list)} : SameId(m, c)
      BY DEF IsDuplicate
    <2>6. Repeats(c) <=> \E m \in Children(Top.node) : m < c /\ ArmOf(m) = "beans" /\ SameId(m, c)
      BY <1>1 DEF Repeats
    <2> QED
      BY <2>3, <2>4, <2>5, <2>6
  <1>3. ~ \A b \in Parent(c) : ~Opened(b)
    BY <1>1
  <1>4. SaidOf(c) =
          CASE ArmOf(c) = "unknown"    -> Say(TRUE, "UnknownElement", c)
            [] ArmOf(c) = "namespaced" -> Say(doc[c].flawed, "NamespacedDiagnostic", c)
            [] ArmOf(c) = "beans"      -> Say(doc[c].flawed, "BeanDiagnostic", c)
                                            \cup Say(Repeats(c), "DuplicateBeanId", c)
            [] OTHER                   -> Say(Stub(c), "NestingLimitExceeded", c)
    BY <1>3 DEF SaidOf
  <1> HIDE DEF c
  <1>5. ArmOf(c) = "beans" => Say(IsDuplicate(c), "DuplicateBeanId", c) = Say(Repeats(c), "DuplicateBeanId", c)
    BY <1>2 DEF Say
  <1>6. SaidOf(c) =
          CASE ArmOf(c) = "unknown"    -> Say(TRUE, "UnknownElement", c)
            [] ArmOf(c) = "namespaced" -> Say(doc[c].flawed, "NamespacedDiagnostic", c)
            [] ArmOf(c) = "beans"      -> Say(doc[c].flawed, "BeanDiagnostic", c)
                                            \cup Say(IsDuplicate(c), "DuplicateBeanId", c)
            [] OTHER                   -> Say(Stub(c), "NestingLimitExceeded", c)
    BY <1>4, <1>5
  <1> QED
    BY <1>6 DEF c

(* Everything said so far comes before what is said of it.                  *)
LEMMA SaidBeforeNext ==
  ASSUME DInv, NEW slots, Stepping(slots), NEW code, NEW d \in SaidOfAll(Passed)
  PROVE  Before(d, [code |-> code, at |-> {NextChild}])
  <1>1. PICK m \in Passed : d \in SaidOf(m)
    BY DEF SaidOfAll
  <1>2. d.at = {m} /\ m < NextChild
    BY <1>1, SaidAt, NextIsNew
  <1> QED
    BY <1>2 DEF Before

LEMMA DeclaredMore ==
  ASSUME NEW S \in SUBSET Nodes, NEW c \in Nodes, \A m \in S : m < c, NEW slot
  PROVE  Declared(S \cup {c}, slot) = IF ArmOf(c) # slot THEN Declared(S, slot)
                                      ELSE IF slot = "description" THEN {c}
                                      ELSE Declared(S, slot) \cup {c}
  <1>1. CASE ArmOf(c) # slot
    BY <1>1 DEF Declared, Kind
  <1>2. CASE ArmOf(c) = slot
    <2>1. Kind(S \cup {c}, slot) = Kind(S, slot) \cup {c} /\ Kind(S, slot) \subseteq S
      BY <1>2 DEF Kind
    <2>2. c \in Nat /\ \A m \in S : m \in Nat
      BY Numbers
    <2>3. {x \in Kind(S, slot) \cup {c} : \A b \in Kind(S, slot) \cup {c} : b <= x} = {c}
      <3> DEFINE K == Kind(S, slot)
      <3>1. \A m \in K : m \in Nat /\ m < c
        BY <2>1, <2>2
      <3> HIDE DEF K
      <3>2. \A x \in K : ~(c <= x)
        BY <2>2, <3>1
      <3>3. \A b \in K \cup {c} : b <= c
        BY <2>2, <3>1
      <3> QED
        BY <3>2, <3>3 DEF K
    <2> QED
      BY <1>2, <2>1, <2>3 DEF Declared
  <1> QED
    BY <1>1, <1>2

(* The top frame has what is declared of all it has read.                   *)
LEMMA TopContext ==
  ASSUME DInv, NEW slots, Stepping(slots), NEW slot \in Slot
  PROVE  /\ Listed(Top.ctx[slot], Declared(ReadOf(Top), slot))
         /\ Top.ctx \in BeansFileCtx /\ Top.ctx[slot] \in Seq(Nodes)
         /\ ReadOf(Top) \in SUBSET Nodes /\ \A m \in ReadOf(Top) : m < NextChild
  <1>1. incoming = {} /\ stack # <<>> /\ StackOK /\ doc \in Documents /\ Top.node \in Nodes
    BY NextIsChild, StackFromInv DEF DInv
  <1>2. Len(stack) \in 1 .. Len(stack) /\ Top = stack[Len(stack)] /\ Top \in Frame
    BY <1>1, TopType
  <1>3. Listed(Top.ctx[slot], Declared(ReadOf(Top) \ {}, slot))
    <2>1. Awaited(Len(stack)) = {}
      BY <1>1, <1>2 DEF Awaited
    <2> QED
      BY <1>2, <2>1 DEF DInv, ContextsDeclared
  <1>4. Top.ctx \in BeansFileCtx /\ Top.ctx[slot] \in Seq(Nodes)
    BY <1>2 DEF Frame, BeansFileCtx
  <1>5. ReadOf(Top) \ {} = ReadOf(Top)
    OBVIOUS
  <1>6. ReadOf(Top) \in SUBSET Nodes /\ \A m \in ReadOf(Top) : m < NextChild
    BY <1>1, ReadBeforeNext, KidsInOrder
  <1> QED
    BY <1>3, <1>4, <1>5, <1>6

(* The context of the frame once the child is read: it is in its field, or  *)
(* there is none for it.                                                    *)
LEMMA ContextMore ==
  ASSUME DInv, NEW slots, Stepping(slots), NEW slot \in Slot
  PROVE  /\ ArmOf(NextChild) # slot =>
              Listed(Top.ctx[slot], Declared(ReadOf(Top) \cup {NextChild}, slot))
         /\ ArmOf(NextChild) = slot /\ slot # "description" =>
              Listed(Append(Top.ctx[slot], NextChild), Declared(ReadOf(Top) \cup {NextChild}, slot))
         /\ ArmOf(NextChild) = slot /\ slot = "description" =>
              Listed(<<NextChild>>, Declared(ReadOf(Top) \cup {NextChild}, slot))
  <1> DEFINE c == NextChild
             D == Declared(ReadOf(Top), slot)
  <1>1. /\ Listed(Top.ctx[slot], D) /\ Top.ctx[slot] \in Seq(Nodes)
        /\ ReadOf(Top) \in SUBSET Nodes /\ \A m \in ReadOf(Top) : m < c
    BY TopContext
  <1>2. c \in Nodes
    BY NextIsChild
  <1>3. Declared(ReadOf(Top) \cup {c}, slot) = IF ArmOf(c) # slot THEN D
                                               ELSE IF slot = "description" THEN {c}
                                               ELSE D \cup {c}
    BY <1>1, <1>2, DeclaredMore
  <1>4. \A m \in D : m < c
    BY <1>1 DEF Declared, Kind
  <1>5. Listed(<<c>>, {c})
    <2>1. Len(<<c>>) = 1 /\ <<c>>[1] = c
      OBVIOUS
    <2> HIDE DEF c
    <2> QED
      BY <2>1 DEF Listed
  <1>6. Listed(Append(Top.ctx[slot], c), D \cup {c})
    BY <1>1, <1>2, <1>4, ListedMore
  <1> HIDE DEF c, D
  <1>7. /\ ArmOf(c) # slot => Listed(Top.ctx[slot], Declared(ReadOf(Top) \cup {c}, slot))
        /\ ArmOf(c) = slot /\ slot # "description" =>
             Listed(Append(Top.ctx[slot], c), Declared(ReadOf(Top) \cup {c}, slot))
        /\ ArmOf(c) = slot /\ slot = "description" =>
             Listed(<<c>>, Declared(ReadOf(Top) \cup {c}, slot))
    BY <1>1, <1>3, <1>5, <1>6
  <1> QED
    BY <1>7 DEF c
-----------------------------------------------------------------------------
(* A child is passed.                                                       *)

LEMMA PassedNext ==
  ASSUME UNCHANGED <<doc, root>>, NEW m
  PROVE  m \in Passed' <=> \/ \E i \in 1 .. Len(stack') : m \in ReadOf(stack'[i])
                           \/ \E n \in Closed' : Opened(n) /\ m \in Children(n)
  <1> DEFINE Here  == UNION {ReadOf(stack'[i]) : i \in 1 .. Len(stack')}
             There == UNION {Children(n) : n \in {b \in Closed' : Opened(b)}}
  <1>1. m \in Here <=> \E i \in 1 .. Len(stack') : m \in ReadOf(stack'[i])
    OBVIOUS
  <1>2. m \in There <=> \E n \in Closed' : Opened(n) /\ m \in Children(n)
    OBVIOUS
  <1>3. Passed' = Here \cup There
    BY DeclaredStable DEF Passed
  <1> HIDE DEF Here, There
  <1> QED
    BY <1>1, <1>2, <1>3

(* What is known of all children that have been passed holds of this one    *)
(* when it is put on the stack or among the files as it has to be.          *)
LEMMA ChildPassed ==
  ASSUME DInv, NEW slots, Stepping(slots),
         UNCHANGED <<doc, root, stage, incoming, result>>,
         Passed' = Passed \cup {NextChild},
         OpenNodes \subseteq OpenNodes', Opened(NextChild) => NextChild \in OpenNodes',
         \/ ~Stub(NextChild) /\ files' = files
         \/ Stub(NextChild) /\ files' = files \cup {[node |-> NextChild, ctx |-> EmptyCtx]},
         Tells(diags', SaidOfAll(Passed) \cup SaidOf(NextChild))
  PROVE  ReadInOrder' /\ FilesDeclared' /\ AllTold'
  <1> DEFINE c == NextChild
  <1>1. /\ c \in Nodes /\ stage = "body" /\ incoming = {} /\ Parent(c) = {Top.node}
        /\ doc' = doc /\ root' = root /\ stage' = stage /\ incoming' = incoming
    BY NextIsChild
  <1>2. Closed \subseteq Closed' /\ (Stub(c) => c \in Closed')
    BY DEF Closed
  <1>3. \A m \in Passed : m < c
    BY NextIsNew
  <1>4. \A n \in Nodes : n < c /\ (\E b \in Parent(n) : Opened(b)) => n \in Passed
    BY NoneLeftOut
  <1>5. /\ \A m \in Passed : /\ Opened(m) => m \in Closed \cup OpenNodes
                             /\ Stub(m) => m \in Closed
        /\ \A m \in Passed : \A n \in Nodes :
             n < m /\ (\E b \in Parent(n) : Opened(b)) => n \in Passed
    BY DEF DInv, ReadInOrder
  <1>6. Passed' = Passed \cup {c} /\ OpenNodes \subseteq OpenNodes' /\ (Opened(c) => c \in OpenNodes')
    OBVIOUS
  <1>7. /\ \A n : Parent(n)' = Parent(n) /\ (Opened(n)' <=> Opened(n)) /\ (Stub(n)' <=> Stub(n))
        /\ \A S : SaidOfAll(S)' = SaidOfAll(S)
        /\ \A f : AsDeclared(f)' <=> AsDeclared(f)
        /\ IsDocument' <=> IsDocument
    BY DeclaredStable
  <1>8. AllTold'
    <2>1. IsDocument /\ stage' = "body"
      BY <1>1 DEF DInv, AllTold
    <2>2. SaidOfAll(Passed \cup {c}) = SaidOfAll(Passed) \cup SaidOf(c)
      BY DEF SaidOfAll
    <2>3. Tells(diags', SaidOfAll(Passed'))
      BY <1>6, <2>2
    <2>4. Tells(diags, SaidOfAll(Passed))'
      BY <1>7, <2>3 DEF Tells
    <2> QED
      BY <1>7, <2>1, <2>4 DEF AllTold
  <1>9. FilesDeclared'
    <2>1. \A f \in files : AsDeclared(f) /\ f.node \in Passed'
      BY <1>1, <1>6 DEF DInv, FilesDeclared
    <2>2. \A f \in files' : AsDeclared(f) /\ f.node \in Passed'
      <3> DEFINE e == [node |-> c, ctx |-> EmptyCtx]
      <3>1. CASE files' = files
        BY <2>1, <3>1
      <3>2. CASE Stub(c) /\ files' = files \cup {e}
        <4>1. e.node = c /\ e.ctx = EmptyCtx
          OBVIOUS
        <4> HIDE DEF e, c
        <4>2. AsDeclared(e) /\ e.node \in Passed'
          BY <1>6, <3>2, <4>1 DEF AsDeclared
        <4> QED
          BY <2>1, <3>2, <4>2
      <3> QED
        BY <3>1, <3>2
    <2> QED
      BY <1>7, <2>2 DEF FilesDeclared
  <1>10. ReadInOrder'
    <2> HIDE DEF c
    <2>1. \A m \in Passed' : /\ Opened(m) => m \in Closed' \cup OpenNodes'
                             /\ Stub(m) => m \in Closed'
      BY <1>2, <1>5, <1>6
    <2>2. \A m \in Passed' : \A n \in Nodes :
            n < m /\ (\E b \in Parent(n) : Opened(b)) => n \in Passed'
      BY <1>4, <1>5, <1>6
    <2> QED
      BY <1>1, <1>7, <2>1, <2>2 DEF ReadInOrder
  <1> QED
    BY <1>8, <1>9, <1>10

(* The frame moves past it, with the context it then has to have.           *)
LEMMA ChildRead ==
  ASSUME DInv, IInv', NEW slots, Stepping(slots),
         UNCHANGED <<doc, root, stage, incoming, result>>, ~Opened(NextChild),
         NEW f \in Frame, stack' = WithTop(f),
         f.node = Top.node, f.scope = Top.scope, f.idx = Past.idx,
         \A slot \in Slot : Listed(f.ctx[slot], Declared(ReadOf(Top) \cup {NextChild}, slot)),
         \/ ~Stub(NextChild) /\ files' = files
         \/ Stub(NextChild) /\ files' = files \cup {[node |-> NextChild, ctx |-> EmptyCtx]},
         Tells(diags', SaidOfAll(Passed) \cup SaidOf(NextChild))
  PROVE  DInv'
  <1> DEFINE c == NextChild
             k == Len(stack)
  <1>1. /\ c \in Nodes /\ stage = "body" /\ incoming = {} /\ stack # <<>> /\ StackOK
        /\ doc \in Documents /\ Top.node \in Nodes
    BY NextIsChild, StackFromInv DEF DInv
  <1>2. k \in 1 .. k /\ k \in Nat /\ Top = stack[k]
    BY <1>1, TopType
  <1>3. /\ Len(stack') = k
        /\ \A i \in 1 .. k : stack'[i] = IF i = k THEN f ELSE stack[i]
    BY <1>1, ReplaceLast DEF StackOK, WithTop
  <1>4. ReadOf(f) = ReadOf(Top) \cup {c}
    <2>1. Past.node = Top.node
      BY PastType DEF DInv
    <2> QED
      BY <2>1, ReadBeforeNext DEF ReadOf
  <1>5. \A i \in 1 .. k : stack'[i].node = stack[i].node /\ stack'[i].scope = stack[i].scope
    BY <1>2, <1>3
  <1>6. OpenNodes' = OpenNodes
    <2>1. OpenNodes' = {stack'[i].node : i \in 1 .. k}
      BY <1>3 DEF OpenNodes
    <2>2. \A m : m \in {stack'[i].node : i \in 1 .. k} <=> m \in {stack[i].node : i \in 1 .. k}
      BY <1>5
    <2> QED
      BY <2>1, <2>2 DEF OpenNodes
  <1>7. Closed \subseteq Closed' /\ Closed' \subseteq Closed \cup {c}
    BY DEF Closed
  <1>8. Passed' = Passed \cup {c}
    <2>1. SUFFICES ASSUME NEW m PROVE m \in Passed' <=> m \in Passed \/ m = c
      OBVIOUS
    <2>2. (\E i \in 1 .. k : m \in ReadOf(stack'[i])) <=>
            m = c \/ \E i \in 1 .. k : m \in ReadOf(stack[i])
      <3> HIDE DEF c, k
      <3> QED
        BY <1>2, <1>3, <1>4
    <2>3. (\E n \in Closed' : Opened(n) /\ m \in Children(n)) <=>
            (\E n \in Closed : Opened(n) /\ m \in Children(n))
      BY <1>7
    <2> QED
      BY <1>3, <2>2, <2>3, IsPassed, PassedNext
  <1>9. ReadInOrder' /\ FilesDeclared' /\ AllTold'
    BY <1>6, <1>8, ChildPassed
  <1>10. /\ \A n : (Opened(n)' <=> Opened(n)) /\ Above(n)' = Above(n)
         /\ \A n, p : Nearest(n, p)' = Nearest(n, p)
         /\ \A g : ReadOf(g)' = ReadOf(g)
         /\ \A S, slot : Declared(S, slot)' = Declared(S, slot)
    BY DeclaredStable
  <1>11. FramesDeclared'
    <2>1. SUFFICES ASSUME NEW i \in 1 .. k
          PROVE  /\ Opened(stack'[i].node) /\ Cardinality(Above(stack'[i].node)) = i
                 /\ \A p \in NsPrefixes : stack'[i].scope[p] = Nearest(stack'[i].node, p)
                 /\ \A j \in 1 .. i : stack'[j].node \in Above(stack'[i].node)
                 /\ stack'[i].node \notin Closed'
      BY <1>3, <1>10 DEF FramesDeclared
    <2>2. /\ Opened(stack[i].node) /\ Cardinality(Above(stack[i].node)) = i
          /\ \A p \in NsPrefixes : stack[i].scope[p] = Nearest(stack[i].node, p)
          /\ \A j \in 1 .. i : stack[j].node \in Above(stack[i].node)
          /\ stack[i].node \notin Closed
      BY DEF DInv, FramesDeclared
    <2>3. \A j \in 1 .. i : j \in 1 .. k
      BY <1>2
    <2>4. stack[i].node # c
      BY NextIsNew DEF OpenNodes
    <2> HIDE DEF c, k
    <2> QED
      BY <1>5, <1>7, <2>2, <2>3, <2>4
  <1>12. ContextsDeclared'
    <2>1. SUFFICES ASSUME NEW i \in 1 .. k, NEW slot \in Slot
          PROVE  Listed(stack'[i].ctx[slot], Declared(ReadOf(stack'[i]) \ Awaited(i)', slot))
      BY <1>3, <1>10 DEF ContextsDeclared
    <2>2. CASE i = k
      <3>1. Awaited(i)' = {}
        BY <1>1, <1>2, <1>3, <2>2 DEF Awaited
      <3>2. stack'[i] = f /\ ReadOf(f) \ {} = ReadOf(Top) \cup {c}
        BY <1>3, <1>4, <2>2
      <3> QED
        BY <3>1, <3>2
    <2>3. CASE i # k
      <3>1. i < k /\ i + 1 \in 1 .. k
        BY <1>2, <2>3
      <3>2. Awaited(i)' = Awaited(i)
        BY <1>3, <1>5, <3>1 DEF Awaited
      <3>3. stack'[i] = stack[i]
        BY <1>3, <2>3
      <3> QED
        BY <3>2, <3>3 DEF DInv, ContextsDeclared
    <2> QED
      BY <2>2, <2>3
  <1> QED
    BY <1>1, <1>9, <1>11, <1>12 DEF DInv
-----------------------------------------------------------------------------
(* One lemma per action that takes a child.                                 *)

LEMMA KeptNext ==
  ASSUME DInv, NEW slots, Stepping(slots), NEW slot \in Slot, slot # "description",
         ArmOf(NextChild) = slot,
         NEW f, f = Kept(Past, slot, NextChild)
  PROVE  /\ f \in Frame /\ f.node = Top.node /\ f.scope = Top.scope /\ f.idx = Past.idx
         /\ \A s \in Slot : Listed(f.ctx[s], Declared(ReadOf(Top) \cup {NextChild}, s))
  <1> DEFINE c   == NextChild
             ctx == [Top.ctx EXCEPT ![slot] = Append(@, c)]
  <1>1. /\ Past \in Frame /\ FrameOK(Past) /\ Past.idx > 0 /\ c = Taken(Past)
        /\ Past.node = Top.node /\ Past.scope = Top.scope /\ doc \in [Nodes -> Element]
    BY PastType DEF DInv, IInv, TypeOK
  <1>2. Past.ctx = Top.ctx /\ Top.ctx \in BeansFileCtx
    <2>1. Top \in Frame /\ Past = [Top EXCEPT !.idx = @ + 1]
      BY NextIsChild, TopType, StackFromInv DEF DInv, Past
    <2> QED
      BY <2>1 DEF Frame
  <1>3. f \in Frame /\ f.node = Top.node /\ f.idx = Past.idx
    BY <1>1, KeptType
  <1>4. f.scope = Top.scope /\ f.ctx = ctx
    <2>1. f = [Past EXCEPT !.ctx[slot] = Append(@, c)]
      BY DEF Kept
    <2> HIDE DEF c
    <2>2. f.scope = Past.scope
      BY <1>1, <2>1 DEF Frame
    <2>3. f.ctx = [Past.ctx EXCEPT ![slot] = Append(@, c)]
      BY <1>1, <2>1 DEF Frame
    <2> QED
      BY <1>1, <1>2, <2>2, <2>3
  <1>5. ASSUME NEW s \in Slot
        PROVE  Listed(f.ctx[s], Declared(ReadOf(Top) \cup {c}, s))
    <2>1. CASE s = slot
      <3>1. f.ctx[s] = Append(Top.ctx[slot], c)
        BY <1>2, <1>4, <2>1 DEF BeansFileCtx
      <3> QED
        BY <2>1, <3>1, ContextMore
    <2>2. CASE s # slot
      <3>1. f.ctx[s] = Top.ctx[s]
        BY <1>2, <1>4, <2>2 DEF BeansFileCtx
      <3> QED
        BY <2>2, <3>1, ContextMore
    <2> QED
      BY <2>1, <2>2
  <1> QED
    BY <1>3, <1>4, <1>5

(* What has been told so far, and the report it is.                         *)
LEMMA ToldSoFar ==
  ASSUME DInv, NEW slots, Stepping(slots)
  PROVE  diags \in Seq(Diag) /\ Tells(diags, SaidOfAll(Passed))
  BY NextIsChild DEF DInv, IInv, TypeOK, AllTold

LEMMA LeafChildDeclared ==
  ASSUME DInv, LeafChild
  PROVE  DInv'
  <1> DEFINE slots == {"imports", "aliases", "component_scans", "property_sources"}
             slot  == ArmOf(NextChild)
             f     == Kept(Past, slot, NextChild)
  <1>1. /\ Stepping(slots) /\ UNCHANGED <<doc, root, stage, incoming, diags, files, result>>
        /\ stack' = WithTop(Kept(Past, Arm(NextChild, Top.scope), NextChild))
    BY DEF LeafChild
  <1>2. Arm(NextChild, Top.scope) = slot /\ slot \in slots
    BY <1>1, NextIsChild
  <1>3. slot \in Slot /\ slot # "description" /\ slot # "nested_profiles"
    BY <1>2 DEF Slot
  <1>4. ~Opened(NextChild) /\ ~Stub(NextChild)
    BY <1>1, <1>3, NextIsBody
  <1>5. SaidOf(NextChild) = {}
    <2>1. SaidOf(NextChild) = Say(Stub(NextChild), "NestingLimitExceeded", NextChild)
      BY <1>1, <1>2, SaidOfNext
    <2> QED
      BY <1>4, <2>1 DEF Say
  <1>6. Tells(diags', SaidOfAll(Passed) \cup SaidOf(NextChild))
    BY <1>1, <1>5, ToldSoFar
  <1>7. IInv'
    BY LeafChildStep DEF DInv
  <1> HIDE DEF slots, slot
  <1>8. /\ f \in Frame /\ f.node = Top.node /\ f.scope = Top.scope /\ f.idx = Past.idx
        /\ \A s \in Slot : Listed(f.ctx[s], Declared(ReadOf(Top) \cup {NextChild}, s))
    BY <1>1, <1>3, KeptNext DEF slot
  <1>9. stack' = WithTop(f)
    BY <1>1, <1>2
  <1> HIDE DEF f
  <1> QED
    BY <1>1, <1>4, <1>6, <1>7, <1>8, <1>9, ChildRead

LEMMA DescriptionChildDeclared ==
  ASSUME DInv, DescriptionChild
  PROVE  DInv'
  <1> DEFINE c == NextChild
             f == [Past EXCEPT !.ctx["description"] = <<c>>]
  <1>1. /\ Stepping({"description"}) /\ stack' = WithTop(f)
        /\ UNCHANGED <<doc, root, stage, incoming, diags, files, result>>
    BY DEF DescriptionChild
  <1>2. ArmOf(c) = "description"
    BY <1>1, NextIsChild
  <1>3. ~Opened(c) /\ ~Stub(c)
    BY <1>1, <1>2, NextIsBody
  <1>4. SaidOf(c) = {}
    <2>1. SaidOf(c) = Say(Stub(c), "NestingLimitExceeded", c)
      BY <1>1, <1>2, SaidOfNext
    <2> QED
      BY <1>3, <2>1 DEF Say
  <1>5. Tells(diags', SaidOfAll(Passed) \cup SaidOf(c))
    BY <1>1, <1>4, ToldSoFar
  <1>6. IInv'
    BY DescriptionChildStep DEF DInv
  <1>7. Top \in Frame /\ c \in Nodes /\ Top.idx \in Nat
    BY <1>1, NextIsChild, TopType, StackFromInv DEF DInv, Frame
  <1>8. /\ Past = [Top EXCEPT !.idx = @ + 1] /\ Past.node = Top.node /\ Past.scope = Top.scope
        /\ Past.ctx = Top.ctx /\ Past \in Frame /\ Top.ctx \in BeansFileCtx
    BY <1>7 DEF Past, Frame
  <1> DEFINE ctx == [Top.ctx EXCEPT !["description"] = <<c>>]
  <1>9. ctx \in BeansFileCtx
    <2>1. <<c>> \in Seq(Nodes) /\ Top.ctx \in BeansFileCtx
      BY <1>7, <1>8
    <2> QED
      BY <2>1 DEF BeansFileCtx
  <1>10. /\ f \in Frame /\ f.node = Top.node /\ f.scope = Top.scope /\ f.idx = Past.idx
         /\ f.ctx = ctx
    <2>1. f = [Past EXCEPT !.ctx = ctx]
      BY <1>8
    <2> HIDE DEF ctx, f
    <2> QED
      BY <1>8, <1>9, <2>1 DEF Frame
  <1>11. \A s \in Slot : ctx[s] = IF s = "description" THEN <<c>> ELSE Top.ctx[s]
    BY <1>8 DEF BeansFileCtx
  <1> HIDE DEF c, ctx, f
  <1>12. \A s \in Slot : Listed(f.ctx[s], Declared(ReadOf(Top) \cup {c}, s))
    BY <1>1, <1>2, <1>10, <1>11, ContextMore DEF c
  <1> QED
    BY <1>1, <1>3, <1>5, <1>6, <1>10, <1>12, ChildRead DEF c

LEMMA BeanChildDeclared ==
  ASSUME DInv, BeanChild
  PROVE  DInv'
  <1> DEFINE c  == NextChild
             f  == Kept(Past, "beans", c)
             b1 == doc[c].flawed
             b2 == IsDuplicate(c)
             D  == SaidOfAll(Passed)
  <1>1. /\ Stepping({"beans"}) /\ stack' = WithTop(f)
        /\ diags' = diags \o DiagnoseIf(b1, "BeanDiagnostic", c) \o DiagnoseIf(b2, "DuplicateBeanId", c)
        /\ UNCHANGED <<doc, root, stage, incoming, files, result>>
    BY DEF BeanChild
  <1>2. ArmOf(c) = "beans" /\ c \in Nodes /\ "beans" \in Slot
    BY <1>1, NextIsChild DEF Slot
  <1>3. ~Opened(c) /\ ~Stub(c)
    BY <1>1, <1>2, NextIsBody
  <1>4. SaidOf(c) = Say(b1, "BeanDiagnostic", c) \cup Say(b2, "DuplicateBeanId", c)
    BY <1>1, <1>2, SaidOfNext
  <1>5. b1 \in BOOLEAN /\ b2 \in BOOLEAN
    BY <1>2, ElementType DEF DInv, IInv, TypeOK, IsDuplicate
  <1>6. diags \in Seq(Diag) /\ Tells(diags, D)
    BY <1>1, ToldSoFar
  <1>7. \A code : \A d \in D : Before(d, [code |-> code, at |-> {c}])
    BY <1>1, SaidBeforeNext
  <1>8. \A d \in Say(b1, "BeanDiagnostic", c) : Before(d, [code |-> "DuplicateBeanId", at |-> {c}])
    BY DEF Say, Before
  <1>9. IInv'
    BY BeanChildStep DEF DInv
  <1>10. /\ f \in Frame /\ f.node = Top.node /\ f.scope = Top.scope /\ f.idx = Past.idx
         /\ \A s \in Slot : Listed(f.ctx[s], Declared(ReadOf(Top) \cup {c}, s))
    BY <1>1, <1>2, KeptNext
  <1> HIDE DEF c, b1, b2, D, f
  <1>11. Tells(diags', D \cup SaidOf(c))
    <2> DEFINE s1 == diags \o DiagnoseIf(b1, "BeanDiagnostic", c)
               D1 == D \cup Say(b1, "BeanDiagnostic", c)
    <2>1. s1 \in Seq(Diag) /\ Tells(s1, D1)
      BY <1>2, <1>5, <1>6, <1>7, TellsMore DEF Code
    <2>2. \A d \in D1 : Before(d, [code |-> "DuplicateBeanId", at |-> {c}])
      BY <1>7, <1>8
    <2>3. diags' = s1 \o DiagnoseIf(b2, "DuplicateBeanId", c)
      BY <1>1
    <2>4. D \cup SaidOf(c) = D1 \cup Say(b2, "DuplicateBeanId", c)
      BY <1>4
    <2> HIDE DEF s1, D1
    <2>5. Tells(s1 \o DiagnoseIf(b2, "DuplicateBeanId", c), D1 \cup Say(b2, "DuplicateBeanId", c))
      BY <1>2, <1>5, <2>1, <2>2, TellsMore DEF Code
    <2> QED
      BY <2>3, <2>4, <2>5
  <1> QED
    BY <1>1, <1>3, <1>9, <1>10, <1>11, ChildRead DEF c, D

LEMMA NamespacedChildDeclared ==
  ASSUME DInv, NamespacedChild
  PROVE  DInv'
  <1> DEFINE c == NextChild
             f == Kept(Past, "namespaced", c)
             b == doc[c].flawed
             D == SaidOfAll(Passed)
  <1>1. /\ Stepping({"namespaced"}) /\ stack' = WithTop(f)
        /\ diags' = diags \o DiagnoseIf(b, "NamespacedDiagnostic", c)
        /\ UNCHANGED <<doc, root, stage, incoming, files, result>>
    BY DEF NamespacedChild
  <1>2. ArmOf(c) = "namespaced" /\ c \in Nodes /\ "namespaced" \in Slot
    BY <1>1, NextIsChild DEF Slot
  <1>3. ~Opened(c) /\ ~Stub(c)
    BY <1>1, <1>2, NextIsBody
  <1>4. SaidOf(c) = Say(b, "NamespacedDiagnostic", c)
    BY <1>1, <1>2, SaidOfNext
  <1>5. b \in BOOLEAN
    BY <1>2, ElementType DEF DInv, IInv, TypeOK
  <1>6. diags \in Seq(Diag) /\ Tells(diags, D)
    BY <1>1, ToldSoFar
  <1>7. \A d \in D : Before(d, [code |-> "NamespacedDiagnostic", at |-> {c}])
    BY <1>1, SaidBeforeNext
  <1>8. IInv'
    BY NamespacedChildStep DEF DInv
  <1>9. /\ f \in Frame /\ f.node = Top.node /\ f.scope = Top.scope /\ f.idx = Past.idx
        /\ \A s \in Slot : Listed(f.ctx[s], Declared(ReadOf(Top) \cup {c}, s))
    BY <1>1, <1>2, KeptNext
  <1> HIDE DEF c, b, D, f
  <1>10. Tells(diags', D \cup SaidOf(c))
    BY <1>1, <1>2, <1>4, <1>5, <1>6, <1>7, TellsMore DEF Code
  <1> QED
    BY <1>1, <1>3, <1>8, <1>9, <1>10, ChildRead DEF c, D

LEMMA UnknownChildDeclared ==
  ASSUME DInv, UnknownChild
  PROVE  DInv'
  <1> DEFINE c == NextChild
             D == SaidOfAll(Passed)
  <1>1. /\ Stepping({"unknown"}) /\ stack' = WithTop(Past)
        /\ diags' = diags \o DiagnoseIf(TRUE, "UnknownElement", c)
        /\ UNCHANGED <<doc, root, stage, incoming, files, result>>
    BY DEF UnknownChild, DiagnoseIf
  <1>2. ArmOf(c) = "unknown" /\ c \in Nodes /\ "unknown" \notin Slot
    BY <1>1, NextIsChild DEF Slot
  <1>3. ~Opened(c) /\ ~Stub(c)
    BY <1>1, <1>2, NextIsBody
  <1>4. SaidOf(c) = Say(TRUE, "UnknownElement", c)
    BY <1>1, <1>2, SaidOfNext
  <1>5. diags \in Seq(Diag) /\ Tells(diags, D)
    BY <1>1, ToldSoFar
  <1>6. \A d \in D : Before(d, [code |-> "UnknownElement", at |-> {c}])
    BY <1>1, SaidBeforeNext
  <1>7. IInv'
    BY UnknownChildStep DEF DInv
  <1>8. Past \in Frame /\ Past.node = Top.node /\ Past.scope = Top.scope
    BY <1>1, PastType DEF DInv
  <1>9. Past.ctx = Top.ctx
    <2>1. Top \in Frame /\ Past = [Top EXCEPT !.idx = @ + 1]
      BY <1>1, NextIsChild, TopType, StackFromInv DEF DInv, Past
    <2> QED
      BY <2>1 DEF Frame
  <1>10. \A s \in Slot : Listed(Past.ctx[s], Declared(ReadOf(Top) \cup {c}, s))
    <2>1. SUFFICES ASSUME NEW s \in Slot
                   PROVE  Listed(Past.ctx[s], Declared(ReadOf(Top) \cup {c}, s))
      OBVIOUS
    <2>2. ArmOf(c) # s
      BY <1>2
    <2> QED
      BY <1>1, <1>9, <2>2, ContextMore
  <1> HIDE DEF c, D
  <1>11. Tells(diags', D \cup SaidOf(c))
    BY <1>1, <1>2, <1>4, <1>5, <1>6, TellsMore DEF Code
  <1> QED
    BY <1>1, <1>3, <1>7, <1>8, <1>10, <1>11, ChildRead DEF c, D

LEMMA NestedAtLimitDeclared ==
  ASSUME DInv, NestedAtLimit
  PROVE  DInv'
  <1> DEFINE c == NextChild
             f == Kept(Past, "nested_profiles", c)
             D == SaidOfAll(Passed)
  <1>1. /\ Stepping({"nested_profiles"}) /\ Top.depth + 1 >= DepthLimit /\ stack' = WithTop(f)
        /\ diags' = diags \o DiagnoseIf(TRUE, "NestingLimitExceeded", c)
        /\ files' = files \cup {[node |-> c, ctx |-> EmptyCtx]}
        /\ UNCHANGED <<doc, root, stage, incoming, result>>
    BY DEF NestedAtLimit, DiagnoseIf
  <1>2. ArmOf(c) = "nested_profiles" /\ c \in Nodes /\ "nested_profiles" \in Slot
    BY <1>1, NextIsChild DEF Slot
  <1>3. ~Opened(c) /\ Stub(c)
    <2>1. Top.depth \in Nat
      BY <1>1, NextIsChild, TopType, StackFromInv DEF DInv, Frame
    <2>2. ~(Top.depth + 1 < DepthLimit)
      BY <1>1, <2>1, ConstantsOK
    <2> QED
      BY <1>1, <1>2, <2>2, NextIsBody
  <1>4. SaidOf(c) = Say(TRUE, "NestingLimitExceeded", c)
    <2>1. SaidOf(c) = Say(Stub(c), "NestingLimitExceeded", c)
      BY <1>1, <1>2, SaidOfNext
    <2> QED
      BY <1>3, <2>1 DEF Say
  <1>5. diags \in Seq(Diag) /\ Tells(diags, D)
    BY <1>1, ToldSoFar
  <1>6. \A d \in D : Before(d, [code |-> "NestingLimitExceeded", at |-> {c}])
    BY <1>1, SaidBeforeNext
  <1>7. IInv'
    BY NestedAtLimitStep DEF DInv
  <1>8. /\ f \in Frame /\ f.node = Top.node /\ f.scope = Top.scope /\ f.idx = Past.idx
        /\ \A s \in Slot : Listed(f.ctx[s], Declared(ReadOf(Top) \cup {c}, s))
    BY <1>1, <1>2, KeptNext
  <1> HIDE DEF c, D, f
  <1>9. Tells(diags', D \cup SaidOf(c))
    BY <1>1, <1>2, <1>4, <1>5, <1>6, TellsMore DEF Code
  <1> QED
    BY <1>1, <1>3, <1>7, <1>8, <1>9, ChildRead DEF c, D
-----------------------------------------------------------------------------
(* One lemma for each of the other actions.                                 *)

(* Where nothing has been read there is nothing to tell and nothing to keep.*)
LEMMA NothingYet ==
  ASSUME NEW n, NEW scope, NEW d
  PROVE  /\ Tells(<<>>, SaidOfAll({})) /\ ReadOf(FrameFor(n, scope, d)) = {}
         /\ \A slot \in Slot : \A S : Listed(EmptyCtx[slot], Declared({} \ S, slot))
  <1>1. Len(<<>>) = 0
    OBVIOUS
  <1>2. Tells(<<>>, SaidOfAll({}))
    BY <1>1 DEF Tells, SaidOfAll
  <1>3. ReadOf(FrameFor(n, scope, d)) = {}
    BY DEF ReadOf, FrameFor
  <1>4. ASSUME NEW slot \in Slot, NEW S
        PROVE  Listed(EmptyCtx[slot], Declared({} \ S, slot))
    <2>1. Declared({} \ S, slot) = {}
      BY DEF Declared, Kind
    <2>2. EmptyCtx[slot] = <<>>
      BY DEF EmptyCtx
    <2> QED
      BY <1>1, <2>1, <2>2 DEF Listed
  <1> QED
    BY <1>2, <1>3, <1>4

LEMMA InitDeclared ==
  ASSUME Init
  PROVE  DInv
  <1>1. IInv /\ doc \in Documents
    BY InitIInv DEF Init
  <1>2. stage = "root" /\ stack = <<>> /\ diags = <<>> /\ incoming = {} /\ files = {}
    BY DEF Init
  <1>3. Len(stack) = 0 /\ Closed = {}
    BY <1>2 DEF Closed
  <1>4. Passed = {}
    BY <1>3, IsPassed
  <1>5. FramesDeclared /\ ContextsDeclared /\ FilesDeclared
    BY <1>2, <1>3 DEF FramesDeclared, ContextsDeclared, FilesDeclared
  <1>6. ReadInOrder
    BY <1>2, <1>4 DEF ReadInOrder
  <1>7. AllTold
    BY <1>2, <1>4, NothingYet DEF AllTold
  <1> QED
    BY <1>1, <1>5, <1>6, <1>7 DEF DInv

LEMMA RejectRootDeclared ==
  ASSUME DInv, RejectRoot
  PROVE  DInv'
  <1>1. /\ stage = "root" /\ stage' = "done" /\ (\A n \in root : ~IsBeansRoot(n))
        /\ diags' = Append(diags, [code |-> "NotBeansRoot", at |-> root])
        /\ UNCHANGED <<doc, root, stack, incoming, files, result>>
    BY DEF RejectRoot
  <1>2. /\ IInv /\ doc \in Documents /\ stack = <<>> /\ incoming = {} /\ result = {}
        /\ files = {} /\ diags \in Seq(Diag) /\ root \in Option({RootElement})
        /\ Tells(diags, SaidOfAll(Passed))
    BY <1>1 DEF DInv, IInv, TypeOK, AllTold
  <1>3. IInv'
    BY <1>2, RejectRootStep
  <1>4. ~IsDocument
    <2>1. CASE root = {}
      BY <2>1 DEF IsDocument
    <2>2. CASE root = {RootElement}
      BY <1>1, <1>2, <2>2, RootIsBody DEF IsDocument
    <2> QED
      BY <1>2, <2>1, <2>2 DEF Option
  <1>5. Len(stack) = 0 /\ Closed = {} /\ Closed' = {} /\ Len(stack') = 0
    BY <1>1, <1>2 DEF Closed
  <1>6. Passed = {} /\ Passed' = {}
    BY <1>1, <1>5, IsPassed, PassedNext
  <1>7. diags = <<>>
    <2>1. {diags[i] : i \in 1 .. Len(diags)} = {}
      BY <1>2, <1>6 DEF Tells, SaidOfAll
    <2>2. 1 \notin 1 .. Len(diags) /\ Len(diags) \in Nat
      BY <1>2, <2>1
    <2> QED
      BY <1>2, <2>2, EmptySeq
  <1>8. FramesDeclared' /\ ContextsDeclared' /\ FilesDeclared' /\ ReadInOrder'
    BY <1>1, <1>2, <1>5, <1>6 DEF FramesDeclared, ContextsDeclared, FilesDeclared, ReadInOrder
  <1>9. AllTold'
    <2>1. diags' = <<[code |-> "NotBeansRoot", at |-> root]>>
      BY <1>1, <1>7
    <2> QED
      BY <1>1, <1>2, <1>4, <2>1, DeclaredStable DEF AllTold
  <1> QED
    BY <1>1, <1>2, <1>3, <1>8, <1>9 DEF DInv

LEMMA EnterRootDeclared ==
  ASSUME DInv, EnterRoot
  PROVE  DInv'
  <1>1. /\ stage = "root" /\ stage' = "body"
        /\ UNCHANGED <<doc, root, incoming, diags, files, result>>
    BY DEF EnterRoot
  <1>2. PICK n \in root : IsBeansRoot(n) /\ stack' = <<FrameFor(n, NoScope, 0)>>
    BY DEF EnterRoot
  <1>3. /\ IInv /\ doc \in Documents /\ stack = <<>> /\ incoming = {} /\ files = {}
        /\ root \in Option({RootElement}) /\ Tells(diags, SaidOfAll(Passed))
    BY <1>1 DEF DInv, IInv, TypeOK, AllTold
  <1>4. root = {RootElement} /\ n = RootElement /\ n \in Nodes
    BY <1>2, <1>3, ConstantsOK DEF Option
  <1>5. IInv'
    BY <1>3, EnterRootStep
  <1> DEFINE f == FrameFor(n, NoScope, 0)
  <1>6. /\ f.node = n /\ f.scope = Overlay(NoScope, n) /\ f.ctx = EmptyCtx /\ ReadOf(f) = {}
    BY NothingYet DEF FrameFor
  <1>7. Len(stack') = 1 /\ stack'[1] = f
    BY <1>2
  <1> HIDE DEF f
  <1>8. Opened(n) /\ Cardinality(Above(n)) = 1 /\ Above(n) = {n}
    <2>1. IsBody(n)
      BY <1>2, <1>3, <1>4, RootIsBody
    <2> QED
      BY <1>3, <1>4, <2>1, AboveRoot, DepthOfChild, ConstantsOK DEF Opened
  <1>9. Closed = {} /\ Closed' = {}
    BY <1>1, <1>3 DEF Closed
  <1>10. Passed = {} /\ Passed' = {}
    <2>1. Len(stack) = 0
      BY <1>3
    <2>2. \A i \in 1 .. Len(stack') : ReadOf(stack'[i]) = {}
      BY <1>6, <1>7
    <2> QED
      BY <1>1, <1>9, <2>1, <2>2, IsPassed, PassedNext
  <1>11. /\ \A m : (Opened(m)' <=> Opened(m)) /\ Above(m)' = Above(m)
         /\ \A m, p : Nearest(m, p)' = Nearest(m, p)
         /\ \A g : ReadOf(g)' = ReadOf(g)
         /\ \A S, slot : Declared(S, slot)' = Declared(S, slot)
         /\ \A S : SaidOfAll(S)' = SaidOfAll(S)
         /\ IsDocument' <=> IsDocument
    BY <1>1, DeclaredStable
  <1>12. FramesDeclared'
    <2>1. \A p \in NsPrefixes : f.scope[p] = Nearest(n, p)
      BY <1>3, <1>4, <1>6, NearestRoot
    <2>2. SUFFICES ASSUME NEW i \in 1 .. 1
          PROVE  /\ Opened(stack'[i].node) /\ Cardinality(Above(stack'[i].node)) = i
                 /\ \A p \in NsPrefixes : stack'[i].scope[p] = Nearest(stack'[i].node, p)
                 /\ \A j \in 1 .. i : stack'[j].node \in Above(stack'[i].node)
                 /\ stack'[i].node \notin Closed'
      BY <1>7, <1>11 DEF FramesDeclared
    <2>3. i = 1 /\ \A j \in 1 .. i : j = 1
      OBVIOUS
    <2> QED
      BY <1>6, <1>7, <1>8, <1>9, <2>1, <2>3
  <1>13. ContextsDeclared'
    <2>1. SUFFICES ASSUME NEW i \in 1 .. 1, NEW slot \in Slot
          PROVE  Listed(stack'[i].ctx[slot], Declared(ReadOf(stack'[i]) \ Awaited(i)', slot))
      BY <1>7, <1>11 DEF ContextsDeclared
    <2>2. stack'[i].ctx = EmptyCtx /\ ReadOf(stack'[i]) = {}
      BY <1>6, <1>7
    <2> QED
      BY <2>2, NothingYet
  <1>14. FilesDeclared' /\ ReadInOrder'
    BY <1>1, <1>3, <1>10 DEF FilesDeclared, ReadInOrder
  <1>15. AllTold'
    <2>1. IsDocument
      BY <1>4, <1>8 DEF IsDocument, Opened
    <2>2. Tells(diags, SaidOfAll(Passed))'
      BY <1>1, <1>3, <1>10, <1>11 DEF Tells
    <2> QED
      BY <1>1, <1>11, <2>1, <2>2 DEF AllTold
  <1> QED
    BY <1>1, <1>3, <1>5, <1>12, <1>13, <1>14, <1>15 DEF DInv

LEMMA NestedPushDeclared ==
  ASSUME DInv, NestedPush
  PROVE  DInv'
  <1> DEFINE c == NextChild
             k == Len(stack)
             g == FrameFor(c, Top.scope, Top.depth + 1)
             s == WithTop(Past)
  <1>1. /\ Stepping({"nested_profiles"}) /\ Top.depth + 1 < DepthLimit /\ stack' = Append(s, g)
        /\ UNCHANGED <<doc, root, stage, incoming, diags, files, result>>
    BY DEF NestedPush
  <1>2. /\ c \in Nodes /\ stage = "body" /\ incoming = {} /\ stack # <<>> /\ StackOK
        /\ doc \in Documents /\ Top.node \in Nodes /\ c \in Children(Top.node)
        /\ ArmOf(c) = "nested_profiles"
    BY <1>1, NextIsChild, StackFromInv DEF DInv
  <1>3. k \in 1 .. k /\ k \in Nat /\ Top = stack[k] /\ Top \in Frame
    BY <1>2, TopType
  <1>4. Past \in Frame /\ Past.node = Top.node /\ Past.scope = Top.scope
    BY <1>1, PastType DEF DInv
  <1>5. Past.ctx = Top.ctx
    BY <1>3 DEF Past, Frame
  <1>6. /\ s \in Seq(Frame) /\ Len(s) = k
        /\ \A i \in 1 .. k : s[i] = IF i = k THEN Past ELSE stack[i]
    BY <1>2, <1>4, ReplaceLast DEF StackOK, WithTop
  <1>7. g \in Frame
    <2>1. Top.scope \in NsScope /\ Top.depth + 1 \in Nat
      BY <1>3 DEF Frame
    <2> QED
      BY <1>2, <2>1, FrameForType DEF DInv, IInv, TypeOK
  <1>8. /\ g.node = c /\ g.scope = Overlay(Top.scope, c) /\ g.ctx = EmptyCtx /\ ReadOf(g) = {}
    BY NothingYet DEF FrameFor
  <1> HIDE DEF c, k, g, s
  <1>9. /\ Len(stack') = k + 1 /\ stack'[k + 1] = g
        /\ \A i \in 1 .. k : stack'[i] = IF i = k THEN Past ELSE stack[i]
    BY <1>1, <1>6, <1>7, AppendProperties
  <1>10. /\ \A i \in 1 .. k + 1 : i \in 1 .. k \/ i = k + 1
         /\ \A i \in 1 .. k : i # k + 1 /\ i \in 1 .. k + 1
         /\ k + 1 \in 1 .. k + 1
    BY <1>3
  <1>11. \A i \in 1 .. k : stack'[i].node = stack[i].node /\ stack'[i].scope = stack[i].scope
                             /\ stack'[i].ctx = stack[i].ctx
    BY <1>3, <1>4, <1>5, <1>9
  <1>12. Opened(c) /\ ~Stub(c)
    <2>1. Top.depth \in Nat /\ ~(Top.depth + 1 >= DepthLimit)
      BY <1>1, <1>3, ConstantsOK DEF Frame
    <2> QED
      BY <1>1, <1>2, <2>1, NextIsBody DEF c
  <1>13. OpenNodes \subseteq OpenNodes' /\ c \in OpenNodes'
    <2>1. OpenNodes' = {stack'[i].node : i \in 1 .. k + 1}
      BY <1>9 DEF OpenNodes
    <2>2. \A i \in 1 .. k : stack[i].node \in OpenNodes'
      BY <1>10, <1>11, <2>1
    <2>3. c \in OpenNodes'
      BY <1>8, <1>9, <1>10, <2>1
    <2> QED
      BY <2>2, <2>3 DEF OpenNodes, k
  <1>14. Closed' = Closed
    BY <1>1 DEF Closed
  <1>15. ReadOf(Past) = ReadOf(Top) \cup {c} /\ c \notin ReadOf(Top)
    <2>1. c \in Nat
      BY <1>2, Numbers
    <2>2. ReadOf(Top) = {m \in Children(Top.node) : m < c}
      BY <1>1, ReadBeforeNext DEF c
    <2> QED
      BY <1>1, <2>1, <2>2, ReadBeforeNext DEF c
  <1>16. Passed' = Passed \cup {c}
    <2>1. SUFFICES ASSUME NEW m PROVE m \in Passed' <=> m \in Passed \/ m = c
      OBVIOUS
    <2>2. (\E i \in 1 .. k + 1 : m \in ReadOf(stack'[i])) <=>
            \E i \in 1 .. k : m \in ReadOf(stack'[i])
      BY <1>8, <1>9, <1>10
    <2>3. (\E i \in 1 .. k : m \in ReadOf(stack'[i])) <=>
            m = c \/ \E i \in 1 .. k : m \in ReadOf(stack[i])
      BY <1>3, <1>9, <1>15
    <2> QED
      BY <1>1, <1>9, <1>14, <2>2, <2>3, IsPassed, PassedNext DEF k
  <1>17. ReadInOrder' /\ FilesDeclared' /\ AllTold'
    <2>1. SaidOf(c) = {}
      <3>1. SaidOf(c) = Say(Stub(c), "NestingLimitExceeded", c)
        BY <1>1, <1>2, SaidOfNext DEF c
      <3> QED
        BY <1>12, <3>1 DEF Say
    <2>2. Tells(diags', SaidOfAll(Passed) \cup SaidOf(c))
      BY <1>1, <2>1, ToldSoFar
    <2> QED
      BY <1>1, <1>12, <1>13, <1>16, <2>2, ChildPassed DEF c
  <1>18. /\ \A n : (Opened(n)' <=> Opened(n)) /\ Above(n)' = Above(n)
         /\ \A n, p : Nearest(n, p)' = Nearest(n, p)
         /\ \A h : ReadOf(h)' = ReadOf(h)
         /\ \A S, slot : Declared(S, slot)' = Declared(S, slot)
    BY <1>1, DeclaredStable
  <1>19. FramesDeclared'
    <2>1. SUFFICES ASSUME NEW i \in 1 .. k + 1
          PROVE  /\ Opened(stack'[i].node) /\ Cardinality(Above(stack'[i].node)) = i
                 /\ \A p \in NsPrefixes : stack'[i].scope[p] = Nearest(stack'[i].node, p)
                 /\ \A j \in 1 .. i : stack'[j].node \in Above(stack'[i].node)
                 /\ stack'[i].node \notin Closed'
      BY <1>9, <1>18 DEF FramesDeclared
    <2>2. \A x \in 1 .. k :
             /\ Opened(stack[x].node) /\ Cardinality(Above(stack[x].node)) = x
             /\ \A p \in NsPrefixes : stack[x].scope[p] = Nearest(stack[x].node, p)
             /\ \A j \in 1 .. x : stack[j].node \in Above(stack[x].node)
             /\ stack[x].node \notin Closed
      BY DEF DInv, FramesDeclared, k
    <2>3. CASE i \in 1 .. k
      <3>1. \A j \in 1 .. i : j \in 1 .. k
        BY <1>3, <2>3
      <3> QED
        BY <1>11, <1>14, <2>2, <2>3, <3>1
    <2>4. CASE i = k + 1
      <3>1. stack'[i] = g /\ g.node = c
        BY <1>8, <1>9, <2>4
      <3>2. /\ Above(c) = Above(Top.node) \cup {c} /\ Cardinality(Above(c)) = i
        BY <1>1, <2>4, NextIsBody DEF c, k
      <3>3. \A p \in NsPrefixes : g.scope[p] = Nearest(c, p)
        BY <1>2, <1>3, <1>8, <2>2, ArmOfChild
      <3>4. \A j \in 1 .. i : stack'[j].node \in Above(c)
        <4>1. SUFFICES ASSUME NEW j \in 1 .. i PROVE stack'[j].node \in Above(c)
          OBVIOUS
        <4>2. CASE j = k + 1
          BY <1>8, <1>9, <3>2, <4>2
        <4>3. CASE j \in 1 .. k
          BY <1>3, <1>11, <2>2, <3>2, <4>3
        <4> QED
          BY <1>10, <2>4, <4>2, <4>3
      <3>5. c \notin Closed'
        BY <1>1, <1>14, NextIsNew DEF c
      <3> QED
        BY <1>12, <3>1, <3>2, <3>3, <3>4, <3>5
    <2> QED
      BY <1>10, <2>3, <2>4
  <1>20. ContextsDeclared'
    <2>1. SUFFICES ASSUME NEW i \in 1 .. k + 1, NEW slot \in Slot
          PROVE  Listed(stack'[i].ctx[slot], Declared(ReadOf(stack'[i]) \ Awaited(i)', slot))
      BY <1>9, <1>18 DEF ContextsDeclared
    <2>2. CASE i = k + 1
      <3>1. stack'[i].ctx = EmptyCtx /\ ReadOf(stack'[i]) = {}
        BY <1>8, <1>9, <2>2
      <3> QED
        BY <3>1, NothingYet
    <2>3. CASE i = k
      <3>1. Awaited(i)' = {c}
        BY <1>3, <1>8, <1>9, <2>3 DEF Awaited
      <3>2. ReadOf(stack'[i]) \ {c} = ReadOf(Top) /\ stack'[i].ctx = Top.ctx
        BY <1>3, <1>5, <1>9, <1>15, <2>3
      <3> QED
        BY <1>1, <3>1, <3>2, TopContext
    <2>4. CASE i \in 1 .. k /\ i # k
      <3>1. i < k /\ i < k + 1 /\ i + 1 \in 1 .. k
        BY <1>3, <2>4
      <3>2. Awaited(i)' = Awaited(i)
        BY <1>9, <1>11, <3>1 DEF Awaited, k
      <3>3. stack'[i] = stack[i]
        BY <1>9, <2>4
      <3> QED
        BY <2>4, <3>2, <3>3 DEF DInv, ContextsDeclared, k
    <2> QED
      BY <1>10, <2>2, <2>3, <2>4
  <1>21. IInv'
    BY NestedPushStep DEF DInv
  <1> QED
    BY <1>1, <1>2, <1>17, <1>19, <1>20, <1>21 DEF DInv

(* The body delivered is the last child that has been read, so it goes      *)
(* behind all the others.                                                   *)
LEMMA NestedDeliveredDeclared ==
  ASSUME DInv, NestedDelivered
  PROVE  DInv'
  <1> DEFINE k == Len(stack)
  <1>1. /\ stage = "body" /\ incoming' = {}
        /\ UNCHANGED <<doc, root, stage, diags, files, result>>
    BY DEF NestedDelivered
  <1>2. PICK c \in incoming : stack' = WithTop(Kept(Top, "nested_profiles", c))
    BY DEF NestedDelivered
  <1> DEFINE f == Kept(Top, "nested_profiles", c)
  <1>3. /\ StackOK /\ stack # <<>> /\ doc \in Documents /\ doc \in [Nodes -> Element]
        /\ incoming \in Option(Nodes) /\ Top.idx > 0 /\ c = Taken(Top)
    BY <1>1, <1>2, StackFromInv DEF DInv, IInv, TypeOK, DeliversToParent
  <1>4. incoming = {c} /\ c \in Nodes
    BY <1>2, <1>3 DEF Option
  <1>5. k \in 1 .. k /\ k \in Nat /\ Top = stack[k] /\ Top \in Frame /\ FrameOK(Top)
    BY <1>3, TopType
  <1>6. /\ Top.node \in Nodes /\ Top.idx \in Nat /\ Top.ctx \in BeansFileCtx
        /\ ReadOf(Top) \subseteq Children(Top.node)
    BY <1>3, <1>5, ReadAreChildren DEF Frame
  <1>7. c \in ReadOf(Top) /\ \A m \in ReadOf(Top) \ {c} : m < c
    <2> DEFINE kids == Kids(Top.node)
               n == Top.idx
    <2>1. /\ c = kids[n] /\ ReadOf(Top) = {kids[j] : j \in 1 .. n} /\ n \in Nat /\ n > 0
      BY <1>3, <1>6 DEF Taken, ReadOf
    <2>2. /\ \A i, j \in 1 .. Len(kids) : i < j => kids[i] < kids[j]
          /\ Len(kids) \in Nat /\ n <= Len(kids)
      BY <1>3, <1>5, <1>6, KidsInOrder DEF FrameOK
    <2> HIDE DEF kids, n
    <2>3. n \in 1 .. n /\ n \in 1 .. Len(kids)
          /\ \A j \in 1 .. n : j \in 1 .. Len(kids) /\ (j = n \/ j < n)
      BY <2>1, <2>2
    <2> QED
      BY <2>1, <2>2, <2>3
  <1>8. ArmOf(c) = "nested_profiles"
    <2>1. Opened(c)
      BY <1>2 DEF DInv, ReadInOrder
    <2>2. c \in Above(c)
      BY <1>4, Numbers DEF Above
    <2> QED
      BY <2>1, <2>2 DEF Opened, IsBody
  <1>9. "nested_profiles" \in Slot /\ "nested_profiles" # "description"
    BY DEF Slot
  <1>10. f \in Frame /\ f.node = Top.node /\ f.idx = Top.idx
    BY <1>3, <1>5, <1>9, KeptType
  <1>11. /\ f.scope = Top.scope
         /\ f.ctx = [Top.ctx EXCEPT !["nested_profiles"] = Append(@, c)]
    <2>1. f = [Top EXCEPT !.ctx["nested_profiles"] = Append(@, c)]
      BY DEF Kept
    <2> QED
      BY <1>5, <2>1 DEF Frame
  <1>12. ReadOf(f) = ReadOf(Top)
    BY <1>10 DEF ReadOf
  <1> HIDE DEF f, k
  <1>13. /\ Len(stack') = k
         /\ \A i \in 1 .. k : stack'[i] = IF i = k THEN f ELSE stack[i]
    BY <1>2, <1>3, <1>10, ReplaceLast DEF StackOK, WithTop, f, k
  <1>14. \A i \in 1 .. k : /\ stack'[i].node = stack[i].node /\ stack'[i].scope = stack[i].scope
                           /\ ReadOf(stack'[i]) = ReadOf(stack[i])
    BY <1>5, <1>10, <1>11, <1>12, <1>13
  <1>15. Closed' = Closed
    BY <1>1 DEF Closed
  <1>16. OpenNodes' = OpenNodes
    <2>1. OpenNodes' = {stack'[i].node : i \in 1 .. k}
      BY <1>13 DEF OpenNodes
    <2>2. \A m : m \in {stack'[i].node : i \in 1 .. k} <=> m \in {stack[i].node : i \in 1 .. k}
      BY <1>14
    <2> QED
      BY <2>1, <2>2 DEF OpenNodes, k
  <1>17. Passed' = Passed
    <2>1. SUFFICES ASSUME NEW m PROVE m \in Passed' <=> m \in Passed
      BY DEF Passed
    <2>2. (\E i \in 1 .. k : m \in ReadOf(stack'[i])) <=> \E i \in 1 .. k : m \in ReadOf(stack[i])
      BY <1>14
    <2> QED
      BY <1>1, <1>13, <1>15, <2>2, IsPassed, PassedNext DEF k
  <1>18. /\ \A n : (Opened(n)' <=> Opened(n)) /\ Above(n)' = Above(n) /\ Parent(n)' = Parent(n)
                   /\ (Stub(n)' <=> Stub(n))
         /\ \A n, p : Nearest(n, p)' = Nearest(n, p)
         /\ \A g : ReadOf(g)' = ReadOf(g) /\ (AsDeclared(g)' <=> AsDeclared(g))
         /\ \A S, slot : Declared(S, slot)' = Declared(S, slot)
         /\ \A S : SaidOfAll(S)' = SaidOfAll(S)
         /\ IsDocument' <=> IsDocument
    BY <1>1, DeclaredStable
  <1>19. FramesDeclared'
    <2>1. SUFFICES ASSUME NEW i \in 1 .. k
          PROVE  /\ Opened(stack'[i].node) /\ Cardinality(Above(stack'[i].node)) = i
                 /\ \A p \in NsPrefixes : stack'[i].scope[p] = Nearest(stack'[i].node, p)
                 /\ \A j \in 1 .. i : stack'[j].node \in Above(stack'[i].node)
                 /\ stack'[i].node \notin Closed'
      BY <1>13, <1>18 DEF FramesDeclared
    <2>2. /\ Opened(stack[i].node) /\ Cardinality(Above(stack[i].node)) = i
          /\ \A p \in NsPrefixes : stack[i].scope[p] = Nearest(stack[i].node, p)
          /\ \A j \in 1 .. i : stack[j].node \in Above(stack[i].node)
          /\ stack[i].node \notin Closed
      BY DEF DInv, FramesDeclared, k
    <2>3. \A j \in 1 .. i : j \in 1 .. k
      BY <1>5
    <2> QED
      BY <1>14, <1>15, <2>2, <2>3
  <1>20. ContextsDeclared'
    <2>1. SUFFICES ASSUME NEW i \in 1 .. k, NEW slot \in Slot
          PROVE  Listed(stack'[i].ctx[slot], Declared(ReadOf(stack'[i]) \ Awaited(i)', slot))
      BY <1>13, <1>18 DEF ContextsDeclared
    <2>2. Listed(stack[i].ctx[slot], Declared(ReadOf(stack[i]) \ Awaited(i), slot))
      BY DEF DInv, ContextsDeclared, k
    <2>3. CASE i = k
      <3> DEFINE R == ReadOf(Top) \ {c}
      <3>1. Awaited(i) = {c} /\ Awaited(i)' = {}
        BY <1>1, <1>4, <1>5, <1>13, <2>3 DEF Awaited, k
      <3>2. Listed(Top.ctx[slot], Declared(R, slot))
        BY <1>5, <2>2, <2>3, <3>1
      <3>3. R \in SUBSET Nodes
        BY <1>3, <1>6, KidsInOrder
      <3>4. ReadOf(stack'[i]) \ {} = R \cup {c} /\ stack'[i] = f
        BY <1>5, <1>7, <1>12, <1>13, <2>3
      <3>5. Declared(R \cup {c}, slot) = IF slot = "nested_profiles" THEN Declared(R, slot) \cup {c}
                                         ELSE Declared(R, slot)
        BY <1>4, <1>7, <1>8, <1>9, <3>3, DeclaredMore
      <3>6. \A m \in Declared(R, slot) : m < c
        BY <1>7 DEF Declared, Kind
      <3> HIDE DEF R
      <3>7. CASE slot = "nested_profiles"
        <4>1. f.ctx[slot] = Append(Top.ctx[slot], c) /\ Top.ctx[slot] \in Seq(Nodes)
          BY <1>6, <1>9, <1>11, <3>7 DEF BeansFileCtx
        <4>2. Listed(Append(Top.ctx[slot], c), Declared(R, slot) \cup {c})
          BY <1>4, <3>2, <3>6, <4>1, ListedMore
        <4> QED
          BY <3>1, <3>4, <3>5, <3>7, <4>1, <4>2
      <3>8. CASE slot # "nested_profiles"
        <4>1. f.ctx[slot] = Top.ctx[slot]
          BY <1>6, <1>9, <1>11, <3>8 DEF BeansFileCtx
        <4> QED
          BY <3>1, <3>2, <3>4, <3>5, <3>8, <4>1
      <3> QED
        BY <3>7, <3>8
    <2>4. CASE i # k
      <3>1. i < k /\ i + 1 \in 1 .. k
        BY <1>5, <2>4
      <3>2. Awaited(i)' = Awaited(i)
        BY <1>13, <1>14, <3>1 DEF Awaited, k
      <3>3. stack'[i] = stack[i]
        BY <1>13, <2>4
      <3> QED
        BY <2>2, <3>2, <3>3
    <2> QED
      BY <2>3, <2>4
  <1>21. ReadInOrder'
    BY <1>1, <1>15, <1>16, <1>17, <1>18 DEF DInv, ReadInOrder
  <1>22. FilesDeclared'
    BY <1>1, <1>17, <1>18 DEF DInv, FilesDeclared
  <1>23. AllTold'
    BY <1>1, <1>15, <1>17, <1>18 DEF DInv, AllTold, Tells
  <1>24. IInv'
    BY NestedDeliveredStep DEF DInv
  <1> QED
    BY <1>1, <1>3, <1>19, <1>20, <1>21, <1>22, <1>23, <1>24 DEF DInv

(* A body is finished when all its children have been passed.               *)
LEMMA BodyFinishedDeclared ==
  ASSUME DInv, BodyFinished
  PROVE  DInv'
  <1> DEFINE k == Len(stack)
             b == Top.node
             e == [node |-> b, ctx |-> Top.ctx]
  <1>1. /\ stage = "body" /\ incoming = {} /\ ~HasNext
        /\ files' = files \cup {e}
        /\ stack' = SubSeq(stack, 1, k - 1)
        /\ IF k = 1
           THEN result' = {b} /\ stage' = "done" /\ UNCHANGED incoming
           ELSE incoming' = {b} /\ UNCHANGED <<stage, result>>
        /\ UNCHANGED <<doc, root, diags>>
    BY DEF BodyFinished
  <1>2. /\ StackOK /\ stack # <<>> /\ doc \in Documents /\ result = {}
        /\ root = {stack[1].node} /\ root \in Option({RootElement})
    BY <1>1, StackFromInv DEF DInv, IInv, TypeOK, DeliversToParent
  <1>3. k \in 1 .. k /\ k \in Nat /\ k >= 1 /\ Top = stack[k] /\ Top \in Frame /\ FrameOK(Top)
    BY <1>2, TopType
  <1>4. b \in Nodes /\ Top.idx \in Nat /\ ReadOf(Top) = Children(b)
    <2>1. Top.node \in Nodes /\ Top.idx \in Nat /\ Len(Kids(Top.node)) \in Nat
      BY <1>2, <1>3, ReadAreChildren, KidsInOrder
    <2>2. Top.idx = Len(Kids(Top.node))
      BY <1>1, <1>3, <2>1 DEF HasNext, FrameOK
    <2> QED
      BY <1>2, <1>3, <2>1, <2>2, ReadAreChildren
  <1>5. /\ Opened(b) /\ b \notin Closed /\ Cardinality(Above(b)) = k
    BY <1>3 DEF DInv, FramesDeclared
  <1>6. e.node = b /\ e.ctx = Top.ctx
    OBVIOUS
  <1>7. AsDeclared(e)
    <2>1. Awaited(k) = {}
      BY <1>1, <1>3 DEF Awaited
    <2>2. \A slot \in Slot : Listed(Top.ctx[slot], Declared(ReadOf(Top) \ {}, slot))
      BY <1>3, <2>1 DEF DInv, ContextsDeclared
    <2>3. ReadOf(Top) \ {} = Children(b)
      BY <1>4
    <2> HIDE DEF e, b
    <2> QED
      BY <1>5, <1>6, <2>2, <2>3 DEF AsDeclared
  <1> HIDE DEF e, b, k
  <1>8. /\ Len(stack') = k - 1
        /\ \A i \in 1 .. k - 1 : stack'[i] = stack[i]
    BY <1>1, <1>2, RemoveLast DEF StackOK, k
  <1>9. /\ \A i \in 1 .. k : i \in 1 .. k - 1 \/ i = k
        /\ \A i \in 1 .. k - 1 : i \in 1 .. k /\ i # k
    BY <1>3
  <1>10. Closed' = Closed \cup {b}
    BY <1>1, <1>6 DEF Closed
  <1>11. OpenNodes = OpenNodes' \cup {b}
    <2>1. OpenNodes' = {stack'[i].node : i \in 1 .. k - 1}
      BY <1>8 DEF OpenNodes
    <2>2. OpenNodes = {stack[i].node : i \in 1 .. k}
      BY DEF OpenNodes, k
    <2>3. stack[k].node = b
      BY <1>3 DEF b
    <2>4. \A m : m \in {stack[i].node : i \in 1 .. k} <=>
                   m = b \/ m \in {stack'[i].node : i \in 1 .. k - 1}
      BY <1>3, <1>8, <1>9, <2>3
    <2> QED
      BY <2>1, <2>2, <2>4
  <1>12. Passed' = Passed
    <2>1. SUFFICES ASSUME NEW m PROVE m \in Passed' <=> m \in Passed
      BY DEF Passed
    <2>2. (\E i \in 1 .. k : m \in ReadOf(stack[i])) <=>
            m \in Children(b) \/ \E i \in 1 .. k - 1 : m \in ReadOf(stack'[i])
      BY <1>3, <1>4, <1>8, <1>9
    <2>3. (\E n \in Closed' : Opened(n) /\ m \in Children(n)) <=>
            m \in Children(b) \/ \E n \in Closed : Opened(n) /\ m \in Children(n)
      BY <1>5, <1>10
    <2> QED
      BY <1>1, <1>8, <2>2, <2>3, IsPassed, PassedNext DEF k
  <1>13. /\ \A n : (Opened(n)' <=> Opened(n)) /\ Above(n)' = Above(n) /\ Parent(n)' = Parent(n)
                   /\ (Stub(n)' <=> Stub(n))
         /\ \A n, p : Nearest(n, p)' = Nearest(n, p)
         /\ \A g : ReadOf(g)' = ReadOf(g) /\ (AsDeclared(g)' <=> AsDeclared(g))
         /\ \A S, slot : Declared(S, slot)' = Declared(S, slot)
         /\ \A S : SaidOfAll(S)' = SaidOfAll(S)
         /\ IsDocument' <=> IsDocument
    BY <1>1, DeclaredStable
  <1>14. FramesDeclared'
    <2>1. SUFFICES ASSUME NEW i \in 1 .. k - 1
          PROVE  /\ Opened(stack'[i].node) /\ Cardinality(Above(stack'[i].node)) = i
                 /\ \A p \in NsPrefixes : stack'[i].scope[p] = Nearest(stack'[i].node, p)
                 /\ \A j \in 1 .. i : stack'[j].node \in Above(stack'[i].node)
                 /\ stack'[i].node \notin Closed'
      BY <1>8, <1>13 DEF FramesDeclared
    <2>2. /\ Opened(stack[i].node) /\ Cardinality(Above(stack[i].node)) = i
          /\ \A p \in NsPrefixes : stack[i].scope[p] = Nearest(stack[i].node, p)
          /\ \A j \in 1 .. i : stack[j].node \in Above(stack[i].node)
          /\ stack[i].node \notin Closed
      BY <1>9 DEF DInv, FramesDeclared, k
    <2>3. \A j \in 1 .. i : j \in 1 .. k - 1
      BY <1>3
    <2>4. stack[i].node # b
      BY <1>5, <1>9, <2>2
    <2> QED
      BY <1>8, <1>10, <2>2, <2>3, <2>4
  <1>15. ContextsDeclared'
    <2>1. SUFFICES ASSUME NEW i \in 1 .. k - 1, NEW slot \in Slot
          PROVE  Listed(stack'[i].ctx[slot], Declared(ReadOf(stack'[i]) \ Awaited(i)', slot))
      BY <1>8, <1>13 DEF ContextsDeclared
    <2>2. Awaited(i)' = Awaited(i)
      <3>1. CASE i = k - 1
        <4>1. i < k /\ ~(i < k - 1) /\ i + 1 = k /\ k # 1
          BY <1>3, <3>1
        <4>2. Awaited(i) = {stack[k].node}
          BY <4>1 DEF Awaited, k
        <4>3. Awaited(i)' = incoming'
          BY <1>8, <4>1 DEF Awaited
        <4> QED
          BY <1>1, <1>3, <4>1, <4>2, <4>3 DEF b
      <3>2. CASE i # k - 1
        <4>1. i < k /\ i < k - 1 /\ i + 1 \in 1 .. k - 1
          BY <1>3, <3>2
        <4> QED
          BY <1>8, <4>1 DEF Awaited, k
      <3> QED
        BY <3>1, <3>2
    <2>3. Listed(stack[i].ctx[slot], Declared(ReadOf(stack[i]) \ Awaited(i), slot))
      BY <1>9 DEF DInv, ContextsDeclared, k
    <2> QED
      BY <1>8, <2>2, <2>3
  <1>16. ReadInOrder'
    <2>1. \A n \in incoming' : n = b
      BY <1>1
    <2>2. Closed' \cup OpenNodes' = Closed \cup OpenNodes /\ Closed \subseteq Closed' /\ b \in Closed'
      BY <1>10, <1>11
    <2>3. /\ \A m \in Passed' : /\ Opened(m) => m \in Closed' \cup OpenNodes'
                                /\ Stub(m) => m \in Closed'
          /\ \A m \in Passed' : \A n \in Nodes :
               n < m /\ (\E a \in Parent(n) : Opened(a)) => n \in Passed'
      BY <1>12, <2>2 DEF DInv, ReadInOrder
    <2> QED
      BY <1>5, <1>13, <2>1, <2>2, <2>3 DEF ReadInOrder
  <1>17. FilesDeclared'
    <2>1. \A f \in files : AsDeclared(f) /\ f.node \in Passed
      BY <1>1 DEF DInv, FilesDeclared
    <2>2. b \in Passed \/ stage' = "done"
      <3>1. CASE k = 1
        BY <1>1, <3>1
      <3>2. CASE k # 1
        <4>1. k - 1 \in 1 .. k - 1 /\ (k - 1) + 1 = k /\ k - 1 \in 1 .. k
          BY <1>3, <3>2
        <4>2. b = Taken(stack[k - 1]) /\ stack[k - 1].idx > 0
          BY <1>2, <1>3, <4>1 DEF StackOK, b, k
        <4>3. stack[k - 1].idx \in Nat
          BY <4>1, Frames DEF k
        <4>4. b \in ReadOf(stack[k - 1])
          BY <4>2, <4>3 DEF ReadOf, Taken
        <4> QED
          BY <4>1, <4>4, IsPassed DEF k
      <3> QED
        BY <3>1, <3>2
    <2> QED
      BY <1>1, <1>6, <1>7, <1>12, <1>13, <2>1, <2>2 DEF FilesDeclared
  <1>18. AllTold'
    <2>1. IsDocument /\ Tells(diags, SaidOfAll(Passed))
      BY <1>1 DEF DInv, AllTold
    <2>2. Tells(diags, SaidOfAll(Passed))'
      BY <1>1, <1>12, <1>13, <2>1 DEF Tells
    <2>3. CASE k = 1
      <3>1. stage' = "done" /\ result' = {b} /\ root' = {b} /\ b \in Closed'
        BY <1>1, <1>2, <1>3, <1>10, <2>3 DEF b
      <3> QED
        BY <1>13, <2>1, <2>2, <3>1 DEF AllTold
    <2>4. CASE k # 1
      <3>1. stage' = "body" /\ result' = {}
        BY <1>1, <1>2, <2>4
      <3> QED
        BY <1>13, <2>1, <2>2, <3>1 DEF AllTold
    <2> QED
      BY <2>3, <2>4
  <1>19. IInv'
    BY BodyFinishedStep DEF DInv
  <1> QED
    BY <1>1, <1>2, <1>14, <1>15, <1>16, <1>17, <1>18, <1>19 DEF DInv
-----------------------------------------------------------------------------
(* What the invariant says of the report and of the bodies.                 *)

LEMMA ReadToTheEnd ==
  ASSUME DInv, stage = "done", result # {}
  PROVE  /\ \A n \in Nodes : Opened(n) \/ Stub(n) => n \in Closed
         /\ \A n \in Nodes : (\E b \in Parent(n) : Opened(b)) => n \in Passed
  <1> DEFINE Left == {n \in Nodes : (Opened(n) \/ Stub(n)) /\ n \notin Closed}
  <1>1. /\ root = result /\ root \subseteq Closed /\ root \subseteq {RootElement}
        /\ doc \in Documents /\ stack = <<>>
    BY DEF DInv, IInv, TypeOK, AllTold, Option
  <1>2. RootElement \in Closed
    BY <1>1
  <1>3. OpenNodes = {}
    <2>1. Len(stack) = 0
      BY <1>1
    <2> QED
      BY <2>1 DEF OpenNodes
  <1>4. Left = {}
    <2>1. SUFFICES ASSUME Left # {} PROVE FALSE
      OBVIOUS
    <2>2. PICK n \in Left : \A m \in Left : n <= m
      <3>1. Left \subseteq Nat
        BY Numbers
      <3> HIDE DEF Left
      <3> QED
        BY <2>1, <3>1, Least
    <2>3. n \in Nodes /\ (Opened(n) \/ Stub(n)) /\ n \notin Closed /\ n # RootElement
      BY <1>2, <2>2
    <2>4. PICK b \in Nodes : n \in Children(b) /\ Opened(b) /\ b < n
      BY <1>1, <2>3, ReadInRead
    <2>5. b \in Closed
      <3>1. ~(n <= b)
        BY <2>3, <2>4, Numbers
      <3> QED
        BY <2>2, <2>4, <3>1
    <2>6. n \in Passed
      BY <2>4, <2>5, IsPassed
    <2> QED
      BY <1>3, <2>3, <2>6 DEF DInv, ReadInOrder
  <1>5. \A n \in Nodes : Opened(n) \/ Stub(n) => n \in Closed
    BY <1>4
  <1>6. \A n \in Nodes : (\E b \in Parent(n) : Opened(b)) => n \in Passed
    BY <1>5, IsPassed DEF Parent
  <1> QED
    BY <1>5, <1>6

(* Nothing comes before itself, or before what comes before it.             *)
LEMMA BeforeIsStrict ==
  ASSUME NEW m \in Nat, NEW n \in Nat, NEW d, NEW e, d.at = {m}, e.at = {n}, Before(d, e)
  PROVE  m <= n /\ ~Before(e, d)
  <1>1. m < n \/ (m = n /\ d.code = "BeanDiagnostic" /\ e.code = "DuplicateBeanId")
    BY DEF Before
  <1>2. ASSUME Before(e, d)
        PROVE  n < m \/ (m = n /\ e.code = "BeanDiagnostic")
    BY <1>2 DEF Before
  <1> QED
    BY <1>1, <1>2

LEMMA Reported ==
  ASSUME DInv
  PROVE  SaidInOrder
  <1>1. CASE stage = "done" /\ result = {}
    <2> DEFINE d == [code |-> "NotBeansRoot", at |-> root]
    <2>1. diags = <<d>> /\ Said = {d}
      BY <1>1 DEF DInv, AllTold, Said
    <2> HIDE DEF d
    <2>2. Len(diags) = 1 /\ diags[1] = d
      BY <2>1
    <2>3. \A i \in 1 .. 1 : i = 1
      OBVIOUS
    <2> QED
      BY <2>1, <2>2, <2>3 DEF SaidInOrder
  <1>2. CASE stage = "root"
    <2>1. stack = <<>> /\ files = {} /\ Tells(diags, SaidOfAll(Passed)) /\ diags \in Seq(Diag)
      BY <1>2 DEF DInv, IInv, TypeOK, AllTold
    <2>2. Len(stack) = 0 /\ Closed = {}
      BY <2>1 DEF Closed
    <2>3. Passed = {}
      BY <2>2, IsPassed
    <2>4. {diags[i] : i \in 1 .. Len(diags)} = {}
      BY <2>1, <2>3 DEF Tells, SaidOfAll
    <2>5. \A i \in 1 .. Len(diags) : FALSE
      BY <2>4
    <2> QED
      BY <1>2, <2>5 DEF SaidInOrder
  <1>3. CASE stage = "body" \/ (stage = "done" /\ result # {})
    <2> DEFINE k == Len(diags)
    <2>1. /\ IsDocument /\ Tells(diags, SaidOfAll(Passed)) /\ diags \in Seq(Diag)
      BY <1>3 DEF DInv, IInv, TypeOK, AllTold
    <2>2. /\ {diags[i] : i \in 1 .. k} = SaidOfAll(Passed)
          /\ \A i, j \in 1 .. k : i < j => Before(diags[i], diags[j])
      BY <2>1 DEF Tells
    <2>3. Said = SaidOfAll(Nodes) /\ k \in Nat
      BY <2>1 DEF Said, SaidOfAll
    <2>4. \A S : \A d : d \in SaidOfAll(S) <=> \E n \in S : d \in SaidOf(n)
      BY DEF SaidOfAll
    <2>5. ASSUME NEW n \in Nodes, NEW d \in SaidOf(n)
          PROVE  \E b \in Parent(n) : Opened(b)
      BY <2>5 DEF SaidOf
    <2>6. \A d \in SaidOfAll(Passed) : \E i \in 1 .. k : diags[i] = d
      BY <2>2
    <2> HIDE DEF k
    <2>7. \A i \in 1 .. k : diags[i] \in Said
      BY <2>2, <2>3, <2>4, PassedType
    <2>8. ASSUME NEW d \in Said, NEW i \in 1 .. k, Before(d, diags[i])
          PROVE  \E j \in 1 .. i : diags[j] = d
      <3>1. PICK n \in Nodes : d \in SaidOf(n)
        BY <2>3, <2>4
      <3>2. PICK m \in Passed : diags[i] \in SaidOf(m)
        BY <2>2, <2>4
      <3>3. m \in Nat /\ n \in Nat /\ d.at = {n} /\ diags[i].at = {m}
        BY <3>1, <3>2, SaidAt, PassedType, Numbers
      <3>4. n <= m /\ ~Before(diags[i], d)
        BY <2>8, <3>3, BeforeIsStrict
      <3>5. n \in Passed
        <4>1. CASE n = m
          BY <4>1
        <4>2. CASE n < m
          BY <2>5, <3>1, <4>2 DEF DInv, ReadInOrder
        <4> QED
          BY <3>3, <3>4, <4>1, <4>2
      <3>6. PICK j \in 1 .. k : diags[j] = d
        BY <2>4, <2>6, <3>1, <3>5
      <3>7. ~(i < j)
        BY <2>2, <3>4, <3>6
      <3>8. j \in 1 .. i
        BY <2>3, <3>7
      <3> QED
        BY <3>6, <3>8
    <2>9. ASSUME stage = "done", NEW d \in Said
          PROVE  \E i \in 1 .. k : diags[i] = d
      <3>1. PICK n \in Nodes : d \in SaidOf(n)
        BY <2>3, <2>4
      <3>2. n \in Passed
        BY <1>3, <2>5, <2>9, <3>1, ReadToTheEnd
      <3> QED
        BY <2>4, <2>6, <3>1, <3>2
    <2> QED
      BY <2>2, <2>7, <2>8, <2>9 DEF SaidInOrder, k
  <1>4. stage \in {"root", "body", "done"}
    BY DEF DInv, IInv, TypeOK
  <1> QED
    BY <1>1, <1>2, <1>3, <1>4

LEMMA KeptAsDeclared ==
  ASSUME DInv
  PROVE  FilesAsDeclared
  <1>1. \A f \in files : AsDeclared(f)
    BY DEF DInv, FilesDeclared
  <1>2. doc \in Documents /\ root \in Option({RootElement}) /\ files \subseteq File
    BY DEF DInv, IInv, TypeOK
  <1>3. CASE stage = "done" /\ result = {}
    <2>1. ~IsDocument /\ files = {}
      BY <1>3 DEF DInv, AllTold
    <2>2. ASSUME NEW n \in Nodes PROVE ~IsBody(n)
      <3>1. SUFFICES ASSUME IsBody(n) PROVE FALSE
        OBVIOUS
      <3>2. root = {RootElement} /\ RootElement \in Above(n)
        BY <1>2, <3>1 DEF IsBody, Option
      <3>3. IsBody(RootElement)
        BY <1>2, <3>1, <3>2, AboveRoot DEF IsBody
      <3> QED
        BY <2>1, <3>2, <3>3 DEF IsDocument
    <2>3. {f.node : f \in files} = {n \in Nodes : Opened(n) \/ Stub(n)}
      BY <2>1, <2>2 DEF Opened, Stub
    <2>4. result = {n \in root : IsBody(n)}
      BY <1>3, <2>1 DEF IsDocument
    <2> QED
      BY <1>1, <2>3, <2>4 DEF FilesAsDeclared
  <1>4. CASE stage = "done" /\ result # {}
    <2>1. IsDocument /\ result = root
      BY <1>4 DEF DInv, AllTold
    <2>2. root = {RootElement} /\ IsBody(RootElement)
      BY <1>2, <2>1 DEF IsDocument, Option
    <2>3. \A n \in Nodes : Opened(n) \/ Stub(n) => n \in Closed
      BY <1>4, ReadToTheEnd
    <2>4. \A n \in Closed : n \in Nodes /\ (Opened(n) \/ Stub(n))
      BY <1>1, <1>2 DEF Closed, AsDeclared, File
    <2>5. {f.node : f \in files} = {n \in Nodes : Opened(n) \/ Stub(n)}
      BY <2>3, <2>4 DEF Closed
    <2>6. result = {n \in root : IsBody(n)}
      BY <2>1, <2>2
    <2> QED
      BY <1>1, <2>5, <2>6 DEF FilesAsDeclared
  <1>5. CASE stage # "done"
    BY <1>1, <1>5 DEF FilesAsDeclared
  <1> QED
    BY <1>3, <1>4, <1>5

(* A list in document order is determined by what is in it: there is one    *)
(* context a body can have, and one report.                                 *)
LEMMA ListedOnce ==
  ASSUME NEW S \in SUBSET Nat, NEW s \in Seq(S), NEW t \in Seq(S), Listed(s, S), Listed(t, S)
  PROVE  \A i \in 1 .. Len(s) : i \in 1 .. Len(t) /\ s[i] = t[i]
  <1> DEFINE p == Len(s)
             q == Len(t)
             Off == {i \in 1 .. p : ~(i \in 1 .. q /\ s[i] = t[i])}
  <1>1. /\ {s[i] : i \in 1 .. p} = S /\ {t[i] : i \in 1 .. q} = S
        /\ \A i, j \in 1 .. p : i < j => s[i] < s[j]
        /\ \A i, j \in 1 .. q : i < j => t[i] < t[j]
        /\ p \in Nat /\ q \in Nat
        /\ (\A i \in 1 .. p : s[i] \in Nat) /\ (\A i \in 1 .. q : t[i] \in Nat)
    <2>1. (\A i \in 1 .. p : s[i] \in S) /\ (\A i \in 1 .. q : t[i] \in S)
      BY ElementOfSeq
    <2>2. \A n \in S : n \in Nat
      OBVIOUS
    <2>3. p \in Nat /\ q \in Nat
      OBVIOUS
    <2> HIDE DEF p, q
    <2>4. {s[i] : i \in 1 .. p} = S /\ {t[i] : i \in 1 .. q} = S
      BY DEF Listed, p, q
    <2>5. \A i, j \in 1 .. p : i < j => s[i] < s[j]
      BY DEF Listed, p
    <2>6. \A i, j \in 1 .. q : i < j => t[i] < t[j]
      BY DEF Listed, q
    <2> QED
      BY <2>1, <2>2, <2>3, <2>4, <2>5, <2>6
  <1> HIDE DEF p, q
  <1>2. SUFFICES ASSUME Off # {} PROVE FALSE
    BY DEF p, q
  <1>3. PICK x \in Off : \A y \in Off : x <= y
    <2>1. Off \subseteq Nat
      BY <1>1
    <2> HIDE DEF Off
    <2> QED
      BY <1>2, <2>1, Least
  <1>4. x \in 1 .. p /\ ~(x \in 1 .. q /\ s[x] = t[x])
    BY <1>3
  <1>5. \A i \in 1 .. x - 1 : i \in 1 .. p /\ i \in 1 .. q /\ s[i] = t[i]
    <2>1. SUFFICES ASSUME NEW i \in 1 .. x - 1 PROVE i \in 1 .. p /\ i \in 1 .. q /\ s[i] = t[i]
      OBVIOUS
    <2>2. i \in 1 .. p /\ ~(x <= i)
      <3>1. p \in Nat /\ x \in 1 .. p
        BY <1>1, <1>4
      <3> QED
        BY <2>1, <3>1
    <2>3. i \notin Off
      BY <1>3, <2>2
    <2> QED
      BY <2>2, <2>3
  <1>6. PICK j \in 1 .. q : t[j] = s[x]
    BY <1>1, <1>4
  <1>7. ~(j < x)
    <2>1. SUFFICES ASSUME j < x PROVE FALSE
      OBVIOUS
    <2>2. j \in 1 .. x - 1
      BY <1>1, <1>4, <2>1
    <2>3. s[j] = s[x] /\ s[j] < s[x] /\ s[x] \in Nat
      BY <1>1, <1>4, <1>5, <1>6, <2>1, <2>2
    <2> QED
      BY <2>3
  <1>8. x \in 1 .. q /\ x < j
    <2>1. p \in Nat /\ q \in Nat /\ x \in 1 .. p /\ j \in 1 .. q
      BY <1>1, <1>4, <1>6
    <2>2. j # x
      BY <1>4, <1>6
    <2> QED
      BY <1>7, <2>1, <2>2
  <1>9. PICK i \in 1 .. p : s[i] = t[x]
    BY <1>1, <1>8
  <1>10. s[i] < s[x]
    BY <1>1, <1>6, <1>8, <1>9
  <1>11. i < x
    <2>1. CASE x < i
      <3>1. s[x] < s[i] /\ s[x] \in Nat /\ s[i] \in Nat
        BY <1>1, <1>4, <2>1
      <3> QED
        BY <1>10, <3>1
    <2>2. CASE x = i
      <3>1. s[x] \in Nat
        BY <1>1, <1>4
      <3> QED
        BY <1>10, <2>2, <3>1
    <2> QED
      BY <1>4, <2>1, <2>2
  <1>12. t[i] = t[x] /\ t[i] < t[x] /\ t[x] \in Nat
    <2>1. i \in 1 .. x - 1
      BY <1>1, <1>4, <1>11
    <2> QED
      BY <1>1, <1>5, <1>8, <1>9, <1>11, <2>1
  <1> QED
    BY <1>12

LEMMA NextDeclared ==
  ASSUME DInv, [Next]_vars
  PROVE  DInv'
  <1>1. CASE BodyStep
    BY <1>1, LeafChildDeclared, DescriptionChildDeclared, BeanChildDeclared,
       NamespacedChildDeclared, UnknownChildDeclared, NestedAtLimitDeclared,
       NestedPushDeclared, NestedDeliveredDeclared, BodyFinishedDeclared DEF BodyStep
  <1>2. CASE UNCHANGED vars
    <2>1. UNCHANGED <<doc, root, stage, stack, incoming, diags, files, result>>
      BY <1>2 DEF vars
    <2>2. IInv'
      BY <1>2, NextIInv DEF DInv
    <2>3. /\ \A n : (Opened(n)' <=> Opened(n)) /\ Above(n)' = Above(n) /\ Parent(n)' = Parent(n)
                    /\ (Stub(n)' <=> Stub(n))
          /\ \A n, p : Nearest(n, p)' = Nearest(n, p)
          /\ \A g : ReadOf(g)' = ReadOf(g) /\ (AsDeclared(g)' <=> AsDeclared(g))
          /\ \A S, slot : Declared(S, slot)' = Declared(S, slot)
          /\ \A S : SaidOfAll(S)' = SaidOfAll(S)
          /\ IsDocument' <=> IsDocument
      BY <2>1, DeclaredStable
    <2>4. /\ Closed' = Closed /\ OpenNodes' = OpenNodes /\ \A i : Awaited(i)' = Awaited(i)
      BY <2>1 DEF Closed, OpenNodes, Awaited
    <2>5. Passed' = Passed
      <3>1. SUFFICES ASSUME NEW m PROVE m \in Passed' <=> m \in Passed
        BY DEF Passed
      <3> QED
        BY <2>1, <2>4, IsPassed, PassedNext
    <2>6. FramesDeclared' /\ ContextsDeclared'
      BY <2>1, <2>3, <2>4 DEF DInv, FramesDeclared, ContextsDeclared
    <2>7. ReadInOrder' /\ FilesDeclared'
      BY <2>1, <2>3, <2>4, <2>5 DEF DInv, ReadInOrder, FilesDeclared
    <2>8. AllTold'
      BY <2>1, <2>3, <2>4, <2>5 DEF DInv, AllTold, Tells
    <2> QED
      BY <2>1, <2>2, <2>6, <2>7, <2>8 DEF DInv
  <1> QED
    BY <1>1, <1>2, RejectRootDeclared, EnterRootDeclared DEF Next

(* All of it, in every state of every run.                                  *)
THEOREM DeclaredInvariance == Spec => []DInv
  <1>1. Init => DInv
    BY InitDeclared
  <1>2. DInv /\ [Next]_vars => DInv'
    BY NextDeclared
  <1> QED
    BY <1>1, <1>2, PTL DEF Spec

(* The engine with its stack of scopes says of every document what is to be *)
(* said of it, in document order, and nothing else.                         *)
THEOREM ReportIsOfTheDocument == Spec => []SaidInOrder
  <1>1. DInv => SaidInOrder
    BY Reported
  <1> QED
    BY <1>1, DeclaredInvariance, PTL

(* The bodies it finishes are those the document declares, each with the    *)
(* children declared in it.                                                 *)
THEOREM BodiesAreOfTheDocument == Spec => []FilesAsDeclared
  <1>1. DInv => FilesAsDeclared
    BY KeptAsDeclared
  <1> QED
    BY <1>1, DeclaredInvariance, PTL
==============================================================================
