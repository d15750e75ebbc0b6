-------------------------- MODULE TreeBuilderProofs --------------------------
(* Theorems about build_tree, for every source length, depth limit and set  *)
(* of names.                                                                *)
EXTENDS TreeBuilder, TLAPS, SequenceTheorems, FiniteSetTheorems

-----------------------------------------------------------------------------
(* Lemmas about the operators of TreeBuilder.                               *)

(* A prefix of the stack is a stack.                                        *)
LEMMA PrefixType ==
  ASSUME NEW S, NEW s \in Seq(S), NEW n \in 0 .. Len(s)
  PROVE  /\ SubSeq(s, 1, n) \in Seq(S)
         /\ Len(SubSeq(s, 1, n)) = n
         /\ \A i \in 1 .. n : SubSeq(s, 1, n)[i] = s[i]
  <1>1. \A i \in 1 .. n : s[i] \in S
    BY ElementOfSeq
  <1> QED
    BY <1>1, SubSeqProperties

(* Attaching a reference keeps the stack a stack of the same length; only   *)
(* the children of its innermost tag change.                                *)
LEMMA AttachType ==
  ASSUME NEW stk \in Seq(OpenTag), NEW ref \in Ref
  PROVE  /\ AttachTo(stk, ref) \in Seq(OpenTag)
         /\ Len(AttachTo(stk, ref)) = Len(stk)
         /\ \A i \in 1 .. Len(stk) :
              /\ AttachTo(stk, ref)[i].name = stk[i].name
              /\ AttachTo(stk, ref)[i].start = stk[i].start
              /\ AttachTo(stk, ref)[i].children =
                   IF i = Len(stk) THEN Append(stk[i].children, ref) ELSE stk[i].children
  <1>1. CASE stk = <<>>
    BY <1>1 DEF AttachTo
  <1>2. CASE stk # <<>>
    <2> DEFINE n == Len(stk)
               e == [stk[n] EXCEPT !.children = Append(@, ref)]
    <2>1. n \in 1 .. Len(stk)
      BY <1>2, EmptySeq
    <2>2. stk[n] \in OpenTag
      BY <2>1, ElementOfSeq
    <2>3. Append(stk[n].children, ref) \in Seq(Ref)
      BY <2>2, AppendProperties DEF OpenTag
    <2>4. /\ e \in OpenTag
          /\ e.name = stk[n].name /\ e.start = stk[n].start
          /\ e.children = Append(stk[n].children, ref)
      BY <2>2, <2>3 DEF OpenTag
    <2>5. AttachTo(stk, ref) = [stk EXCEPT ![n] = e]
      BY <1>2 DEF AttachTo
    <2> QED
      BY <2>1, <2>4, <2>5, ExceptSeq
  <1> QED
    BY <1>1, <1>2

(* Children stay ordered when the extent they lie in grows.                 *)
LEMMA OrderedWiden ==
  ASSUME NEW children \in Seq(Ref), NEW lo \in Nat, NEW mid \in Nat, NEW hi \in Nat,
         OrderedWithin(children, lo, mid), mid <= hi
  PROVE  OrderedWithin(children, lo, hi)
  <1>1. \A i \in 1 .. Len(children) : children[i] \in Ref
    BY ElementOfSeq
  <1>2. \A i \in 1 .. Len(children) : children[i].end \in Nat
    BY <1>1 DEF Ref
  <1> QED
    BY <1>2 DEF OrderedWithin

(* A reference that starts where the extent ends may be appended.           *)
LEMMA OrderedAppend ==
  ASSUME NEW children \in Seq(Ref), NEW lo \in Nat, NEW mid \in Nat, NEW hi \in Nat,
         NEW ref \in Ref,
         OrderedWithin(children, lo, mid),
         lo < ref.start, mid <= ref.start, ref.start <= ref.end, ref.end <= hi
  PROVE  OrderedWithin(Append(children, ref), lo, hi)
  <1> DEFINE more == Append(children, ref)
  <1>1. /\ Len(children) \in Nat
        /\ Len(more) = Len(children) + 1
        /\ \A i \in 1 .. Len(children) : more[i] = children[i] /\ children[i] \in Ref
        /\ more[Len(children) + 1] = ref
    BY AppendProperties, LenProperties, ElementOfSeq
  <1>2. \A i \in 1 .. Len(children) : children[i].start \in Nat /\ children[i].end \in Nat
    BY <1>1 DEF Ref
  <1>3. ref.start \in Nat /\ ref.end \in Nat
    BY DEF Ref
  <1> HIDE DEF more
  <1>4. ASSUME NEW i \in 1 .. Len(more)
        PROVE  lo < more[i].start /\ more[i].start <= more[i].end /\ more[i].end <= hi
    <2>1. CASE i = Len(children) + 1
      BY <1>1, <1>3, <2>1
    <2>2. CASE i \in 1 .. Len(children)
      <3>1. /\ lo < children[i].start /\ children[i].start <= children[i].end
            /\ children[i].end <= mid
        BY <2>2 DEF OrderedWithin
      <3> QED
        BY <1>1, <1>2, <1>3, <2>2, <3>1
    <2> QED
      BY <1>1, <2>1, <2>2
  <1>5. ASSUME NEW i \in 1 .. Len(more), NEW j \in 1 .. Len(more), i < j
        PROVE  more[i].end <= more[j].start
    <2>1. i \in 1 .. Len(children) /\ more[i] = children[i]
      BY <1>1, <1>5
    <2>2. CASE j = Len(children) + 1
      <3>1. children[i].end <= mid /\ children[i].end \in Nat
        BY <1>2, <2>1 DEF OrderedWithin
      <3> QED
        BY <1>1, <1>3, <2>1, <2>2, <3>1
    <2>3. CASE j \in 1 .. Len(children)
      <3>1. more[j] = children[j]
        BY <1>1, <2>3
      <3> QED
        BY <1>5, <2>1, <2>3, <3>1 DEF OrderedWithin
    <2> QED
      BY <1>1, <2>2, <2>3
  <1> QED
    BY <1>4, <1>5 DEF OrderedWithin, more

(* The facts about one open tag that the type of the stack gives.           *)
LEMMA OpenTagType ==
  ASSUME NEW stk \in Seq(OpenTag), NEW i \in 1 .. Len(stk)
  PROVE  stk[i].name \in Names /\ stk[i].start \in Nat /\ stk[i].children \in Seq(Ref)
  <1>1. stk[i] \in OpenTag
    BY ElementOfSeq
  <1> QED
    BY <1>1 DEF OpenTag

(* The stack nests at any later position ...                                *)
LEMMA WidenNests ==
  ASSUME NEW stk \in Seq(OpenTag), NEW p \in Nat, NEW q \in Nat,
         StackNests(stk, p), p <= q
  PROVE  StackNests(stk, q)
  <1>1. ASSUME NEW i \in 1 .. Len(stk)
        PROVE  /\ stk[i].start < q
               /\ OrderedWithin(stk[i].children, stk[i].start, OpenUpTo(stk, q, i))
    <2>1. /\ stk[i].start < p /\ stk[i].start \in Nat /\ stk[i].children \in Seq(Ref)
          /\ OrderedWithin(stk[i].children, stk[i].start, OpenUpTo(stk, p, i))
      BY OpenTagType DEF StackNests
    <2>2. CASE i = Len(stk)
      BY <2>1, <2>2, OrderedWiden DEF OpenUpTo
    <2>3. CASE i # Len(stk)
      BY <2>1, <2>3 DEF OpenUpTo
    <2> QED
      BY <2>2, <2>3
  <1> QED
    BY <1>1 DEF StackNests

(* ... when a tag is opened at the present one ...                          *)
LEMMA PushNests ==
  ASSUME NEW stk \in Seq(OpenTag), NEW p \in Nat, NEW q \in Nat, NEW name \in Names,
         StackNests(stk, p), p < q
  PROVE  LET tag == [name |-> name, start |-> p, children |-> <<>>]
         IN  /\ Append(stk, tag) \in Seq(OpenTag)
             /\ Len(Append(stk, tag)) = Len(stk) + 1
             /\ StackNests(Append(stk, tag), q)
  <1> DEFINE tag == [name |-> name, start |-> p, children |-> <<>>]
             more == Append(stk, tag)
  <1>1. tag \in OpenTag /\ tag.start = p /\ tag.children = <<>>
    BY EmptySeq DEF OpenTag
  <1> HIDE DEF tag
  <1>2. /\ more \in Seq(OpenTag) /\ Len(stk) \in Nat
        /\ Len(more) = Len(stk) + 1
        /\ \A i \in 1 .. Len(stk) : more[i] = stk[i]
        /\ more[Len(stk) + 1] = tag
    BY <1>1, AppendProperties, LenProperties
  <1> HIDE DEF more
  <1>3. \A i \in 1 .. Len(stk) : stk[i].start \in Nat /\ stk[i].start < p
    BY OpenTagType DEF StackNests
  <1>4. ASSUME NEW i \in 1 .. Len(more), NEW j \in 1 .. Len(more), i < j
        PROVE  more[i].start < more[j].start
    <2>1. i \in 1 .. Len(stk) /\ more[i] = stk[i]
      BY <1>2, <1>4
    <2>2. CASE j = Len(stk) + 1
      BY <1>1, <1>2, <1>3, <2>1, <2>2
    <2>3. CASE j \in 1 .. Len(stk)
      <3>1. more[j] = stk[j]
        BY <1>2, <2>3
      <3> QED
        BY <1>4, <2>1, <2>3, <3>1 DEF StackNests
    <2> QED
      BY <1>2, <2>2, <2>3
  <1>5. ASSUME NEW i \in 1 .. Len(more)
        PROVE  /\ more[i].start < q
               /\ OrderedWithin(more[i].children, more[i].start, OpenUpTo(more, q, i))
    <2>1. CASE i = Len(stk) + 1
      <3>1. OrderedWithin(<<>>, p, q)
        BY DEF OrderedWithin
      <3> QED
        BY <1>1, <1>2, <2>1, <3>1 DEF OpenUpTo
    <2>2. CASE i = Len(stk)
      BY <1>1, <1>2, <1>3, <2>2 DEF OpenUpTo, StackNests
    <2>3. CASE i < Len(stk)
      <3>1. i \in 1 .. Len(stk) /\ i + 1 \in 1 .. Len(stk) /\ i # Len(stk) /\ i # Len(more)
        BY <1>2, <2>3
      <3>2. more[i] = stk[i] /\ more[i + 1] = stk[i + 1]
        BY <1>2, <3>1
      <3> QED
        BY <1>3, <3>1, <3>2 DEF OpenUpTo, StackNests
    <2> QED
      BY <1>2, <2>1, <2>2, <2>3
  <1> QED
    BY <1>2, <1>4, <1>5 DEF StackNests, more, tag

(* ... when a reference that starts there is attached to it ...             *)
LEMMA AttachNests ==
  ASSUME NEW stk \in Seq(OpenTag), NEW p \in Nat, NEW q \in Nat, NEW ref \in Ref,
         StackNests(stk, p), p <= ref.start, ref.start <= ref.end, ref.end <= q
  PROVE  StackNests(AttachTo(stk, ref), q)
  <1> DEFINE more == AttachTo(stk, ref)
  <1>1. /\ Len(more) = Len(stk)
        /\ \A i \in 1 .. Len(stk) :
             /\ more[i].start = stk[i].start
             /\ more[i].children = IF i = Len(stk) THEN Append(stk[i].children, ref)
                                    ELSE stk[i].children
    BY AttachType
  <1> HIDE DEF more
  <1>2. ASSUME NEW i \in 1 .. Len(stk)
        PROVE  /\ more[i].start < q
               /\ OrderedWithin(more[i].children, more[i].start, OpenUpTo(more, q, i))
    <2>1. /\ stk[i].start \in Nat /\ stk[i].start < p /\ stk[i].children \in Seq(Ref)
          /\ ref.start \in Nat /\ ref.end \in Nat /\ Len(stk) \in Nat
      BY OpenTagType, LenProperties DEF Ref, StackNests
    <2>2. CASE i = Len(stk)
      <3>1. stk[i].start < p /\ OrderedWithin(stk[i].children, stk[i].start, p)
        BY <2>2 DEF StackNests, OpenUpTo
      <3>2. OrderedWithin(Append(stk[i].children, ref), stk[i].start, q)
        BY <2>1, <3>1, OrderedAppend
      <3> QED
        BY <1>1, <2>1, <2>2, <3>1, <3>2 DEF OpenUpTo
    <2>3. CASE i # Len(stk)
      <3>1. i + 1 \in 1 .. Len(stk) /\ Len(more) = Len(stk)
        BY <1>1, <2>1, <2>3
      <3>2. OpenUpTo(more, q, i) = OpenUpTo(stk, p, i)
        BY <1>1, <2>3, <3>1 DEF OpenUpTo
      <3>3. more[i].start = stk[i].start /\ more[i].children = stk[i].children
        BY <1>1, <2>3
      <3>4. OrderedWithin(stk[i].children, stk[i].start, OpenUpTo(stk, p, i))
        BY DEF StackNests
      <3>5. more[i].start < q
        BY <2>1, <3>3
      <3> QED
        BY <3>2, <3>3, <3>4, <3>5
    <2> QED
      BY <2>2, <2>3
  <1>3. \A i, j \in 1 .. Len(stk) : i < j => stk[i].start < stk[j].start
    BY DEF StackNests
  <1>4. \A i, j \in 1 .. Len(more) : i < j => more[i].start < more[j].start
    BY <1>1, <1>3
  <1> QED
    BY <1>1, <1>2, <1>4 DEF StackNests, more

(* ... and below an open tag, at the start of that tag.                     *)
LEMMA PrefixNests ==
  ASSUME NEW stk \in Seq(OpenTag), NEW p \in Nat, NEW d \in 1 .. Len(stk),
         StackNests(stk, p)
  PROVE  StackNests(SubSeq(stk, 1, d - 1), stk[d].start)
  <1> DEFINE below == SubSeq(stk, 1, d - 1)
  <1>1. /\ Len(below) = d - 1 /\ d \in Nat /\ Len(stk) \in Nat
        /\ \A i \in 1 .. d - 1 : below[i] = stk[i]
    BY PrefixType, LenProperties
  <1> HIDE DEF below
  <1>2. ASSUME NEW i \in 1 .. d - 1
        PROVE  /\ OpenUpTo(below, stk[d].start, i) = OpenUpTo(stk, p, i)
               /\ stk[i].start < stk[d].start
    <2>1. i \in 1 .. Len(stk) /\ i < d /\ i # Len(stk)
      BY <1>1
    <2>2. stk[i].start < stk[d].start
      BY <2>1 DEF StackNests
    <2>3. OpenUpTo(below, stk[d].start, i) = stk[i + 1].start
      <3>1. CASE i = d - 1
        BY <1>1, <3>1 DEF OpenUpTo
      <3>2. CASE i # d - 1
        <4>1. i + 1 \in 1 .. d - 1 /\ i # Len(below)
          BY <1>1, <3>2
        <4> QED
          BY <1>1, <4>1 DEF OpenUpTo
      <3> QED
        BY <3>1, <3>2
    <2> QED
      BY <2>1, <2>2, <2>3 DEF OpenUpTo
  <1>3. ASSUME NEW i \in 1 .. Len(below), NEW j \in 1 .. Len(below), i < j
        PROVE  below[i].start < below[j].start
    <2>1. /\ i \in 1 .. Len(stk) /\ below[i] = stk[i]
          /\ j \in 1 .. Len(stk) /\ below[j] = stk[j]
      BY <1>1
    <2> QED
      BY <1>3, <2>1 DEF StackNests
  <1>4. ASSUME NEW i \in 1 .. Len(below)
        PROVE  /\ below[i].start < stk[d].start
               /\ OrderedWithin(below[i].children, below[i].start, OpenUpTo(below, stk[d].start, i))
    <2>1. i \in 1 .. d - 1 /\ i \in 1 .. Len(stk) /\ below[i] = stk[i]
      BY <1>1
    <2> QED
      BY <1>2, <2>1 DEF StackNests
  <1>5. StackNests(below, stk[d].start)
    BY <1>3, <1>4 DEF StackNests
  <1> QED
    BY <1>5 DEF below

(* One diagnostic is a diagnostic.                                          *)
LEMMA DiagType ==
  ASSUME NEW code \in Code, NEW s \in Nat, NEW e \in Nat
  PROVE  /\ Diagnose(code, s, e) \in Diag
         /\ <<Diagnose(code, s, e)>> \in Seq(Diag)
  BY DEF Diagnose, Diag

(* The diagnostics of tags that were never closed.                          *)
LEMMA UnclosedType ==
  ASSUME stack \in Seq(OpenTag), NEW d \in Nat \ {0}, d <= Len(stack) + 1, NEW e \in Nat
  PROVE  Unclosed(d, e) \in Seq(Diag)
  <1> DEFINE n == Len(stack) + 1 - d
             g(k) == Diagnose("UnclosedTag", stack[Len(stack) + 1 - k].start, e)
  <1>1. n \in Nat /\ Len(stack) \in Nat
    BY LenProperties
  <1>2. ASSUME NEW k \in 1 .. n
        PROVE  g(k) \in Diag
    <2>1. Len(stack) + 1 - k \in 1 .. Len(stack)
      BY <1>1
    <2>2. stack[Len(stack) + 1 - k].start \in Nat
      BY <2>1, OpenTagType
    <2> QED
      BY <2>2, DiagType DEF Code
  <1> HIDE DEF g
  <1>3. [k \in 1 .. n |-> g(k)] \in [1 .. n -> Diag]
    BY <1>2
  <1>4. [k \in 1 .. n |-> g(k)] \in Seq(Diag)
    BY <1>1, <1>3, SeqDef
  <1> QED
    BY <1>4 DEF Unclosed, g

-----------------------------------------------------------------------------
(* The invariant: types, the depth bound and the nesting of the spans.      *)
IInv == TypeOK /\ DepthBounded /\ SpansNest

(* What an open tag becomes when it is closed is an element whose span      *)
(* holds its children.                                                      *)
LEMMA ClosedNests ==
  ASSUME TypeOK, SpansNest, phase = "reading",
         NEW d \in 1 .. Len(stack), NEW i \in d .. Len(stack),
         NEW cs \in Nat, NEW ce \in Nat, Pos <= cs, cs <= ce
  PROVE  LET c == Closed(i, d, cs, ce)
         IN  /\ c \in Element
             /\ c.start < c.end
             /\ OrderedWithin(c.children, c.start, c.end)
  <1> DEFINE c == Closed(i, d, cs, ce)
             s == stack[i].start
             e == IF i = d THEN ce ELSE cs
  <1>1. stack \in Seq(OpenTag) /\ Len(stack) \in Nat /\ Pos \in Nat /\ i \in 1 .. Len(stack)
    BY LenProperties DEF TypeOK, Pos
  <1>2. stack[i].name \in Names /\ s \in Nat /\ stack[i].children \in Seq(Ref) /\ e \in Nat
    BY <1>1, OpenTagType
  <1>3. s < Pos /\ OrderedWithin(stack[i].children, s, OpenUpTo(stack, Pos, i))
    BY <1>1 DEF SpansNest, StackNests
  <1>4. cs <= e
    OBVIOUS
  <1> HIDE DEF s, e
  <1>5. CASE i = Len(stack)
    <2>1. OrderedWithin(stack[i].children, s, Pos)
      BY <1>3, <1>5 DEF OpenUpTo
    <2>2. OrderedWithin(stack[i].children, s, e)
      BY <1>1, <1>2, <1>4, <2>1, OrderedWiden
    <2>3. c = [name |-> stack[i].name, start |-> s, end |-> e, children |-> stack[i].children]
      BY <1>5 DEF Closed, s, e
    <2> QED
      BY <1>1, <1>2, <1>3, <1>4, <2>2, <2>3 DEF Element
  <1>6. CASE i # Len(stack)
    <2> DEFINE t == stack[i + 1].start
               ref == ElementRef(t, cs)
               more == Append(stack[i].children, ref)
    <2>1. i + 1 \in 1 .. Len(stack)
      BY <1>1, <1>6
    <2>2. t \in Nat /\ t < Pos /\ s < t
      <3>1. StackNests(stack, Pos)
        BY <1>1 DEF SpansNest
      <3>2. i < i + 1 /\ i \in 1 .. Len(stack)
        BY <1>1
      <3>3. t \in Nat
        BY <1>1, <2>1, OpenTagType
      <3> QED
        BY <2>1, <3>1, <3>2, <3>3 DEF StackNests, s
    <2>3. OrderedWithin(stack[i].children, s, t)
      BY <1>3, <1>6 DEF OpenUpTo
    <2>4. ref \in Ref /\ ref.start = t /\ ref.end = cs
      BY <2>2 DEF ElementRef, Ref
    <2> HIDE DEF ref
    <2>5. t <= cs
      BY <1>1, <2>2
    <2>6. OrderedWithin(more, s, e)
      <3>1. /\ s \in Nat /\ t \in Nat /\ e \in Nat /\ stack[i].children \in Seq(Ref)
            /\ s < ref.start /\ t <= ref.start /\ ref.start <= ref.end /\ ref.end <= e
        BY <1>2, <1>4, <2>2, <2>4, <2>5
      <3> HIDE DEF t
      <3> QED
        BY <2>3, <2>4, <3>1, OrderedAppend
    <2>9. more \in Seq(Ref)
      BY <1>2, <2>4, AppendProperties
    <2>7. c = [name |-> stack[i].name, start |-> s, end |-> e, children |-> more]
      BY <1>6 DEF Closed, ref, s, e
    <2>8. s < e
      BY <1>2, <1>4, <2>2, <2>5
    <2> QED
      BY <1>2, <2>6, <2>7, <2>8, <2>9 DEF Element
  <1> QED
    BY <1>5, <1>6

(* The root stays an Option of a reference.                                 *)
LEMMA RootType ==
  ASSUME TypeOK, NEW stk, NEW ref \in Ref
  PROVE  RootAfter(stk, ref) \subseteq Ref /\ \A r, s \in RootAfter(stk, ref) : r = s
  BY DEF RootAfter, TypeOK

(* Closing the open tags from depth d up leaves a well-formed builder.      *)
LEMMA CloseDownToNests ==
  ASSUME TypeOK, SpansNest, phase = "reading",
         NEW d \in 1 .. Len(stack), NEW cs \in Nat, NEW ce \in Nat, Pos <= cs, cs <= ce,
         CloseDownTo(d, cs, ce)
  PROVE  /\ nodes' \subseteq Element
         /\ \A n \in nodes' : n.start < n.end /\ OrderedWithin(n.children, n.start, n.end)
         /\ root' \subseteq Ref /\ \A r, s \in root' : r = s
         /\ stack' \in Seq(OpenTag)
         /\ Len(stack') = d - 1
         /\ StackNests(stack', ce)
  <1> DEFINE below == SubSeq(stack, 1, d - 1)
             ref == ElementRef(stack[d].start, ce)
  <1>1. /\ stack \in Seq(OpenTag) /\ Len(stack) \in Nat /\ Pos \in Nat /\ d \in Nat
        /\ d - 1 \in 0 .. Len(stack)
    BY LenProperties DEF TypeOK, Pos
  <1>2. stack[d].start \in Nat /\ stack[d].start < Pos
    BY <1>1, OpenTagType DEF SpansNest, StackNests
  <1>3. ref \in Ref /\ ref.start = stack[d].start /\ ref.end = ce
    BY <1>2 DEF ElementRef, Ref
  <1>4. below \in Seq(OpenTag) /\ Len(below) = d - 1
    BY <1>1, PrefixType
  <1>5. StackNests(below, stack[d].start)
    BY <1>1, PrefixNests DEF SpansNest
  <1>6. /\ nodes' = nodes \cup {Closed(i, d, cs, ce) : i \in d .. Len(stack)}
        /\ stack' = AttachTo(below, ref)
        /\ root' = RootAfter(below, ref)
    BY DEF CloseDownTo
  <1> HIDE DEF below, ref
  <1>7. ASSUME NEW n \in nodes'
        PROVE  n \in Element /\ n.start < n.end /\ OrderedWithin(n.children, n.start, n.end)
    <2>1. CASE n \in nodes
      BY <2>1 DEF TypeOK, SpansNest
    <2>2. CASE n \in {Closed(i, d, cs, ce) : i \in d .. Len(stack)}
      BY <2>2, ClosedNests
    <2> QED
      BY <1>6, <2>1, <2>2
  <1>8. stack' \in Seq(OpenTag) /\ Len(stack') = d - 1
    BY <1>3, <1>4, <1>6, AttachType
  <1>9. StackNests(stack', ce)
    BY <1>1, <1>2, <1>3, <1>4, <1>5, <1>6, AttachNests
  <1> QED
    BY <1>3, <1>6, <1>7, <1>8, <1>9, RootType

(* The pending run after one more run of text is an Option of a run.        *)
LEMMA PendingType ==
  ASSUME TypeOK, NEW run \in [start : Nat, end : Nat, mark : Marks]
  PROVE  NextPending(run) \subseteq Pending /\ \A p, q \in NextPending(run) : p = q
  <1>1. \A n \in Nat : Depth(n, run.mark) \in Nat
    BY DEF Depth
  <1>2. FreshPending(run) \in Pending
    BY <1>1 DEF FreshPending, Pending
  <1>3. \A p \in pending : Extended(p, run) \in Pending
    BY <1>1 DEF Extended, Pending, TypeOK
  <1> QED
    BY <1>2, <1>3 DEF NextPending, TypeOK

(* What the check of a pending run says is a sequence of diagnostics.       *)
LEMMA PlaceholderType ==
  ASSUME TypeOK
  PROVE  PlaceholderDiags(pending) \in Seq(Diag)
  <1>1. CASE \E p \in pending : p.depth > 0
    <2> DEFINE p == CHOOSE q \in pending : TRUE
    <2>1. p \in Pending
      BY <1>1 DEF TypeOK
    <2>2. p.opener \in Nat /\ p.end \in Nat
      BY <2>1 DEF Pending
    <2> HIDE DEF p
    <2>3. <<Diagnose("UnterminatedPlaceholder", p.opener, p.end)>> \in Seq(Diag)
      BY <2>2, DiagType DEF Code
    <2> QED
      BY <1>1, <2>3 DEF PlaceholderDiags, p
  <1>2. CASE ~ \E p \in pending : p.depth > 0
    BY <1>2, EmptySeq DEF PlaceholderDiags
  <1> QED
    BY <1>1, <1>2

-----------------------------------------------------------------------------
(* The steps, one lemma for each.  Each says of its step that it keeps IInv.*)

(* The empty builder at the start of a document is sound.                   *)
LEMMA InitIInv == Init => IInv
  <1> SUFFICES ASSUME Init PROVE IInv
    OBVIOUS
  <1>1. base \in Nat /\ rpos \in Nat /\ Pos <= SourceLen
    BY ConstantsOK DEF Init, Pos
  <1>2. stack \in Seq(OpenTag) /\ Len(stack) = 0 /\ diags \in Seq(Diag) /\ runs \in Seq(Run)
    BY EmptySeq DEF Init
  <1>3. TypeOK
    BY <1>1, <1>2 DEF Init, TypeOK
  <1>4. DepthBounded /\ SpansNest
    BY <1>2, ConstantsOK DEF Init, DepthBounded, SpansNest, StackNests
  <1> QED
    BY <1>3, <1>4 DEF IInv

(* Reading one token moves on within the source.                            *)
LEMMA ConsumeType ==
  ASSUME IInv, NEW w \in Widths, Consume(w)
  PROVE  /\ base' \in Nat /\ rpos' \in Nat /\ Pos' <= SourceLen
         /\ Pos \in Nat /\ Pos + w \in Nat /\ Pos' = Pos + w /\ Pos < Pos'
         /\ phase = "reading" /\ phase' = "reading"
  <1>1. w \in Nat \ {0}
    BY ConstantsOK
  <1> QED
    BY <1>1, ConstantsOK DEF Consume, Pos, IInv, TypeOK

(* A step that reads a token and changes neither tree nor stack keeps IInv  *)
(* if it keeps the counter and the diagnostics in order.                    *)
LEMMA TreeUnchanged ==
  ASSUME IInv, NEW w \in Widths, Consume(w), UNCHANGED <<tree, pending, runs>>,
         suppressed' \in Nat, suppressed' > 0 => Len(stack) = MaxTreeDepth,
         diags' \in Seq(Diag)
  PROVE  IInv'
  <1>1. /\ base' \in Nat /\ rpos' \in Nat /\ Pos' <= SourceLen
        /\ Pos \in Nat /\ Pos' \in Nat /\ Pos < Pos' /\ phase = "reading" /\ phase' = "reading"
    BY ConsumeType
  <1>2. TypeOK'
    BY <1>1 DEF IInv, TypeOK, tree
  <1>3. DepthBounded'
    BY DEF IInv, DepthBounded, tree
  <1>4. StackNests(stack, Pos)
    BY <1>1 DEF IInv, SpansNest
  <1>5. StackNests(stack, Pos')
    BY <1>1, <1>4, WidenNests DEF IInv, TypeOK
  <1>6. SpansNest'
    BY <1>5 DEF IInv, SpansNest, tree
  <1> QED
    BY <1>2, <1>3, <1>6 DEF IInv

(* A start tag inside an over-deep subtree preserves the invariant. *)
LEMMA StartSuppressedStep ==
  ASSUME IInv, NEW w \in Widths, StartSuppressed(w)
  PROVE  IInv'
  <1>1. phase = "reading"
    BY ConsumeType DEF StartSuppressed
  <1> QED
    BY <1>1, TreeUnchanged DEF StartSuppressed, IInv, TypeOK, DepthBounded

(* The start tag that exceeds the limit preserves the invariant. *)
LEMMA StartAtLimitStep ==
  ASSUME IInv, NEW w \in Widths, StartAtLimit(w)
  PROVE  IInv'
  <1>1. Pos \in Nat /\ Pos + w \in Nat /\ phase = "reading"
    BY ConsumeType DEF StartAtLimit
  <1>2. diags' \in Seq(Diag)
    BY <1>1, DiagType, AppendProperties DEF StartAtLimit, IInv, TypeOK, Code
  <1>3. Len(stack) = MaxTreeDepth
    BY LenProperties, ConstantsOK DEF StartAtLimit, IInv, TypeOK, DepthBounded
  <1> QED
    BY <1>2, <1>3, TreeUnchanged DEF StartAtLimit

(* What scan_attrs_for_tag adds are diagnostics. *)
LEMMA AttrDiagsType ==
  ASSUME NEW flaw \in BOOLEAN, NEW s \in Nat, NEW e \in Nat
  PROVE  AttrDiags(flaw, s, e) \in Seq(Diag) /\ EntityDiags(flaw, s, e) \in Seq(Diag)
  BY DiagType, EmptySeq DEF AttrDiags, EntityDiags, Code

(* Pushing an open tag preserves the invariant: it starts where its parent  *)
(* has read to.                                                             *)
LEMMA StartPushStep ==
  ASSUME IInv, NEW w \in Widths, NEW name \in Names, NEW flaw \in Flaws,
         StartPush(name, w, flaw)
  PROVE  IInv'
  <1>1. /\ base' \in Nat /\ rpos' \in Nat /\ Pos' <= SourceLen
        /\ Pos \in Nat /\ Pos + w \in Nat /\ Pos' \in Nat /\ Pos < Pos'
        /\ phase = "reading" /\ phase' = "reading"
    BY ConsumeType DEF StartPush
  <1>2. diags' \in Seq(Diag)
    <2>1. flaw \in BOOLEAN
      BY ConstantsOK
    <2> QED
      BY <1>1, <2>1, AttrDiagsType, ConcatProperties DEF StartPush, IInv, TypeOK
  <1>3. stack \in Seq(OpenTag) /\ StackNests(stack, Pos) /\ Len(stack) \in Nat
    BY <1>1, LenProperties DEF IInv, TypeOK, SpansNest
  <1>4. /\ stack' \in Seq(OpenTag)
        /\ Len(stack') = Len(stack) + 1
        /\ StackNests(stack', Pos')
    BY <1>1, <1>3, PushNests DEF StartPush
  <1>5. TypeOK'
    BY <1>1, <1>2, <1>4 DEF IInv, TypeOK, StartPush
  <1>6. DepthBounded'
    BY <1>3, <1>4, ConstantsOK DEF DepthBounded, StartPush
  <1>7. SpansNest'
    BY <1>4 DEF IInv, SpansNest, StartPush
  <1> QED
    BY <1>5, <1>6, <1>7 DEF IInv

(* A self-closing tag inside an over-deep subtree preserves the invariant. *)
LEMMA EmptySuppressedStep ==
  ASSUME IInv, NEW w \in Widths, EmptySuppressed(w)
  PROVE  IInv'
  <1>1. phase = "reading"
    BY ConsumeType DEF EmptySuppressed
  <1> QED
    BY <1>1, TreeUnchanged DEF EmptySuppressed, IInv, TypeOK, DepthBounded

(* A self-closing tag that exceeds the limit preserves the invariant. *)
LEMMA EmptyAtLimitStep ==
  ASSUME IInv, NEW w \in Widths, EmptyAtLimit(w)
  PROVE  IInv'
  <1>1. Pos \in Nat /\ Pos + w \in Nat
    BY ConsumeType DEF EmptyAtLimit
  <1>2. diags' \in Seq(Diag)
    BY <1>1, DiagType, AppendProperties DEF EmptyAtLimit, IInv, TypeOK, Code
  <1> QED
    BY <1>2, TreeUnchanged DEF EmptyAtLimit, IInv, TypeOK

(* Completing a self-closing tag preserves the invariant. *)
LEMMA EmptyPushStep ==
  ASSUME IInv, NEW w \in Widths, NEW name \in Names, NEW flaw \in Flaws,
         EmptyPush(name, w, flaw)
  PROVE  IInv'
  <1> DEFINE el == [name |-> name, start |-> Pos, end |-> Pos + w, children |-> <<>>]
             ref == ElementRef(Pos, Pos + w)
  <1>1. /\ base' \in Nat /\ rpos' \in Nat /\ Pos' <= SourceLen
        /\ Pos \in Nat /\ Pos + w \in Nat /\ Pos' = Pos + w /\ Pos < Pos'
        /\ phase = "reading" /\ phase' = "reading"
    BY ConsumeType DEF EmptyPush
  <1>2. diags' \in Seq(Diag)
    <2>1. flaw \in BOOLEAN
      BY ConstantsOK
    <2> QED
      BY <1>1, <2>1, AttrDiagsType, ConcatProperties DEF EmptyPush, IInv, TypeOK
  <1>3. /\ el \in Element /\ el.start < el.end
        /\ OrderedWithin(el.children, el.start, el.end)
    <2>1. OrderedWithin(<<>>, Pos, Pos + w)
      BY DEF OrderedWithin
    <2> QED
      BY <1>1, <2>1, EmptySeq DEF Element
  <1>4. ref \in Ref /\ ref.start = Pos /\ ref.end = Pos + w
    BY <1>1 DEF ElementRef, Ref
  <1>5. stack \in Seq(OpenTag) /\ StackNests(stack, Pos)
    BY <1>1 DEF IInv, TypeOK, SpansNest
  <1>6. /\ stack' = AttachTo(stack, ref) /\ nodes' = nodes \cup {el}
        /\ root' = RootAfter(stack, ref)
        /\ UNCHANGED <<suppressed, pending, runs>> /\ suppressed = 0
    BY DEF EmptyPush
  <1> HIDE DEF ref, el
  <1>7. stack' \in Seq(OpenTag) /\ Len(stack') = Len(stack)
    BY <1>4, <1>5, <1>6, AttachType
  <1>8. StackNests(stack', Pos')
    BY <1>1, <1>4, <1>5, <1>6, AttachNests
  <1>9. root' \subseteq Ref /\ \A r, s \in root' : r = s
    BY <1>4, <1>6, RootType DEF IInv
  <1>10. TypeOK'
    <2>1. matched' \subseteq Nat
      BY <1>1 DEF EmptyPush, IInv, TypeOK
    <2> QED
      BY <1>1, <1>2, <1>3, <1>6, <1>7, <1>9, <2>1 DEF IInv, TypeOK
  <1>11. DepthBounded'
    BY <1>6, <1>7 DEF IInv, DepthBounded
  <1>12. SpansNest'
    BY <1>3, <1>6, <1>8 DEF IInv, SpansNest
  <1> QED
    BY <1>10, <1>11, <1>12 DEF IInv

(* A close tag inside an over-deep subtree preserves the invariant. *)
LEMMA EndSuppressedStep ==
  ASSUME IInv, NEW w \in Widths, EndSuppressed(w)
  PROVE  IInv'
  <1>1. phase = "reading"
    BY ConsumeType DEF EndSuppressed
  <1>2. suppressed' \in Nat /\ (suppressed' > 0 => Len(stack) = MaxTreeDepth)
    BY <1>1 DEF EndSuppressed, IInv, TypeOK, DepthBounded
  <1> QED
    BY <1>2, TreeUnchanged DEF EndSuppressed, IInv, TypeOK

(* A close tag that matches nothing preserves the invariant. *)
LEMMA EndOrphanStep ==
  ASSUME IInv, NEW w \in Widths, NEW name \in Names, EndOrphan(name, w)
  PROVE  IInv'
  <1>1. Pos \in Nat /\ Pos + w \in Nat
    BY ConsumeType DEF EndOrphan
  <1>2. diags' \in Seq(Diag)
    BY <1>1, DiagType, AppendProperties DEF EndOrphan, IInv, TypeOK, Code
  <1> QED
    BY <1>2, TreeUnchanged DEF EndOrphan, IInv, TypeOK

(* close_tag preserves the invariant, implicit closes included. *)
LEMMA EndMatchedStep ==
  ASSUME IInv, NEW w \in Widths, NEW name \in Names, NEW d \in 1 .. Len(stack),
         EndMatched(name, w, d)
  PROVE  IInv'
  <1>1. /\ base' \in Nat /\ rpos' \in Nat /\ Pos' <= SourceLen
        /\ Pos \in Nat /\ Pos + w \in Nat /\ Pos' = Pos + w /\ Pos < Pos'
        /\ phase = "reading" /\ phase' = "reading"
    BY ConsumeType DEF EndMatched
  <1>2. /\ stack \in Seq(OpenTag) /\ Len(stack) \in Nat /\ d \in Nat
    BY LenProperties DEF IInv, TypeOK
  <1>3. diags' \in Seq(Diag)
    <2>1. Unclosed(d + 1, Pos) \in Seq(Diag)
      BY <1>1, <1>2, UnclosedType
    <2> QED
      BY <2>1, ConcatProperties DEF EndMatched, IInv, TypeOK
  <1>4. /\ nodes' \subseteq Element
        /\ \A n \in nodes' : n.start < n.end /\ OrderedWithin(n.children, n.start, n.end)
        /\ root' \subseteq Ref /\ \A r, s \in root' : r = s
        /\ stack' \in Seq(OpenTag)
        /\ Len(stack') = d - 1
        /\ StackNests(stack', Pos + w)
    BY <1>1, CloseDownToNests DEF EndMatched, IInv
  <1>5. TypeOK'
    <2>1. matched' \subseteq Nat
      <3>1. stack[d].start \in Nat
        BY OpenTagType DEF IInv, TypeOK
      <3> QED
        BY <3>1 DEF EndMatched, IInv, TypeOK
    <2> QED
      BY <1>1, <1>3, <1>4, <2>1 DEF EndMatched, IInv, TypeOK
  <1>6. DepthBounded'
    BY <1>2, <1>4, ConstantsOK DEF EndMatched, IInv, DepthBounded
  <1>7. SpansNest'
    BY <1>1, <1>4 DEF SpansNest
  <1> QED
    BY <1>5, <1>6, <1>7 DEF IInv

(* A text inside an over-deep subtree preserves the invariant. *)
LEMMA TextSuppressedStep ==
  ASSUME IInv, NEW w \in Widths, TextSuppressed(w)
  PROVE  IInv'
  <1>1. phase = "reading"
    BY ConsumeType DEF TextSuppressed
  <1> QED
    BY <1>1, TreeUnchanged DEF TextSuppressed, IInv, TypeOK, DepthBounded

(* A run of text within the token that has just been read.                  *)
LEMMA TextEventStep ==
  ASSUME IInv, NEW w \in Widths, Consume(w),
         NEW run \in Run, Pos <= run.start, run.start <= run.end, run.end <= Pos + w,
         NEW more \in Seq(Diag), suppressed = 0, TextEvent(run, more)
  PROVE  IInv'
  <1> DEFINE ref == TextRef(run.start, run.end)
  <1>1. /\ base' \in Nat /\ rpos' \in Nat /\ Pos' <= SourceLen
        /\ Pos \in Nat /\ Pos + w \in Nat /\ Pos' = Pos + w /\ Pos < Pos'
        /\ phase = "reading" /\ phase' = "reading"
    BY ConsumeType
  <1>2. BrokenRunDiags(run) \in Seq(Diag)
    BY PlaceholderType, EmptySeq DEF BrokenRunDiags, IInv
  <1>3. diags' \in Seq(Diag)
    BY <1>2, ConcatProperties DEF TextEvent, IInv, TypeOK
  <1>4. pending' \subseteq Pending /\ \A p, q \in pending' : p = q
    BY PendingType DEF TextEvent, IInv, Run
  <1>5. runs' \in Seq(Run)
    BY AppendProperties DEF TextEvent, IInv, TypeOK
  <1>6. ref \in Ref /\ ref.start = run.start /\ ref.end = run.end
    BY DEF TextRef, Ref, Run
  <1>7. stack' = AttachTo(stack, ref) /\ UNCHANGED <<nodes, root, matched, suppressed>>
    BY DEF TextEvent
  <1>8. stack \in Seq(OpenTag) /\ StackNests(stack, Pos)
    BY <1>1 DEF IInv, TypeOK, SpansNest
  <1> HIDE DEF ref
  <1>9. stack' \in Seq(OpenTag) /\ Len(stack') = Len(stack)
    BY <1>6, <1>7, <1>8, AttachType
  <1>10. StackNests(stack', Pos')
    BY <1>1, <1>6, <1>7, <1>8, AttachNests
  <1>11. TypeOK'
    BY <1>1, <1>3, <1>4, <1>5, <1>7, <1>9 DEF IInv, TypeOK
  <1>12. DepthBounded'
    BY <1>7, <1>9 DEF IInv, DepthBounded
  <1>13. SpansNest'
    BY <1>7, <1>10 DEF IInv, SpansNest
  <1> QED
    BY <1>11, <1>12, <1>13 DEF IInv

(* A text run preserves the invariant. *)
LEMMA TextStep ==
  ASSUME IInv, NEW w \in Widths, NEW mark \in Marks, NEW flaw \in Flaws, Text(w, mark, flaw)
  PROVE  IInv'
  <1>1. Pos \in Nat /\ Pos + w \in Nat /\ w \in Nat /\ flaw \in BOOLEAN
    BY ConsumeType, ConstantsOK DEF Text
  <1> DEFINE run == [start |-> Pos, end |-> Pos + w, mark |-> mark]
  <1>2. run \in Run /\ run.start = Pos /\ run.end = Pos + w
    BY <1>1 DEF Run
  <1>3. EntityDiags(flaw, Pos, Pos + w) \in Seq(Diag)
    BY <1>1, AttrDiagsType
  <1> QED
    BY <1>1, <1>2, <1>3, TextEventStep DEF Text

(* A CDATA section preserves the invariant: its text lies within its        *)
(* delimiters.                                                              *)
LEMMA CDataStep ==
  ASSUME IInv, NEW w \in Widths, NEW mark \in Marks, CData(w, mark)
  PROVE  IInv'
  <1> DEFINE run == [start |-> Pos + CDataOpen, end |-> Pos + w - CDataClose, mark |-> mark]
  <1>1. /\ Pos \in Nat /\ w \in Nat /\ CDataOpen \in Nat /\ CDataClose \in Nat
        /\ w >= CDataOpen + CDataClose
    BY ConsumeType, ConstantsOK DEF CData
  <1>2. /\ run \in Run
        /\ Pos <= run.start /\ run.start <= run.end /\ run.end <= Pos + w
    BY <1>1 DEF Run
  <1>3. <<>> \in Seq(Diag)
    BY EmptySeq
  <1> QED
    BY <1>2, <1>3, TextEventStep DEF CData

(* A comment, PI, declaration or DOCTYPE preserves the invariant. *)
LEMMA IgnoredStep ==
  ASSUME IInv, NEW w \in Widths, Ignored(w)
  PROVE  IInv'
  <1>1. phase = "reading"
    BY ConsumeType DEF Ignored
  <1> QED
    BY <1>1, TreeUnchanged DEF Ignored, IInv, TypeOK, DepthBounded

(* Starting a fresh reader preserves the invariant: it starts further on. *)
LEMMA ResyncStep ==
  ASSUME IInv, NEW skipTo \in 1 .. SourceLen, Resync(skipTo)
  PROVE  IInv'
  <1>1. /\ base' \in Nat /\ rpos' \in Nat /\ Pos' <= SourceLen
        /\ Pos \in Nat /\ Pos' \in Nat /\ Pos < Pos'
        /\ phase = "reading" /\ phase' = "reading"
    BY ConstantsOK DEF Resync, Pos, IInv, TypeOK
  <1>2. TypeOK'
    BY <1>1 DEF Resync, IInv, TypeOK, tree
  <1>3. DepthBounded'
    BY DEF Resync, IInv, DepthBounded, tree
  <1>4. StackNests(stack, Pos')
    BY <1>1, WidenNests DEF IInv, TypeOK, SpansNest
  <1>5. SpansNest'
    BY <1>4 DEF Resync, IInv, SpansNest, tree
  <1> QED
    BY <1>2, <1>3, <1>5 DEF IInv

(* Leaving the loop preserves the invariant: all open tags end with the     *)
(* source.                                                                  *)
LEMMA FinishIInv ==
  ASSUME IInv, phase = "reading", Finish
  PROVE  IInv'
  <1>1. /\ stack \in Seq(OpenTag) /\ Len(stack) \in Nat
        /\ Pos \in Nat /\ Pos <= SourceLen /\ SourceLen \in Nat
    BY LenProperties, ConstantsOK DEF IInv, TypeOK, Pos
  <1>2. diags' \in Seq(Diag)
    <2>1. Unclosed(1, SourceLen) \in Seq(Diag)
      BY <1>1, UnclosedType
    <2> QED
      BY <2>1, PlaceholderType, ConcatProperties DEF Finish, IInv, TypeOK
  <1>3. /\ nodes' \subseteq Element
        /\ \A n \in nodes' : n.start < n.end /\ OrderedWithin(n.children, n.start, n.end)
        /\ root' \subseteq Ref /\ \A r, s \in root' : r = s
        /\ stack' \in Seq(OpenTag) /\ Len(stack') = 0
    <2>1. CASE stack = <<>>
      BY <1>1, <2>1, EmptySeq DEF Finish, tree, IInv, TypeOK, SpansNest
    <2>2. CASE stack # <<>>
      <3>1. 1 \in 1 .. Len(stack) /\ CloseDownTo(1, SourceLen, SourceLen)
        BY <1>1, <2>2, EmptySeq DEF Finish
      <3> QED
        BY <1>1, <3>1, CloseDownToNests DEF IInv
    <2> QED
      BY <2>1, <2>2
  <1>4. TypeOK'
    <2>1. matched' \subseteq Nat
      BY DEF Finish, tree, IInv, TypeOK
    <2> QED
      BY <1>1, <1>2, <1>3, <2>1 DEF Finish, IInv, TypeOK, Pos
  <1>5. DepthBounded'
    BY <1>3, ConstantsOK DEF Finish, DepthBounded
  <1>6. SpansNest'
    BY <1>3 DEF Finish, SpansNest
  <1> QED
    BY <1>4, <1>5, <1>6 DEF IInv

-----------------------------------------------------------------------------
(* Every step of the builder keeps the invariant.                           *)
LEMMA NextIInv == IInv /\ [Next]_vars => IInv'
  <1> SUFFICES ASSUME IInv, [Next]_vars PROVE IInv'
    OBVIOUS
  <1>1. CASE StartEvent
    BY <1>1, StartSuppressedStep, StartAtLimitStep, StartPushStep DEF StartEvent
  <1>2. CASE EmptyEvent
    BY <1>2, EmptySuppressedStep, EmptyAtLimitStep, EmptyPushStep DEF EmptyEvent
  <1>3. CASE EndEvent
    BY <1>3, EndSuppressedStep, EndOrphanStep, EndMatchedStep DEF EndEvent
  <1>4. CASE ContentEvent
    BY <1>4, TextSuppressedStep, TextStep, CDataStep DEF ContentEvent
  <1>5. CASE \E w \in Widths : Ignored(w)
    BY <1>5, IgnoredStep
  <1>6. CASE \E skipTo \in 1 .. SourceLen : Resync(skipTo)
    BY <1>6, ResyncStep
  <1>7. CASE Stuck \/ Eof
    BY <1>7, FinishIInv DEF Stuck, Eof
  <1>8. CASE UNCHANGED vars
    BY <1>8 DEF vars, IInv, TypeOK, DepthBounded, SpansNest, Pos
  <1> QED
    BY <1>1, <1>2, <1>3, <1>4, <1>5, <1>6, <1>7, <1>8 DEF Next

(* build_tree keeps IInv throughout, whatever the source.                   *)
THEOREM Invariance == Spec => []IInv
  BY InitIInv, NextIInv, PTL DEF Spec

(* The variables keep their types.                                          *)
THEOREM TypeCorrect == Spec => []TypeOK
  <1>1. IInv => TypeOK
    BY DEF IInv
  <1> QED
    BY <1>1, Invariance, PTL

(* SB-16: no source, however deep its nesting and however malformed, makes  *)
(* the tree deeper than MAX_TREE_DEPTH.                                     *)
THEOREM DepthIsBounded == Spec => []DepthBounded
  <1>1. IInv => DepthBounded
    BY DEF IInv
  <1> QED
    BY <1>1, Invariance, PTL

(* Invariant #4 of the tree: spans nest and siblings are ordered, through   *)
(* every implicit close and every resynchronisation.                        *)
THEOREM SpansAlwaysNest == Spec => []SpansNest
  <1>1. IInv => SpansNest
    BY DEF IInv
  <1> QED
    BY <1>1, Invariance, PTL
-----------------------------------------------------------------------------
(* A second layer of the invariant, for what is attached to what.           *)

(* The completed elements as references, and who holds which of them: an    *)
(* edge leads from the start of an element, completed or open, to a child.  *)
RefsOf(ns) == {ElementRef(n.start, n.end) : n \in ns}

EdgesFrom(s, children) == {[by |-> s, child |-> c] : c \in ElementChildren(children)}

EdgesOf(ns, stk) ==
  (UNION {EdgesFrom(n.start, n.children) : n \in ns})
    \cup (UNION {EdgesFrom(stk[i].start, stk[i].children) : i \in 1 .. Len(stk)})

(* The tree has one parent for each element, or none for the root and what  *)
(* comes after it; and while there is no root every completed element lies  *)
(* inside the outermost open tag.                                           *)
Whole(R, E, rt, stk) ==
  /\ \A r \in R, i \in 1 .. Len(stk) : r.start # stk[i].start
  /\ \A e \in E : e.child \in R /\ e.child \notin rt
  /\ \A e, f \in E : e.child = f.child => e.by = f.by
  /\ \A r \in R : (\E e \in E : e.child = r) \/ \E q \in rt : q = r \/ q.end <= r.start
  /\ rt \subseteq R
  /\ \A q \in rt, r \in R : q.start <= r.start
  /\ \A q \in rt, i \in 1 .. Len(stk) : q.end <= stk[i].start
  /\ rt = {} /\ stk = <<>> => R = {}
  /\ rt = {} /\ stk # <<>> => \A r \in R : stk[1].start < r.start

(* Among the elements ns, those whose start is not in own are what is       *)
(* reported as unclosed, each with its span, and no start twice.            *)
Reported(ds, ns, own) ==
  /\ \A i \in 1 .. Len(ds) : ds[i].code = "UnclosedTag" =>
       /\ \E n \in ns : n.start \notin own /\ n.start = ds[i].start /\ n.end = ds[i].end
       /\ \A j \in 1 .. Len(ds) :
            ds[j].code = "UnclosedTag" /\ ds[j].start = ds[i].start => j = i
  /\ \A n \in ns : n.start \notin own =>
       \E i \in 1 .. Len(ds) :
         ds[i].code = "UnclosedTag" /\ ds[i].start = n.start /\ ds[i].end = n.end

(* What a tag of its own has closed is a completed element.                 *)
MatchedDone(own, ns) == \A m \in own : \E n \in ns : n.start = m

StartsDistinct(ns) == \A m, n \in ns : m.start = n.start => m = n

WInv ==
  /\ StartsDistinct(nodes)
  /\ phase = "reading" => \A n \in nodes : n.end <= Pos
  /\ Whole(RefsOf(nodes), EdgesOf(nodes, stack), root, stack)
  /\ Reported(diags, nodes, matched)
  /\ MatchedDone(matched, nodes)
  /\ phase = "done" => stack = <<>>

(* Attaching a text adds no edge, attaching an element adds one.            *)
LEMMA EdgesFromAppend ==
  ASSUME NEW s, NEW children \in Seq(Ref), NEW ref \in Ref
  PROVE  EdgesFrom(s, Append(children, ref)) =
           EdgesFrom(s, children)
             \cup (IF ref.kind = "element" THEN {[by |-> s, child |-> ref]} ELSE {})
  <1> DEFINE more == Append(children, ref)
  <1>1. /\ Len(children) \in Nat
        /\ Len(more) = Len(children) + 1
        /\ \A i \in 1 .. Len(children) : more[i] = children[i]
        /\ more[Len(children) + 1] = ref
    BY AppendProperties, LenProperties
  <1> HIDE DEF more
  <1>2. ElementChildren(more) =
          ElementChildren(children) \cup (IF ref.kind = "element" THEN {ref} ELSE {})
    <2>1. ASSUME NEW c \in ElementChildren(more)
          PROVE  c \in ElementChildren(children) \/ (ref.kind = "element" /\ c = ref)
      <3>1. PICK i \in 1 .. Len(more) : more[i].kind = "element" /\ c = more[i]
        BY DEF ElementChildren
      <3>2. CASE i = Len(children) + 1
        BY <1>1, <3>1, <3>2
      <3>3. CASE i \in 1 .. Len(children)
        <4>1. children[i].kind = "element" /\ c = children[i]
          BY <1>1, <3>1, <3>3
        <4>2. i \in {k \in 1 .. Len(children) : children[k].kind = "element"}
          BY <3>3, <4>1
        <4>3. children[i] \in {children[k] : k \in {k \in 1 .. Len(children) :
                                                   children[k].kind = "element"}}
          BY <4>2, Zenon
        <4> QED
          BY <4>1, <4>3 DEF ElementChildren
      <3> QED
        BY <1>1, <3>2, <3>3
    <2>2. ElementChildren(children) \subseteq ElementChildren(more)
      BY <1>1 DEF ElementChildren
    <2>3. ref.kind = "element" => ref \in ElementChildren(more)
      BY <1>1 DEF ElementChildren
    <2> QED
      BY <2>1, <2>2, <2>3
  <1> QED
    BY <1>2 DEF EdgesFrom, more

(* An edge belongs to a completed element or to an open tag.                *)
LEMMA EdgeOf ==
  ASSUME NEW ns, NEW stk, NEW e
  PROVE  e \in EdgesOf(ns, stk) <=>
           \/ \E n \in ns : e \in EdgesFrom(n.start, n.children)
           \/ \E i \in 1 .. Len(stk) : e \in EdgesFrom(stk[i].start, stk[i].children)
  <1>1. e \in UNION {EdgesFrom(n.start, n.children) : n \in ns}
          <=> \E n \in ns : e \in EdgesFrom(n.start, n.children)
    OBVIOUS
  <1>2. e \in UNION {EdgesFrom(stk[i].start, stk[i].children) : i \in 1 .. Len(stk)}
          <=> \E i \in 1 .. Len(stk) : e \in EdgesFrom(stk[i].start, stk[i].children)
    OBVIOUS
  <1> QED
    BY <1>1, <1>2 DEF EdgesOf

(* An element and an open tag without children have no edges.               *)
LEMMA NoEdges ==
  ASSUME NEW s
  PROVE  EdgesFrom(s, <<>>) = {}
  BY DEF EdgesFrom, ElementChildren

(* What attaching a reference does to the edges of the stack: the innermost *)
(* open tag gets it, if it is an element.                                   *)
LEMMA EdgesOfAttach ==
  ASSUME NEW ns, NEW stk \in Seq(OpenTag), NEW ref \in Ref
  PROVE  EdgesOf(ns, AttachTo(stk, ref)) =
           EdgesOf(ns, stk)
             \cup (IF ref.kind = "element" /\ stk # <<>>
                   THEN {[by |-> stk[Len(stk)].start, child |-> ref]} ELSE {})
  <1> DEFINE more == AttachTo(stk, ref)
             new == IF ref.kind = "element" /\ stk # <<>>
                    THEN {[by |-> stk[Len(stk)].start, child |-> ref]} ELSE {}
  <1>1. /\ Len(more) = Len(stk) /\ Len(stk) \in Nat
        /\ \A i \in 1 .. Len(stk) :
             /\ more[i].start = stk[i].start
             /\ more[i].children = IF i = Len(stk) THEN Append(stk[i].children, ref)
                                    ELSE stk[i].children
             /\ stk[i].children \in Seq(Ref)
    BY AttachType, OpenTagType, LenProperties
  <1> HIDE DEF more
  <1>2. ASSUME NEW i \in 1 .. Len(stk), i # Len(stk)
        PROVE  EdgesFrom(more[i].start, more[i].children)
                 = EdgesFrom(stk[i].start, stk[i].children)
    BY <1>1, <1>2
  <1>3. CASE stk = <<>>
    BY <1>3 DEF more, AttachTo
  <1>4. CASE stk # <<>>
    <2> DEFINE n == Len(stk)
    <2>1. n \in 1 .. Len(stk)
      BY <1>1, <1>4, EmptySeq
    <2>2. more[n].start = stk[n].start /\ more[n].children = Append(stk[n].children, ref)
          /\ stk[n].children \in Seq(Ref)
      BY <1>1, <2>1
    <2>3. EdgesFrom(more[n].start, more[n].children)
            = EdgesFrom(stk[n].start, stk[n].children) \cup new
      <3>1. new = IF ref.kind = "element" THEN {[by |-> stk[n].start, child |-> ref]} ELSE {}
        BY <1>4
      <3> HIDE DEF new, n
      <3> QED
        <4>1. EdgesFrom(stk[n].start, Append(stk[n].children, ref))
                = EdgesFrom(stk[n].start, stk[n].children)
                    \cup (IF ref.kind = "element" THEN {[by |-> stk[n].start, child |-> ref]} ELSE {})
          BY <2>2, EdgesFromAppend
        <4> QED
          BY <2>2, <3>1, <4>1
    <2> HIDE DEF new
    <2>4. ASSUME NEW e
          PROVE  e \in EdgesOf(ns, more) <=> e \in EdgesOf(ns, stk) \/ e \in new
      <3>1. (\E i \in 1 .. Len(more) : e \in EdgesFrom(more[i].start, more[i].children))
              <=> \/ \E i \in 1 .. Len(stk) : e \in EdgesFrom(stk[i].start, stk[i].children)
                  \/ e \in new
        <4> HIDE DEF n
        <4>1. n = Len(stk) /\ Len(more) = Len(stk) /\ n \in 1 .. Len(stk)
          BY <1>1, <2>1 DEF n
        <4>2. ASSUME NEW i \in 1 .. Len(stk)
              PROVE  e \in EdgesFrom(more[i].start, more[i].children)
                       <=> \/ e \in EdgesFrom(stk[i].start, stk[i].children)
                           \/ (i = n /\ e \in new)
          <5>1. CASE i = n
            BY <2>3, <5>1
          <5>2. CASE i # n
            BY <1>2, <4>1, <5>2
          <5> QED
            BY <5>1, <5>2
        <4> QED
          BY <4>1, <4>2, Zenon
      <3> QED
        BY <3>1, EdgeOf
    <2> QED
      BY <2>4 DEF new, more
  <1> QED
    BY <1>3, <1>4

(* Opening a tag adds no edge.                                              *)
LEMMA EdgesOfPush ==
  ASSUME NEW ns, NEW stk \in Seq(OpenTag), NEW tag \in OpenTag, tag.children = <<>>
  PROVE  EdgesOf(ns, Append(stk, tag)) = EdgesOf(ns, stk)
  <1> DEFINE more == Append(stk, tag)
  <1>1. /\ Len(stk) \in Nat /\ Len(more) = Len(stk) + 1
        /\ \A i \in 1 .. Len(stk) : more[i] = stk[i]
        /\ more[Len(stk) + 1] = tag
    BY AppendProperties, LenProperties
  <1> HIDE DEF more
  <1>2. EdgesFrom(tag.start, tag.children) = {}
    BY NoEdges
  <1>3. ASSUME NEW e
        PROVE  e \in EdgesOf(ns, more) <=> e \in EdgesOf(ns, stk)
    <2>1. ASSUME NEW i \in 1 .. Len(more), e \in EdgesFrom(more[i].start, more[i].children)
          PROVE  i \in 1 .. Len(stk) /\ more[i] = stk[i]
      BY <1>1, <1>2, <2>1
    <2>2. ASSUME NEW i \in 1 .. Len(stk)
          PROVE  i \in 1 .. Len(more) /\ more[i] = stk[i]
      BY <1>1
    <2> QED
      BY <2>1, <2>2, EdgeOf
  <1> QED
    BY <1>3 DEF more

(* Opening a tag after everything completed keeps the tree whole.           *)
LEMMA PushKeepsWhole ==
  ASSUME NEW R, NEW E, NEW rt, NEW stk \in Seq(OpenTag), NEW tag \in OpenTag,
         Whole(R, E, rt, stk),
         \A r \in R : r.start \in Nat /\ r.end \in Nat /\ r.start < r.end /\ r.end <= tag.start
  PROVE  Whole(R, E, rt, Append(stk, tag))
  <1> DEFINE more == Append(stk, tag)
  <1>1. /\ Len(stk) \in Nat /\ Len(more) = Len(stk) + 1
        /\ \A i \in 1 .. Len(stk) : more[i] = stk[i]
        /\ more[Len(stk) + 1] = tag
        /\ tag.start \in Nat
    BY AppendProperties, LenProperties DEF OpenTag
  <1>2. more # <<>>
    BY <1>1, EmptySeq
  <1> HIDE DEF more
  <1>3. \A i \in 1 .. Len(more) : i \in 1 .. Len(stk) \/ more[i] = tag
    BY <1>1
  <1>4. \A r \in R, i \in 1 .. Len(more) : r.start # more[i].start
    BY <1>1, <1>3 DEF Whole
  <1>5. \A q \in rt, i \in 1 .. Len(more) : q.end <= more[i].start
    BY <1>1, <1>3 DEF Whole
  <1>6. ASSUME rt = {}
        PROVE  \A r \in R : more[1].start < r.start
    <2>1. CASE stk = <<>>
      BY <1>6, <2>1 DEF Whole
    <2>2. CASE stk # <<>>
      <3>1. 1 \in 1 .. Len(stk)
        BY <1>1, <2>2, EmptySeq
      <3> QED
        BY <1>1, <1>6, <2>2, <3>1 DEF Whole
    <2> QED
      BY <2>1, <2>2
  <1>7. Whole(R, E, rt, more)
    BY <1>2, <1>4, <1>5, <1>6 DEF Whole
  <1> QED
    BY <1>7 DEF more

(* The tree (R, E, rt, stk) becomes (R2, E2, rt2, stk2) when the tags from  *)
(* depth d up are closed, the one at depth i becoming the element c[i]: it  *)
(* is held by the tag below it, and the outermost one is the root if there  *)
(* was none.                                                                *)
Closes(R, E, rt, stk, d, c, R2, E2, rt2, stk2) ==
  /\ stk \in Seq(OpenTag) /\ stk2 \in Seq(OpenTag)
  /\ d \in 1 .. Len(stk) /\ Len(stk2) = d - 1
  /\ \A i \in 1 .. d - 1 : stk2[i].start = stk[i].start
  /\ \A i \in d .. Len(stk) : c[i].start = stk[i].start
  /\ rt2 = IF d = 1 /\ rt = {} THEN {c[1]} ELSE rt
  /\ R \subseteq R2 /\ \A i \in d .. Len(stk) : c[i] \in R2
  /\ \A r \in R2 : r \in R \/ \E i \in d .. Len(stk) : r = c[i]
  /\ E \subseteq E2
  /\ \A i \in d .. Len(stk) : i > 1 => [by |-> stk[i - 1].start, child |-> c[i]] \in E2
  /\ \A e \in E2 : e \in E \/ \E i \in d .. Len(stk) :
        i > 1 /\ e = [by |-> stk[i - 1].start, child |-> c[i]]

(* Closing tags keeps the tree whole.                                       *)
LEMMA CloseKeepsWhole ==
  ASSUME NEW R, NEW E, NEW rt, NEW stk, NEW d, NEW c, NEW R2, NEW E2, NEW rt2, NEW stk2,
         Closes(R, E, rt, stk, d, c, R2, E2, rt2, stk2),
         Whole(R, E, rt, stk),
         \A i, j \in 1 .. Len(stk) : i < j => stk[i].start < stk[j].start,
         \A r \in R : r.start \in Nat /\ r.end \in Nat /\ r.start < r.end
  PROVE  Whole(R2, E2, rt2, stk2)
  <1> USE DEF Closes
  <1> DEFINE closed == {c[i] : i \in d .. Len(stk)}
             new == {[by |-> stk[i - 1].start, child |-> c[i]] : i \in {i \in d .. Len(stk) : i > 1}}
  <1>1. /\ Len(stk) \in Nat /\ d \in Nat
        /\ \A i \in 1 .. Len(stk) : stk[i].start \in Nat
        /\ stk # <<>>
        /\ (stk2 = <<>>) <=> (d = 1)
    BY LenProperties, OpenTagType, EmptySeq
  <1>2. ASSUME NEW r \in closed
        PROVE  /\ \E i \in d .. Len(stk) : r = c[i] /\ r.start = stk[i].start
               /\ r \notin R
               /\ r.start \in Nat /\ stk[d].start <= r.start
    <2>1. PICK i \in d .. Len(stk) : r = c[i]
      OBVIOUS
    <2>2. i \in 1 .. Len(stk) /\ r.start = stk[i].start
      BY <1>1, <2>1
    <2>3. stk[d].start <= stk[i].start
      BY <1>1, <2>2
    <2> QED
      BY <1>1, <2>1, <2>2, <2>3 DEF Whole
  <1>3. ASSUME NEW i \in d .. Len(stk), NEW j \in d .. Len(stk), c[i].start = c[j].start
        PROVE  i = j
    <2>1. i \in 1 .. Len(stk) /\ j \in 1 .. Len(stk)
      BY <1>1
    <2>2. c[i].start = stk[i].start /\ c[j].start = stk[j].start
      OBVIOUS
    <2>3. stk[i].start \in Nat /\ stk[j].start \in Nat /\ stk[i].start = stk[j].start
      BY <1>1, <1>3, <2>1, <2>2
    <2>4. ~(i < j) /\ ~(j < i)
      BY <2>1, <2>3
    <2> QED
      BY <2>1, <2>4
  <1>4. ASSUME NEW e \in new
        PROVE  \E i \in d .. Len(stk) : i > 1 /\ e.by = stk[i - 1].start /\ e.child = c[i]
    OBVIOUS
  <1>5. ASSUME NEW i \in d .. Len(stk), i > 1
        PROVE  [by |-> stk[i - 1].start, child |-> c[i]] \in new
    BY <1>5
  <1>6. \A i \in d .. Len(stk) : c[i] \in closed
    OBVIOUS
  <1>7. rt2 = IF d = 1 /\ rt = {} THEN {c[1]} ELSE rt
    OBVIOUS
  <1> HIDE DEF closed, new
  <1>8. rt \subseteq R
    BY DEF Whole
  <1>11. ASSUME NEW r \in R \cup closed, NEW i \in 1 .. Len(stk2)
         PROVE  r.start # stk2[i].start
    <2>1. i \in 1 .. d - 1 /\ i \in 1 .. Len(stk) /\ i < d /\ stk2[i].start = stk[i].start
      BY <1>1
    <2>2. stk[i].start < stk[d].start
      BY <2>1
    <2>3. r \in R => r.start # stk[i].start
      BY <2>1 DEF Whole
    <2>4. r \in closed => r.start # stk[i].start
      BY <1>1, <1>2, <2>1, <2>2
    <2> QED
      BY <2>1, <2>3, <2>4
  <1>12. ASSUME NEW e \in E \cup new
         PROVE  e.child \in R \cup closed /\ e.child \notin rt2
    <2>1. CASE e \in E
      <3>1. e.child \in R /\ e.child \notin rt
        BY <2>1 DEF Whole
      <3>2. d = 1 => c[1] \in closed
        BY <1>1, <1>6
      <3> QED
        BY <1>2, <1>7, <3>1, <3>2
    <2>2. CASE e \in new
      <3>1. PICK i \in d .. Len(stk) : i > 1 /\ e.child = c[i]
        BY <1>4, <2>2
      <3>2. c[i] \in closed /\ c[i] \notin rt
        BY <1>2, <1>6, <1>8
      <3>3. d = 1 => 1 \in d .. Len(stk)
        BY <1>1
      <3>4. d = 1 => c[i] # c[1]
        BY <1>3, <3>1, <3>3
      <3> QED
        BY <1>7, <3>1, <3>2, <3>4
    <2> QED
      BY <2>1, <2>2
  <1>13. ASSUME NEW e \in E \cup new, NEW f \in E \cup new, e.child = f.child
         PROVE  e.by = f.by
    <2>1. \A g \in E : g.child \in R
      BY DEF Whole
    <2>2. \A g \in new : g.child \notin R
      BY <1>2, <1>4, <1>6
    <2>3. CASE e \in E
      BY <1>13, <2>1, <2>2, <2>3 DEF Whole
    <2>4. CASE e \in new
      <3>1. f \in new
        BY <1>13, <2>1, <2>2, <2>4
      <3>2. PICK i \in d .. Len(stk) : e.by = stk[i - 1].start /\ e.child = c[i]
        BY <1>4, <2>4
      <3>3. PICK j \in d .. Len(stk) : f.by = stk[j - 1].start /\ f.child = c[j]
        BY <1>4, <3>1
      <3>4. i = j
        BY <1>3, <1>13, <3>2, <3>3
      <3> QED
        BY <3>2, <3>3, <3>4
    <2> QED
      BY <2>3, <2>4
  <1>14. ASSUME NEW r \in R \cup closed
         PROVE  (\E e \in E \cup new : e.child = r) \/ \E q \in rt2 : q = r \/ q.end <= r.start
    <2>1. CASE r \in R
      <3>1. rt = {} \/ rt2 = rt
        BY <1>7
      <3> QED
        BY <2>1, <3>1 DEF Whole
    <2>2. CASE r \in closed
      <3>1. PICK i \in d .. Len(stk) : r = c[i] /\ r.start = stk[i].start
        BY <1>2, <2>2
      <3>2. CASE i > 1
        <4> DEFINE e == [by |-> stk[i - 1].start, child |-> c[i]]
        <4>1. e \in new /\ e.child = c[i]
          BY <1>5, <3>2
        <4> QED
          BY <3>1, <4>1
      <3>3. CASE ~ (i > 1)
        <4>1. i = 1 /\ d = 1
          BY <1>1, <3>3
        <4>2. CASE rt = {}
          BY <1>7, <3>1, <4>1, <4>2
        <4>3. CASE rt # {}
          BY <1>1, <1>7, <3>1, <4>1, <4>3 DEF Whole
        <4> QED
          BY <4>2, <4>3
      <3> QED
        BY <3>2, <3>3
    <2> QED
      BY <2>1, <2>2
  <1>15. rt2 \subseteq R \cup closed
    <2>1. d = 1 => c[1] \in closed
      BY <1>1, <1>6
    <2> QED
      BY <1>7, <1>8, <2>1
  <1>16. ASSUME NEW q \in rt2, NEW r \in R \cup closed
         PROVE  q.start <= r.start
    <2>1. CASE q \in rt
      <3>1. r \in R => q.start <= r.start
        BY <2>1 DEF Whole
      <3>2. q.start \in Nat /\ q.end \in Nat /\ q.start < q.end /\ q.end <= stk[d].start
        BY <1>8, <2>1 DEF Whole
      <3>3. r \in closed => q.start <= r.start
        BY <1>1, <1>2, <3>2
      <3> QED
        BY <3>1, <3>3
    <2>2. CASE q \notin rt
      <3>1. d = 1 /\ rt = {} /\ q = c[1] /\ 1 \in d .. Len(stk)
        BY <1>1, <1>7, <2>2
      <3>2. q.start = stk[1].start
        BY <3>1
      <3>3. r \in R => q.start <= r.start
        BY <1>1, <3>1, <3>2 DEF Whole
      <3>4. r \in closed => q.start <= r.start
        BY <1>2, <3>1, <3>2
      <3> QED
        BY <3>3, <3>4
    <2> QED
      BY <2>1, <2>2
  <1>17. ASSUME NEW q \in rt2, NEW i \in 1 .. Len(stk2)
         PROVE  q.end <= stk2[i].start
    <2>1. i \in 1 .. d - 1 /\ i \in 1 .. Len(stk) /\ d # 1 /\ stk2[i].start = stk[i].start
      BY <1>1
    <2> QED
      BY <1>7, <2>1 DEF Whole
  <1>18. rt2 = {} /\ stk2 = <<>> => R \cup closed = {}
    BY <1>1, <1>7
  <1>19. ASSUME rt2 = {}, stk2 # <<>>, NEW r \in R \cup closed
         PROVE  stk2[1].start < r.start
    <2>1. rt = {} /\ d > 1 /\ 1 \in 1 .. d - 1 /\ stk2[1].start = stk[1].start
          /\ stk[1].start < stk[d].start
      BY <1>1, <1>7, <1>19
    <2>2. r \in R => stk[1].start < r.start
      BY <1>1, <2>1 DEF Whole
    <2>3. r \in closed => stk[1].start < r.start
      <3>1. r \in closed => r.start \in Nat /\ stk[d].start <= r.start
        BY <1>2
      <3>2. stk[1].start \in Nat /\ stk[d].start \in Nat
        BY <1>1, <2>1
      <3> QED
        BY ONLY <2>1, <3>1, <3>2
    <2> QED
      BY <2>1, <2>2, <2>3
  <1>20. Whole(R \cup closed, E \cup new, rt2, stk2)
    BY <1>11, <1>12, <1>13, <1>14, <1>15, <1>16, <1>17, <1>18, <1>19 DEF Whole
  <1>21. R2 = R \cup closed
    BY DEF closed
  <1>22. E2 = E \cup new
    BY DEF new
  <1> QED
    BY <1>20, <1>21, <1>22

-----------------------------------------------------------------------------
(* The steps that change the tree.                                          *)

(* The reference to the open tag at depth i when those from d up are closed.*)
Ended(i, d, cs, ce) == ElementRef(stack[i].start, IF i = d THEN ce ELSE cs)

(* The references to completed elements are spans of some length.           *)
LEMMA RefsType ==
  ASSUME IInv, NEW r \in RefsOf(nodes)
  PROVE  r.start \in Nat /\ r.end \in Nat /\ r.start < r.end
  <1>1. PICK n \in nodes : r = ElementRef(n.start, n.end)
    BY DEF RefsOf
  <1>2. n.start \in Nat /\ n.end \in Nat /\ n.start < n.end
    BY DEF IInv, TypeOK, SpansNest, Element
  <1> QED
    BY <1>1, <1>2 DEF ElementRef

(* Closing the tags from depth d up completes one element for each of them  *)
LEMMA RefsOfClose ==
  ASSUME NEW d, NEW cs, NEW ce, CloseDownTo(d, cs, ce)
  PROVE  RefsOf(nodes') = RefsOf(nodes) \cup {Ended(i, d, cs, ce) : i \in d .. Len(stack)}
  <1>1. \A i \in d .. Len(stack) :
          /\ Closed(i, d, cs, ce).start = stack[i].start
          /\ Closed(i, d, cs, ce).end = IF i = d THEN ce ELSE cs
    BY DEF Closed
  <1>2. nodes' = nodes \cup {Closed(i, d, cs, ce) : i \in d .. Len(stack)}
    BY DEF CloseDownTo
  <1>3. ASSUME NEW r \in RefsOf(nodes')
        PROVE  r \in RefsOf(nodes) \cup {Ended(i, d, cs, ce) : i \in d .. Len(stack)}
    <2>1. PICK n \in nodes' : r = ElementRef(n.start, n.end)
      BY DEF RefsOf
    <2>2. CASE n \in nodes
      BY <2>1, <2>2 DEF RefsOf
    <2>3. CASE n \notin nodes
      <3>1. PICK i \in d .. Len(stack) : n = Closed(i, d, cs, ce)
        BY <1>2, <2>3
      <3> QED
        BY <1>1, <2>1, <3>1 DEF Ended
    <2> QED
      BY <2>2, <2>3
  <1>4. ASSUME NEW i \in d .. Len(stack)
        PROVE  Ended(i, d, cs, ce) \in RefsOf(nodes')
    <2>1. Closed(i, d, cs, ce) \in nodes'
      BY <1>2
    <2> QED
      BY <1>1, <2>1 DEF Ended, RefsOf
  <1>5. RefsOf(nodes) \subseteq RefsOf(nodes')
    BY <1>2 DEF RefsOf
  <1> QED
    BY <1>3, <1>4, <1>5

(* ... and hands each to the tag below it, if there is one.                 *)
LEMMA EdgesOfClose ==
  ASSUME IInv, phase = "reading", NEW d \in 1 .. Len(stack), NEW cs \in Nat, NEW ce \in Nat,
         CloseDownTo(d, cs, ce)
  PROVE  EdgesOf(nodes', stack') =
           EdgesOf(nodes, stack)
             \cup {[by |-> stack[i - 1].start, child |-> Ended(i, d, cs, ce)] :
                     i \in {i \in d .. Len(stack) : i > 1}}
  <1> DEFINE new == {[by |-> stack[i - 1].start, child |-> Ended(i, d, cs, ce)] :
                       i \in {i \in d .. Len(stack) : i > 1}}
             edge(i) == [by |-> stack[i - 1].start, child |-> Ended(i, d, cs, ce)]
             held(i) == EdgesFrom(stack[i].start, stack[i].children)
             freed(i) == EdgesFrom(Closed(i, d, cs, ce).start, Closed(i, d, cs, ce).children)
             below == SubSeq(stack, 1, d - 1)
             ref == ElementRef(stack[d].start, ce)
  <1>1. /\ stack \in Seq(OpenTag) /\ Len(stack) \in Nat /\ d \in Nat
        /\ d - 1 \in 0 .. Len(stack)
        /\ \A i \in 1 .. Len(stack) : stack[i].start \in Nat /\ stack[i].children \in Seq(Ref)
    <2>1. stack \in Seq(OpenTag) /\ Len(stack) \in Nat /\ d \in Nat
      BY LenProperties DEF IInv, TypeOK
    <2> QED
      BY <2>1, OpenTagType
  <1>2. \A i \in 1 .. Len(stack) :
          /\ Ended(i, d, cs, ce) \in Ref
          /\ Ended(i, d, cs, ce).kind = "element"
    BY <1>1 DEF Ended, ElementRef, Ref
  <1>3. ref = Ended(d, d, cs, ce) /\ ref \in Ref /\ ref.kind = "element"
    BY <1>1 DEF Ended, ElementRef, Ref
  <1>4. below \in Seq(OpenTag) /\ Len(below) = d - 1
        /\ \A i \in 1 .. d - 1 : below[i] = stack[i]
    BY <1>1, PrefixType
  <1>5. \A i \in {i \in d .. Len(stack) : i > 1} : edge(i) \in new
    OBVIOUS
  <1>6. \A e \in new : \E i \in d .. Len(stack) : i > 1 /\ e = edge(i)
    OBVIOUS
  <1>7. /\ nodes' = nodes \cup {Closed(i, d, cs, ce) : i \in d .. Len(stack)}
        /\ stack' = AttachTo(below, ref)
    BY DEF CloseDownTo
  <1>8. ASSUME NEW i \in d .. Len(stack)
        PROVE  freed(i) = held(i) \cup (IF i = Len(stack) THEN {} ELSE {edge(i + 1)})
    <2>1. CASE i = Len(stack)
      BY <2>1 DEF Closed
    <2>2. CASE i # Len(stack)
      <3>1. i \in 1 .. Len(stack) /\ i + 1 \in 1 .. Len(stack) /\ i + 1 # d /\ (i + 1) - 1 = i
        BY <1>1, <2>2
      <3> DEFINE next == Ended(i + 1, d, cs, ce)
      <3>2. next = ElementRef(stack[i + 1].start, cs) /\ next \in Ref /\ next.kind = "element"
        BY <1>2, <3>1 DEF Ended
      <3> HIDE DEF next
      <3>3. /\ Closed(i, d, cs, ce).start = stack[i].start
            /\ Closed(i, d, cs, ce).children = Append(stack[i].children, next)
        BY <2>2, <3>2 DEF Closed
      <3>4. EdgesFrom(stack[i].start, Append(stack[i].children, next))
              = held(i) \cup {[by |-> stack[i].start, child |-> next]}
        BY <1>1, <3>1, <3>2, EdgesFromAppend
      <3>5. edge(i + 1) = [by |-> stack[i].start, child |-> next]
        BY <3>1 DEF next
      <3> QED
        BY <2>2, <3>3, <3>4, <3>5
    <2> QED
      BY <2>1, <2>2
  <1>9. EdgesOf({}, stack') = EdgesOf({}, below) \cup (IF d > 1 THEN {edge(d)} ELSE {})
    <2> HIDE DEF below, ref
    <2>1. (below # <<>>) <=> (d > 1)
      BY <1>1, <1>4, EmptySeq
    <2>2. d > 1 => [by |-> below[Len(below)].start, child |-> ref] = edge(d)
      BY <1>1, <1>3, <1>4
    <2> HIDE DEF edge
    <2>3. EdgesOf({}, AttachTo(below, ref)) =
            EdgesOf({}, below)
              \cup (IF ref.kind = "element" /\ below # <<>>
                    THEN {[by |-> below[Len(below)].start, child |-> ref]} ELSE {})
      <3>1. below \in Seq(OpenTag) /\ ref \in Ref
        BY <1>3, <1>4
      <3> QED
        BY ONLY <3>1, EdgesOfAttach
    <2>4. CASE d > 1
      BY <1>3, <1>7, <2>1, <2>2, <2>3, <2>4
    <2>5. CASE ~ (d > 1)
      BY <1>7, <2>1, <2>3, <2>5
    <2> QED
      BY <2>4, <2>5
  <1> HIDE DEF edge, new, held, freed, below, ref
  <1>10. ASSUME NEW e
         PROVE  e \in EdgesOf(nodes, stack) <=>
                  \/ \E n \in nodes : e \in EdgesFrom(n.start, n.children)
                  \/ \E i \in 1 .. Len(stack) : e \in held(i)
    BY EdgeOf DEF held
  <1>11. ASSUME NEW e
         PROVE  e \in EdgesOf(nodes', stack') <=>
                  \/ \E n \in nodes : e \in EdgesFrom(n.start, n.children)
                  \/ \E i \in d .. Len(stack) : e \in freed(i)
                  \/ \E i \in 1 .. d - 1 : e \in held(i)
                  \/ (d > 1 /\ e = edge(d))
    <2>1. e \in EdgesOf({}, below) <=> \E i \in 1 .. d - 1 : e \in held(i)
      <3>1. e \in EdgesOf({}, below) <=> \E i \in 1 .. d - 1 :
              e \in EdgesFrom(below[i].start, below[i].children)
        BY <1>4, EdgeOf
      <3>2. \A i \in 1 .. d - 1 : EdgesFrom(below[i].start, below[i].children) = held(i)
        BY <1>4 DEF held
      <3> QED
        BY <3>1, <3>2
    <2>2. (\E n \in nodes' : e \in EdgesFrom(n.start, n.children)) <=>
            \/ \E n \in nodes : e \in EdgesFrom(n.start, n.children)
            \/ \E i \in d .. Len(stack) : e \in freed(i)
      BY <1>7 DEF freed
    <2>3. e \in EdgesOf(nodes', stack') <=>
            \/ \E n \in nodes' : e \in EdgesFrom(n.start, n.children)
            \/ e \in EdgesOf({}, stack')
      BY EdgeOf
    <2> QED
      BY <1>9, <2>1, <2>2, <2>3
  <1>12. ASSUME NEW e \in EdgesOf(nodes', stack')
         PROVE  e \in EdgesOf(nodes, stack) \/ e \in new
    <2>1. CASE \E n \in nodes : e \in EdgesFrom(n.start, n.children)
      BY <1>10, <2>1
    <2>2. CASE \E i \in 1 .. d - 1 : e \in held(i)
      <3>1. \A i \in 1 .. d - 1 : i \in 1 .. Len(stack)
        BY <1>1
      <3> QED
        BY <1>10, <2>2, <3>1
    <2>3. CASE d > 1 /\ e = edge(d)
      BY <1>1, <1>5, <2>3
    <2>4. CASE \E i \in d .. Len(stack) : e \in freed(i)
      <3>1. PICK i \in d .. Len(stack) : e \in freed(i)
        BY <2>4
      <3>2. i \in 1 .. Len(stack) /\ (i # Len(stack) => i + 1 \in {k \in d .. Len(stack) : k > 1})
        BY <1>1
      <3>3. CASE e \in held(i)
        BY <1>10, <3>2, <3>3
      <3>4. CASE e \notin held(i)
        <4>1. i # Len(stack) /\ e = edge(i + 1)
          BY <1>8, <3>1, <3>4
        <4> QED
          BY <1>5, <3>2, <4>1
      <3> QED
        BY <3>3, <3>4
    <2> QED
      BY <1>11, <2>1, <2>2, <2>3, <2>4
  <1>13. ASSUME NEW e \in EdgesOf(nodes, stack)
         PROVE  e \in EdgesOf(nodes', stack')
    <2>1. CASE \E n \in nodes : e \in EdgesFrom(n.start, n.children)
      BY <1>11, <2>1
    <2>2. CASE \E i \in 1 .. Len(stack) : e \in held(i)
      <3>1. PICK i \in 1 .. Len(stack) : e \in held(i)
        BY <2>2
      <3>2. i \in 1 .. d - 1 \/ i \in d .. Len(stack)
        BY <1>1
      <3>3. i \in d .. Len(stack) => e \in freed(i)
        BY <1>8, <3>1
      <3> QED
        BY <1>11, <3>1, <3>2, <3>3
    <2> QED
      BY <1>10, <2>1, <2>2
  <1>14. ASSUME NEW e \in new
         PROVE  e \in EdgesOf(nodes', stack')
    <2>1. PICK i \in d .. Len(stack) : i > 1 /\ e = edge(i)
      BY <1>6
    <2>2. CASE i = d
      BY <1>11, <2>1, <2>2
    <2>3. CASE i # d
      <3>1. i - 1 \in d .. Len(stack) /\ i - 1 # Len(stack) /\ (i - 1) + 1 = i
        BY <1>1, <2>1, <2>3
      <3>2. e \in freed(i - 1)
        BY <1>8, <2>1, <3>1
      <3> QED
        BY <1>11, <3>1, <3>2
    <2> QED
      BY <2>2, <2>3
  <1>15. EdgesOf(nodes', stack') = EdgesOf(nodes, stack) \cup new
    BY <1>12, <1>13, <1>14
  <1> QED
    BY <1>15 DEF new

(* Closing the open tags from depth d up keeps the completed elements apart *)
(* and the tree whole.                                                      *)
LEMMA CloseDownToWhole ==
  ASSUME IInv, WInv, phase = "reading",
         NEW d \in 1 .. Len(stack), NEW cs \in Nat, NEW ce \in Nat, Pos <= cs, cs <= ce,
         CloseDownTo(d, cs, ce)
  PROVE  /\ StartsDistinct(nodes')
         /\ \A n \in nodes' : n.end <= ce
         /\ Whole(RefsOf(nodes'), EdgesOf(nodes', stack'), root', stack')
  <1> DEFINE below == SubSeq(stack, 1, d - 1)
             ref == ElementRef(stack[d].start, ce)
             c == [i \in d .. Len(stack) |-> Ended(i, d, cs, ce)]
  <1>1. /\ stack \in Seq(OpenTag) /\ Len(stack) \in Nat /\ Pos \in Nat /\ d \in Nat
        /\ d - 1 \in 0 .. Len(stack)
    BY LenProperties DEF IInv, TypeOK, Pos
  <1>2. \A i \in 1 .. Len(stack) : stack[i].start \in Nat
    BY <1>1, OpenTagType
  <1>3. \A i, j \in 1 .. Len(stack) : i < j => stack[i].start < stack[j].start
    BY DEF IInv, SpansNest, StackNests
  <1>4. \A n \in nodes, i \in 1 .. Len(stack) : n.start # stack[i].start
    <2>1. \A n \in nodes : ElementRef(n.start, n.end) \in RefsOf(nodes)
      BY DEF RefsOf
    <2>2. \A n \in nodes, i \in 1 .. Len(stack) :
            ElementRef(n.start, n.end).start # stack[i].start
      BY <2>1 DEF WInv, Whole
    <2> QED
      BY <2>2 DEF ElementRef
  <1>5. /\ nodes' = nodes \cup {Closed(i, d, cs, ce) : i \in d .. Len(stack)}
        /\ stack' = AttachTo(below, ref)
        /\ root' = RootAfter(below, ref)
    BY DEF CloseDownTo
  <1>6. ASSUME NEW n \in nodes', n \notin nodes
        PROVE  \E i \in d .. Len(stack) : /\ n = Closed(i, d, cs, ce)
                                          /\ i \in 1 .. Len(stack)
                                          /\ n.start = stack[i].start
                                          /\ n.end = IF i = d THEN ce ELSE cs
    <2>1. PICK i \in d .. Len(stack) : n = Closed(i, d, cs, ce)
      BY <1>5, <1>6
    <2>2. i \in 1 .. Len(stack)
      BY <1>1
    <2> QED
      BY <2>1, <2>2 DEF Closed
  <1>7. StartsDistinct(nodes')
    <2>1. SUFFICES ASSUME NEW m \in nodes', NEW n \in nodes', m.start = n.start
                   PROVE  m = n
      BY DEF StartsDistinct
    <2>2. CASE m \in nodes /\ n \in nodes
      BY <2>1, <2>2 DEF WInv, StartsDistinct
    <2>3. CASE m \in nodes /\ n \notin nodes
      BY <1>4, <1>6, <2>1, <2>3
    <2>4. CASE m \notin nodes /\ n \in nodes
      BY <1>4, <1>6, <2>1, <2>4
    <2>5. CASE m \notin nodes /\ n \notin nodes
      <3>1. PICK i \in d .. Len(stack) :
              m = Closed(i, d, cs, ce) /\ i \in 1 .. Len(stack) /\ m.start = stack[i].start
        BY <1>6, <2>5
      <3>2. PICK j \in d .. Len(stack) :
              n = Closed(j, d, cs, ce) /\ j \in 1 .. Len(stack) /\ n.start = stack[j].start
        BY <1>6, <2>5
      <3>3. ~ (i < j) /\ ~ (j < i)
        BY <1>2, <1>3, <2>1, <3>1, <3>2
      <3>4. i = j
        BY <1>1, <3>1, <3>2, <3>3
      <3> QED
        BY <3>1, <3>2, <3>4
    <2> QED
      BY <2>2, <2>3, <2>4, <2>5
  <1>8. ASSUME NEW n \in nodes'
        PROVE  n.end <= ce
    <2>1. CASE n \in nodes
      <3>1. n.end \in Nat /\ n.end <= Pos
        BY <2>1 DEF WInv, IInv, TypeOK, Element
      <3> QED
        BY <1>1, <3>1
    <2>2. CASE n \notin nodes
      BY <1>6, <2>2
    <2> QED
      BY <2>1, <2>2
  <1>9. Whole(RefsOf(nodes'), EdgesOf(nodes', stack'), root', stack')
    <2>1. below \in Seq(OpenTag) /\ Len(below) = d - 1
          /\ \A i \in 1 .. d - 1 : below[i] = stack[i]
      BY <1>1, PrefixType
    <2>2. ref \in Ref
      BY <1>2 DEF ElementRef, Ref
    <2>3. /\ stack' \in Seq(OpenTag) /\ Len(stack') = d - 1
          /\ \A i \in 1 .. d - 1 : stack'[i].start = stack[i].start
      <3> HIDE DEF below, ref
      <3> QED
        BY <1>5, <2>1, <2>2, AttachType
    <2>4. root' = IF d = 1 /\ root = {} THEN {c[1]} ELSE root
      <3>1. (below = <<>>) <=> (d = 1)
        <4> HIDE DEF below
        <4> QED
          BY <1>1, <2>1, EmptySeq
      <3>2. d = 1 => c[1] = ref
        BY <1>1 DEF Ended
      <3> HIDE DEF below, ref, c
      <3> QED
        BY <1>5, <3>1, <3>2 DEF RootAfter
    <2>5. \A i \in d .. Len(stack) : c[i] = Ended(i, d, cs, ce) /\ c[i].start = stack[i].start
      BY DEF Ended, ElementRef
    <2> HIDE DEF c
    <2>6. RefsOf(nodes') = RefsOf(nodes) \cup {c[i] : i \in d .. Len(stack)}
      BY <2>5, RefsOfClose
    <2>7. EdgesOf(nodes', stack') =
            EdgesOf(nodes, stack)
              \cup {[by |-> stack[i - 1].start, child |-> c[i]] : i \in {i \in d .. Len(stack) : i > 1}}
      <3>1. {[by |-> stack[i - 1].start, child |-> c[i]] : i \in {i \in d .. Len(stack) : i > 1}}
              = {[by |-> stack[i - 1].start, child |-> Ended(i, d, cs, ce)] :
                    i \in {i \in d .. Len(stack) : i > 1}}
        BY <2>5
      <3> QED
        BY <3>1, EdgesOfClose
    <2>8. \A r \in RefsOf(nodes) : r.start \in Nat /\ r.end \in Nat /\ r.start < r.end
      BY RefsType
    <2>9. Whole(RefsOf(nodes), EdgesOf(nodes, stack), root, stack)
      BY DEF WInv
    <2> QED
      <3> DEFINE R == RefsOf(nodes)
                 E == EdgesOf(nodes, stack)
                 R2 == RefsOf(nodes')
                 E2 == EdgesOf(nodes', stack')
      <3>1. /\ R \subseteq R2
            /\ \A i \in d .. Len(stack) : c[i] \in R2
            /\ \A r \in R2 : r \in R \/ \E i \in d .. Len(stack) : r = c[i]
        BY <2>6
      <3>2. /\ E \subseteq E2
            /\ \A i \in d .. Len(stack) :
                 i > 1 => [by |-> stack[i - 1].start, child |-> c[i]] \in E2
            /\ \A e \in E2 : e \in E \/ \E i \in d .. Len(stack) :
                 i > 1 /\ e = [by |-> stack[i - 1].start, child |-> c[i]]
        BY <2>7
      <3> HIDE DEF R, E, R2, E2
      <3>3. Closes(R, E, root, stack, d, c, R2, E2, root', stack')
        BY <1>1, <2>3, <2>4, <2>5, <3>1, <3>2 DEF Closes
      <3>4. Whole(R, E, root, stack)
        BY <2>9 DEF R, E
      <3>5. \A r \in R : r.start \in Nat /\ r.end \in Nat /\ r.start < r.end
        BY <2>8 DEF R
      <3>6. Whole(R2, E2, root', stack')
        BY ONLY <1>3, <3>3, <3>4, <3>5, CloseKeepsWhole
      <3> QED
        BY <3>6 DEF R2, E2
  <1> QED
    BY <1>7, <1>8, <1>9

-----------------------------------------------------------------------------
(* What is said of tags that were never closed.                             *)

(* More diagnostics keep the elements that no tag of their own has closed   *)
(* reported once if those that report one are the ones just completed.      *)
LEMMA ReportedConcat ==
  ASSUME NEW a \in Seq(Diag), NEW b \in Seq(Diag), NEW ns, NEW ns2, ns \subseteq ns2,
         NEW own, NEW own2,
         \A n \in ns : n.start \in own2 <=> n.start \in own,
         Reported(a, ns, own),
         \A k \in 1 .. Len(b) : b[k].code = "UnclosedTag" =>
            /\ \E n \in ns2 : n.start \notin own2 /\ n.start = b[k].start /\ n.end = b[k].end
            /\ \A n \in ns : n.start # b[k].start,
         \A j, k \in 1 .. Len(b) :
            b[j].code = "UnclosedTag" /\ b[k].code = "UnclosedTag" /\ b[j].start = b[k].start => j = k,
         \A n \in ns2 : n \notin ns /\ n.start \notin own2 =>
            \E k \in 1 .. Len(b) :
              b[k].code = "UnclosedTag" /\ b[k].start = n.start /\ b[k].end = n.end
  PROVE  Reported(a \o b, ns2, own2)
  <1> DEFINE ab == a \o b
  <1>1. /\ Len(a) \in Nat /\ Len(b) \in Nat /\ Len(ab) = Len(a) + Len(b)
        /\ \A i \in 1 .. Len(a) : ab[i] = a[i]
        /\ \A i \in Len(a) + 1 .. Len(ab) : i - Len(a) \in 1 .. Len(b) /\ ab[i] = b[i - Len(a)]
        /\ \A k \in 1 .. Len(b) : k + Len(a) \in Len(a) + 1 .. Len(ab) /\ ab[k + Len(a)] = b[k]
    <2>1. /\ Len(a) \in Nat /\ Len(b) \in Nat /\ Len(ab) = Len(a) + Len(b)
          /\ \A i \in 1 .. Len(a) : ab[i] = a[i]
          /\ \A i \in Len(a) + 1 .. Len(ab) : i - Len(a) \in 1 .. Len(b) /\ ab[i] = b[i - Len(a)]
      BY LenProperties, ConcatProperties
    <2> HIDE DEF ab
    <2>2. ASSUME NEW k \in 1 .. Len(b)
          PROVE  k + Len(a) \in Len(a) + 1 .. Len(ab) /\ ab[k + Len(a)] = b[k]
      <3>1. k + Len(a) \in Len(a) + 1 .. Len(ab) /\ (k + Len(a)) - Len(a) = k
        BY <2>1
      <3> QED
        BY <2>1, <3>1
    <2> QED
      BY <2>1, <2>2
  <1> HIDE DEF ab
  <1>2. ASSUME NEW i \in 1 .. Len(ab)
        PROVE  i \in 1 .. Len(a) \/ i \in Len(a) + 1 .. Len(ab)
    BY <1>1
  <1>3. ASSUME NEW i \in 1 .. Len(ab), ab[i].code = "UnclosedTag"
        PROVE  \E n \in ns2 : n.start \notin own2 /\ n.start = ab[i].start /\ n.end = ab[i].end
    <2>1. CASE i \in 1 .. Len(a)
      <3>1. a[i].code = "UnclosedTag" /\ ab[i] = a[i]
        BY <1>1, <1>3, <2>1
      <3>2. PICK n \in ns : n.start \notin own /\ n.start = a[i].start /\ n.end = a[i].end
        BY <2>1, <3>1 DEF Reported
      <3>3. n \in ns2 /\ n.start \notin own2
        BY <3>2
      <3> QED
        BY <3>1, <3>2, <3>3
    <2>2. CASE i \in Len(a) + 1 .. Len(ab)
      <3>1. i - Len(a) \in 1 .. Len(b) /\ ab[i] = b[i - Len(a)]
        BY <1>1, <2>2
      <3>2. b[i - Len(a)].code = "UnclosedTag"
        BY <1>3, <3>1
      <3> QED
        BY <3>1, <3>2
    <2> QED
      BY <1>2, <2>1, <2>2
  <1>4. ASSUME NEW i \in 1 .. Len(a), NEW j \in Len(a) + 1 .. Len(ab),
               ab[i].code = "UnclosedTag", ab[j].code = "UnclosedTag"
        PROVE  ab[i].start # ab[j].start
    <2>1. ab[i] = a[i] /\ a[i].code = "UnclosedTag"
      BY <1>1, <1>4
    <2>2. \E n \in ns : n.start = a[i].start
      BY <2>1 DEF Reported
    <2>3. ab[j] = b[j - Len(a)] /\ j - Len(a) \in 1 .. Len(b)
      BY <1>1, <1>4
    <2>4. b[j - Len(a)].code = "UnclosedTag"
      BY <1>4, <2>3
    <2>5. \A n \in ns : n.start # b[j - Len(a)].start
      BY <2>3, <2>4
    <2> QED
      BY <2>1, <2>2, <2>3, <2>5
  <1>5. ASSUME NEW i \in 1 .. Len(ab), NEW j \in 1 .. Len(ab),
               ab[i].code = "UnclosedTag", ab[j].code = "UnclosedTag", ab[j].start = ab[i].start
        PROVE  j = i
    <2>1. CASE i \in 1 .. Len(a) /\ j \in 1 .. Len(a)
      BY <1>1, <1>5, <2>1 DEF Reported
    <2>2. CASE i \in Len(a) + 1 .. Len(ab) /\ j \in Len(a) + 1 .. Len(ab)
      <3>1. /\ i - Len(a) \in 1 .. Len(b) /\ ab[i] = b[i - Len(a)]
            /\ j - Len(a) \in 1 .. Len(b) /\ ab[j] = b[j - Len(a)]
        BY <1>1, <2>2
      <3>2. i - Len(a) = j - Len(a)
        BY <1>5, <3>1
      <3> QED
        BY <1>1, <2>2, <3>2
    <2> QED
      BY <1>2, <1>4, <1>5, <2>1, <2>2
  <1>6. ASSUME NEW n \in ns2, n.start \notin own2
        PROVE  \E i \in 1 .. Len(ab) :
                 ab[i].code = "UnclosedTag" /\ ab[i].start = n.start /\ ab[i].end = n.end
    <2>1. CASE n \in ns
      <3>1. PICK i \in 1 .. Len(a) :
              a[i].code = "UnclosedTag" /\ a[i].start = n.start /\ a[i].end = n.end
        BY <1>6, <2>1 DEF Reported
      <3>2. i \in 1 .. Len(ab) /\ ab[i] = a[i]
        BY <1>1
      <3> QED
        BY <3>1, <3>2
    <2>2. CASE n \notin ns
      <3>1. PICK k \in 1 .. Len(b) :
              b[k].code = "UnclosedTag" /\ b[k].start = n.start /\ b[k].end = n.end
        BY <1>6, <2>2
      <3>2. k + Len(a) \in 1 .. Len(ab) /\ ab[k + Len(a)] = b[k]
        BY <1>1
      <3> QED
        BY <3>1, <3>2
    <2> QED
      BY <2>1, <2>2
  <1>7. Reported(ab, ns2, own2)
    BY <1>3, <1>5, <1>6 DEF Reported
  <1> QED
    BY <1>7 DEF ab

(* Diagnostics that report no unclosed tag.                                 *)
Silent(ds) == \A k \in 1 .. Len(ds) : ds[k].code # "UnclosedTag"

(* What reports no unclosed tag may follow anything.                        *)
LEMMA SilentConcat ==
  ASSUME NEW a \in Seq(Diag), NEW b \in Seq(Diag), NEW ns, NEW own,
         Reported(a, ns, own), Silent(b)
  PROVE  Reported(a \o b, ns, own)
  BY ReportedConcat DEF Silent

(* The same for one diagnostic.                                             *)
LEMMA SilentAppend ==
  ASSUME NEW a \in Seq(Diag), NEW x \in Diag, x.code # "UnclosedTag", NEW ns, NEW own,
         Reported(a, ns, own)
  PROVE  Reported(Append(a, x), ns, own)
  <1> DEFINE ax == Append(a, x)
  <1>1. /\ Len(a) \in Nat /\ Len(ax) = Len(a) + 1
        /\ \A i \in 1 .. Len(a) : ax[i] = a[i]
        /\ ax[Len(a) + 1] = x
    BY LenProperties, AppendProperties
  <1> HIDE DEF ax
  <1>2. /\ \A i \in 1 .. Len(ax) : i \in 1 .. Len(a) \/ ax[i] = x
        /\ \A i \in 1 .. Len(a) : i \in 1 .. Len(ax)
    BY <1>1
  <1>3. Reported(ax, ns, own)
    BY <1>1, <1>2 DEF Reported
  <1> QED
    BY <1>3 DEF ax

(* The diagnostics of attributes, entities and placeholders are silent.     *)
LEMMA SilentDiags ==
  ASSUME NEW flaw, NEW s, NEW e, NEW pend, NEW run
  PROVE  /\ Silent(AttrDiags(flaw, s, e)) /\ Silent(EntityDiags(flaw, s, e))
         /\ Silent(PlaceholderDiags(pend)) /\ Silent(BrokenRunDiags(run))
  <1>1. Silent(<<>>)
    BY DEF Silent
  <1>2. \A code \in Code \ {"UnclosedTag"} : \A x, y : Silent(<<Diagnose(code, x, y)>>)
    BY DEF Silent, Diagnose
  <1>3. \A p : Silent(PlaceholderDiags(p))
    BY <1>1, <1>2 DEF PlaceholderDiags, Code
  <1> QED
    BY <1>1, <1>2, <1>3 DEF AttrDiags, EntityDiags, BrokenRunDiags, Code

(* The tags reported when the ones from depth d up are closed are the       *)
(* elements that have just been completed, but the one at d if it has a tag *)
(* of its own, and they end where the report says.                          *)
LEMMA ReportedClose ==
  ASSUME IInv, WInv, phase = "reading",
         NEW d \in 1 .. Len(stack), NEW cs \in Nat, NEW ce \in Nat,
         CloseDownTo(d, cs, ce),
         NEW first \in {d, d + 1}, first = d => cs = ce,
         NEW own, own = IF first = d THEN matched ELSE matched \cup {stack[d].start},
         NEW ds \in Seq(Diag), Reported(ds, nodes, matched)
  PROVE  Reported(ds \o Unclosed(first, cs), nodes', own) /\ MatchedDone(own, nodes')
  <1> DEFINE b == Unclosed(first, cs)
             at(k) == Len(stack) + 1 - k
  <1>1. /\ stack \in Seq(OpenTag) /\ Len(stack) \in Nat /\ d \in Nat /\ first \in Nat \ {0}
        /\ first <= Len(stack) + 1
    BY LenProperties DEF IInv, TypeOK
  <1>2. b \in Seq(Diag)
    BY <1>1, UnclosedType
  <1>3. /\ Len(b) = Len(stack) + 1 - first
        /\ \A k \in 1 .. Len(b) : b[k] = Diagnose("UnclosedTag", stack[at(k)].start, cs)
    <2>1. Len(stack) + 1 - first \in Nat
      BY <1>1
    <2> QED
      BY <2>1 DEF Unclosed
  <1> HIDE DEF b
  <1>4. ASSUME NEW k \in 1 .. Len(b)
        PROVE  /\ at(k) \in d .. Len(stack) /\ at(k) \in 1 .. Len(stack)
               /\ at(k) = d => cs = ce
               /\ b[k].start = stack[at(k)].start /\ b[k].end = cs
    <2>1. b[k].start = stack[at(k)].start /\ b[k].end = cs
      <3>1. b[k] = Diagnose("UnclosedTag", stack[at(k)].start, cs)
        BY <1>3
      <3>2. \A x : Diagnose("UnclosedTag", x, cs).start = x /\ Diagnose("UnclosedTag", x, cs).end = cs
        BY DEF Diagnose
      <3> QED
        BY <3>1, <3>2, Zenon
    <2>2. at(k) \in d .. Len(stack) /\ at(k) \in 1 .. Len(stack) /\ (at(k) = d => first = d)
      <3>1. /\ Len(stack) \in Nat /\ d \in Nat /\ (first = d \/ first = d + 1)
            /\ k \in 1 .. Len(stack) + 1 - first
        BY <1>1, <1>3
      <3> QED
        BY <1>1, <3>1
    <2> QED
      BY <2>1, <2>2
  <1>5. \A n \in nodes, i \in 1 .. Len(stack) : n.start # stack[i].start
    <2>1. \A n \in nodes : ElementRef(n.start, n.end) \in RefsOf(nodes)
      BY DEF RefsOf
    <2>2. \A n \in nodes, i \in 1 .. Len(stack) :
            ElementRef(n.start, n.end).start # stack[i].start
      BY <2>1 DEF WInv, Whole
    <2> QED
      BY <2>2 DEF ElementRef
  <1>6. ASSUME NEW j \in 1 .. Len(b), NEW k \in 1 .. Len(b), b[j].start = b[k].start
        PROVE  j = k
    <2>1. at(j) \in 1 .. Len(stack) /\ at(k) \in 1 .. Len(stack)
          /\ stack[at(j)].start = stack[at(k)].start
      BY <1>4, <1>6
    <2>2. \A x, y \in 1 .. Len(stack) : x < y => stack[x].start < stack[y].start
      BY DEF IInv, SpansNest, StackNests
    <2>3. \A x \in 1 .. Len(stack) : stack[x].start \in Nat
      BY <1>1, OpenTagType
    <2>4. ~ (at(j) < at(k)) /\ ~ (at(k) < at(j))
      <3> HIDE DEF at
      <3>1. \A x, y \in 1 .. Len(stack) : stack[x].start = stack[y].start => ~ (x < y)
        BY <2>2, <2>3
      <3> QED
        BY <2>1, <3>1
    <2> QED
      BY <1>1, <2>1, <2>4
  <1>7. /\ nodes \subseteq nodes'
        /\ \A i \in d .. Len(stack) : Closed(i, d, cs, ce) \in nodes'
        /\ \A n \in nodes' : n \in nodes \/ \E i \in d .. Len(stack) : n = Closed(i, d, cs, ce)
    BY DEF CloseDownTo
  <1>8. \A i \in d .. Len(stack) :
          /\ Closed(i, d, cs, ce).start = stack[i].start
          /\ Closed(i, d, cs, ce).end = IF i = d THEN ce ELSE cs
    BY DEF Closed
  <1>9. \A i \in 1 .. Len(stack) : stack[i].start \notin matched
    BY <1>5 DEF WInv, MatchedDone
  <1>10. ASSUME NEW k \in 1 .. Len(b)
         PROVE  b[k].start \notin own
    <2>1. CASE first = d
      BY <1>4, <1>9, <2>1
    <2>2. CASE first # d
      <3>1. first = d + 1 /\ own = matched \cup {stack[d].start}
        BY <2>2
      <3>2. d \in 1 .. Len(stack) /\ at(k) \in 1 .. Len(stack) /\ at(k) > d
        <4>1. /\ Len(stack) \in Nat /\ d \in 1 .. Len(stack)
              /\ k \in 1 .. Len(stack) - d
          BY <1>1, <1>3, <3>1
        <4> QED
          BY <4>1
      <3>3. stack[d].start < stack[at(k)].start
        <4>1. \A x, y \in 1 .. Len(stack) : x < y => stack[x].start < stack[y].start
          BY DEF IInv, SpansNest, StackNests
        <4> HIDE DEF at
        <4> QED
          BY <1>1, <3>2, <4>1
      <3>4. stack[d].start \in Nat /\ stack[at(k)].start \in Nat
        BY <1>1, <3>2, OpenTagType
      <3>5. stack[at(k)].start # stack[d].start
        BY <3>3, <3>4
      <3> QED
        BY <1>4, <1>9, <3>1, <3>5
    <2> QED
      BY <2>1, <2>2
  <1>11. ASSUME NEW k \in 1 .. Len(b)
        PROVE  \E n \in nodes' : n.start \notin own /\ n.start = b[k].start /\ n.end = b[k].end
    <2> DEFINE n == Closed(at(k), d, cs, ce)
    <2>1. n \in nodes'
      BY <1>4, <1>7
    <2>2. n.start = b[k].start /\ n.end = b[k].end
      BY <1>4, <1>8
    <2> QED
      BY <1>10, <2>1, <2>2
  <1>12. ASSUME NEW n \in nodes', n \notin nodes, n.start \notin own
         PROVE  \E k \in 1 .. Len(b) :
                  b[k].code = "UnclosedTag" /\ b[k].start = n.start /\ b[k].end = n.end
    <2>1. PICK i \in d .. Len(stack) : n = Closed(i, d, cs, ce)
      BY <1>7, <1>12
    <2>2. n.start = stack[i].start /\ n.end = IF i = d THEN ce ELSE cs
      BY <1>8, <2>1
    <2>3. first # d => i # d
      BY <1>12, <2>2
    <2>4. n.end = cs
      BY <2>2, <2>3
    <2> DEFINE k == Len(stack) + 1 - i
    <2>5. k \in 1 .. Len(b) /\ at(k) = i
      BY <1>1, <1>3, <2>3
    <2>6. b[k] = Diagnose("UnclosedTag", stack[i].start, cs)
      BY <1>3, <2>5
    <2>7. \A x : /\ Diagnose("UnclosedTag", x, cs).start = x /\ Diagnose("UnclosedTag", x, cs).end = cs
                 /\ Diagnose("UnclosedTag", x, cs).code = "UnclosedTag"
      BY DEF Diagnose
    <2> HIDE DEF k
    <2>8. b[k].code = "UnclosedTag" /\ b[k].start = n.start /\ b[k].end = n.end
      BY <2>2, <2>4, <2>6, <2>7
    <2> QED
      BY <2>5, <2>8
  <1>13. \A n \in nodes : n.start \in own <=> n.start \in matched
    BY <1>5
  <1>14. Reported(ds \o b, nodes', own)
    <2>1. \A k \in 1 .. Len(b) : b[k].code = "UnclosedTag" =>
            /\ \E n \in nodes' : n.start \notin own /\ n.start = b[k].start /\ n.end = b[k].end
            /\ \A n \in nodes : n.start # b[k].start
      <3> SUFFICES ASSUME NEW k \in 1 .. Len(b)
                   PROVE  /\ \E n \in nodes' : n.start \notin own /\ n.start = b[k].start /\ n.end = b[k].end
                          /\ \A n \in nodes : n.start # b[k].start
        OBVIOUS
      <3>1. b[k].start = stack[at(k)].start /\ at(k) \in 1 .. Len(stack)
        BY <1>4
      <3> HIDE DEF at
      <3> QED
        BY <1>5, <1>11, <3>1
    <2>2. \A j, k \in 1 .. Len(b) :
            b[j].code = "UnclosedTag" /\ b[k].code = "UnclosedTag" /\ b[j].start = b[k].start => j = k
      BY <1>6
    <2>3. \A n \in nodes' : n \notin nodes /\ n.start \notin own =>
            \E k \in 1 .. Len(b) :
              b[k].code = "UnclosedTag" /\ b[k].start = n.start /\ b[k].end = n.end
      BY <1>12
    <2> HIDE DEF at
    <2> QED
      BY ONLY <1>2, <1>7, <1>13, <2>1, <2>2, <2>3, ds \in Seq(Diag), Reported(ds, nodes, matched), ReportedConcat
  <1>15. MatchedDone(own, nodes')
    <2>1. \A m \in matched : \E n \in nodes' : n.start = m
      BY <1>7 DEF WInv, MatchedDone
    <2>2. \E n \in nodes' : n.start = stack[d].start
      <3>1. d \in d .. Len(stack)
        BY <1>1
      <3> QED
        BY <1>7, <1>8, <3>1
    <2> QED
      BY <2>1, <2>2 DEF MatchedDone
  <1> QED
    BY <1>14, <1>15 DEF b

-----------------------------------------------------------------------------
(* The second layer is kept, step by step.                                  *)

(* With nothing read nothing is attached and nothing reported.              *)
LEMMA InitWInv == Init => WInv
  <1> SUFFICES ASSUME Init PROVE WInv
    OBVIOUS
  <1>1. /\ stack = <<>> /\ nodes = {} /\ root = {} /\ matched = {} /\ diags = <<>>
        /\ phase = "reading"
    BY DEF Init
  <1>2. RefsOf(nodes) = {} /\ Len(stack) = 0 /\ Len(diags) = 0
    BY <1>1, EmptySeq DEF RefsOf
  <1>3. ASSUME NEW e \in EdgesOf(nodes, stack)
        PROVE  FALSE
    BY <1>1, <1>2, EdgeOf
  <1>4. Whole(RefsOf(nodes), EdgesOf(nodes, stack), root, stack)
    BY <1>1, <1>2, <1>3 DEF Whole
  <1> QED
    BY <1>1, <1>2, <1>4 DEF WInv, StartsDistinct, Reported, MatchedDone

(* A step that moves on, leaves the tree alone and reports nothing unclosed.*)
LEMMA QuietStep ==
  ASSUME WInv, IInv, phase = "reading", phase' = "reading",
         Pos \in Nat, Pos' \in Nat, Pos <= Pos', UNCHANGED tree,
         Reported(diags', nodes, matched)
  PROVE  WInv'
  <1>1. UNCHANGED <<stack, nodes, root, matched>>
    BY DEF tree
  <1>2. \A n \in nodes : n.end <= Pos'
    <2>1. \A n \in nodes : n.end \in Nat /\ n.end <= Pos
      BY DEF WInv, IInv, TypeOK, Element
    <2> QED
      BY <2>1
  <1>3. /\ Whole(RefsOf(nodes), EdgesOf(nodes, stack), root, stack) /\ StartsDistinct(nodes)
        /\ MatchedDone(matched, nodes)
    BY DEF WInv
  <1> QED
    BY <1>1, <1>2, <1>3 DEF WInv

(* Opening a tag.                                                           *)
LEMMA StartPushWhole ==
  ASSUME WInv, IInv, NEW w \in Widths, NEW name \in Names, NEW flaw \in Flaws,
         StartPush(name, w, flaw)
  PROVE  WInv'
  <1> DEFINE tag == [name |-> name, start |-> Pos, children |-> <<>>]
  <1>1. Pos \in Nat /\ Pos + w \in Nat /\ Pos' \in Nat /\ Pos < Pos' /\ phase = "reading" /\ phase' = "reading"
    BY ConsumeType DEF StartPush
  <1>2. tag \in OpenTag /\ tag.start = Pos /\ tag.children = <<>> /\ stack \in Seq(OpenTag)
    BY <1>1, EmptySeq DEF OpenTag, IInv, TypeOK
  <1>3. UNCHANGED <<nodes, root, matched>> /\ stack' = Append(stack, tag)
    BY DEF StartPush
  <1>4. \A n \in nodes : n.end \in Nat /\ n.end <= Pos
    BY <1>1 DEF WInv, IInv, TypeOK, Element
  <1>5. \A r \in RefsOf(nodes) :
          r.start \in Nat /\ r.end \in Nat /\ r.start < r.end /\ r.end <= tag.start
    <2>1. \A r \in RefsOf(nodes) : r.end <= Pos
      BY <1>4 DEF RefsOf, ElementRef
    <2> QED
      BY <1>2, <2>1, RefsType
  <1> HIDE DEF tag
  <1>6. Whole(RefsOf(nodes), EdgesOf(nodes, stack), root, Append(stack, tag))
    BY <1>2, <1>5, PushKeepsWhole DEF WInv
  <1>7. EdgesOf(nodes, Append(stack, tag)) = EdgesOf(nodes, stack)
    BY <1>2, EdgesOfPush
  <1>8. Reported(diags', nodes, matched)
    <2>1. flaw \in BOOLEAN
      BY ConstantsOK
    <2>2. AttrDiags(flaw, Pos, Pos + w) \in Seq(Diag) /\ Silent(AttrDiags(flaw, Pos, Pos + w))
      BY <1>1, <2>1, AttrDiagsType, SilentDiags
    <2> QED
      BY <2>2, SilentConcat DEF StartPush, WInv, IInv, TypeOK
  <1>9. \A n \in nodes : n.end <= Pos'
    BY <1>1, <1>4
  <1> QED
    BY <1>1, <1>3, <1>6, <1>7, <1>8, <1>9 DEF WInv

(* Completing a self-closing tag: it is opened and closed in one step.      *)
LEMMA EmptyPushWhole ==
  ASSUME WInv, IInv, NEW w \in Widths, NEW name \in Names, NEW flaw \in Flaws,
         EmptyPush(name, w, flaw)
  PROVE  WInv'
  <1> DEFINE el == [name |-> name, start |-> Pos, end |-> Pos + w, children |-> <<>>]
             ref == ElementRef(Pos, Pos + w)
             tag == [name |-> name, start |-> Pos, children |-> <<>>]
             stk == Append(stack, tag)
             d == Len(stk)
             c == [i \in {d} |-> ref]
  <1>1. /\ Pos \in Nat /\ Pos + w \in Nat /\ Pos' = Pos + w /\ Pos < Pos'
        /\ phase = "reading" /\ phase' = "reading"
    BY ConsumeType DEF EmptyPush
  <1>2. tag \in OpenTag /\ tag.start = Pos /\ stack \in Seq(OpenTag) /\ Len(stack) \in Nat
    BY <1>1, EmptySeq, LenProperties DEF OpenTag, IInv, TypeOK
  <1>3. ref \in Ref /\ ref.start = Pos /\ ref.end = Pos + w /\ ref.kind = "element"
    BY <1>1 DEF ElementRef, Ref
  <1>4. nodes' = nodes \cup {el} /\ stack' = AttachTo(stack, ref) /\ root' = RootAfter(stack, ref)
    BY DEF EmptyPush
  <1>5. el.start = Pos /\ el.end = Pos + w /\ el.children = <<>> /\ ref = ElementRef(el.start, el.end)
    OBVIOUS
  <1>6. c[d] = ref
    OBVIOUS
  <1> HIDE DEF el, ref, tag, c
  <1>7. \A n \in nodes : n.start \in Nat /\ n.end \in Nat /\ n.start < n.end /\ n.end <= Pos
    BY <1>1 DEF WInv, IInv, TypeOK, SpansNest, Element
  <1>8. /\ stk \in Seq(OpenTag) /\ d = Len(stack) + 1
        /\ \A i \in 1 .. Len(stack) : stk[i] = stack[i]
        /\ stk[d] = tag
    BY <1>2, AppendProperties
  <1> HIDE DEF stk
  <1>9. \A i, j \in 1 .. Len(stk) : i < j => stk[i].start < stk[j].start
    <2>1. SUFFICES ASSUME NEW i \in 1 .. Len(stk), NEW j \in 1 .. Len(stk), i < j
                   PROVE  stk[i].start < stk[j].start
      OBVIOUS
    <2>2. i \in 1 .. Len(stack) /\ stk[i] = stack[i] /\ stack[i].start < Pos
      BY <1>1, <1>2, <1>8, <2>1 DEF IInv, SpansNest, StackNests
    <2>3. CASE j = d
      BY <1>2, <1>8, <2>2, <2>3
    <2>4. CASE j # d
      <3>1. j \in 1 .. Len(stack) /\ stk[j] = stack[j]
        BY <1>2, <1>8, <2>4
      <3> QED
        BY <1>1, <2>1, <2>2, <3>1 DEF IInv, SpansNest, StackNests
    <2> QED
      BY <2>3, <2>4
  <1>10. \A r \in RefsOf(nodes) :
           r.start \in Nat /\ r.end \in Nat /\ r.start < r.end /\ r.end <= Pos
    BY <1>7 DEF RefsOf, ElementRef
  <1>11. Whole(RefsOf(nodes), EdgesOf(nodes, stack), root, stk)
    BY <1>2, <1>10, PushKeepsWhole DEF WInv, stk
  <1>12. RefsOf(nodes') = RefsOf(nodes) \cup {ref}
    BY <1>4, <1>5 DEF RefsOf
  <1>13. EdgesOf(nodes', stack') =
           EdgesOf(nodes, stack)
             \cup (IF stack # <<>> THEN {[by |-> stack[Len(stack)].start, child |-> ref]} ELSE {})
    <2>1. EdgesOf(nodes', stack') = EdgesOf(nodes, stack')
      <3>1. EdgesFrom(el.start, el.children) = {}
        BY <1>5, NoEdges
      <3>2. \A e : (\E n \in nodes' : e \in EdgesFrom(n.start, n.children))
                     <=> \E n \in nodes : e \in EdgesFrom(n.start, n.children)
        BY <1>4, <3>1
      <3>3. \A e : e \in EdgesOf(nodes', stack') <=> e \in EdgesOf(nodes, stack')
        BY <3>2, EdgeOf
      <3> QED
        BY <3>3
    <2>2. EdgesOf(nodes, AttachTo(stack, ref)) =
           EdgesOf(nodes, stack)
             \cup (IF ref.kind = "element" /\ stack # <<>>
                   THEN {[by |-> stack[Len(stack)].start, child |-> ref]} ELSE {})
      BY ONLY <1>2, <1>3, EdgesOfAttach
    <2> QED
      BY <1>3, <1>4, <2>1, <2>2
  <1>14. (stack # <<>>) <=> (d > 1)
    BY <1>2, <1>8, EmptySeq
  <1>15. Closes(RefsOf(nodes), EdgesOf(nodes, stack), root, stk, d, c,
                RefsOf(nodes'), EdgesOf(nodes', stack'), root', stack')
    <2>1. /\ stack' \in Seq(OpenTag) /\ Len(stack') = d - 1
          /\ \A i \in 1 .. d - 1 : stack'[i].start = stk[i].start
      <3>1. /\ AttachTo(stack, ref) \in Seq(OpenTag)
            /\ Len(AttachTo(stack, ref)) = Len(stack)
            /\ \A i \in 1 .. Len(stack) : AttachTo(stack, ref)[i].start = stack[i].start
        BY ONLY <1>2, <1>3, AttachType
      <3>2. d - 1 = Len(stack)
        BY <1>2, <1>8
      <3> QED
        BY <1>4, <1>8, <3>1, <3>2
    <2>2. d \in 1 .. Len(stk) /\ d = Len(stk) /\ d .. Len(stk) = {d}
      <3>1. d = Len(stk) /\ d \in Nat /\ d >= 1
        BY <1>2, <1>8
      <3>2. \A n \in Nat : n .. n = {n}
        OBVIOUS
      <3>3. d .. Len(stk) = {d}
        BY <3>1, <3>2, Zenon
      <3>4. d \in 1 .. Len(stk)
        <4> HIDE DEF d
        <4> QED
          BY <3>1
      <3> QED
        BY <3>1, <3>3, <3>4, Zenon
    <2>3. root' = IF d = 1 /\ root = {} THEN {c[1]} ELSE root
      <3>1. d = 1 => c[1] = ref
        BY <1>6
      <3>2. (stack = <<>>) <=> (d = 1)
        BY <1>2, <1>8, EmptySeq
      <3> HIDE DEF d
      <3> QED
        BY <1>4, <3>1, <3>2 DEF RootAfter
    <2>4. /\ RefsOf(nodes) \subseteq RefsOf(nodes')
          /\ \A i \in {d} : c[i] \in RefsOf(nodes')
          /\ \A r \in RefsOf(nodes') : r \in RefsOf(nodes) \/ \E i \in {d} : r = c[i]
      BY <1>6, <1>12
    <2>5. d > 1 => stk[d - 1] = stack[Len(stack)]
      BY <1>2, <1>8
    <2>6. /\ EdgesOf(nodes, stack) \subseteq EdgesOf(nodes', stack')
          /\ \A i \in {d} : i > 1 => [by |-> stk[i - 1].start, child |-> c[i]] \in EdgesOf(nodes', stack')
          /\ \A e \in EdgesOf(nodes', stack') : e \in EdgesOf(nodes, stack) \/ \E i \in {d} :
               i > 1 /\ e = [by |-> stk[i - 1].start, child |-> c[i]]
      BY <1>6, <1>13, <1>14, <2>5
    <2>7. \A i \in {d} : c[i].start = stk[i].start
      BY <1>2, <1>3, <1>6, <1>8
    <2> HIDE DEF d
    <2> QED
      BY <1>8, <2>1, <2>2, <2>3, <2>4, <2>6, <2>7 DEF Closes
  <1>16. Whole(RefsOf(nodes'), EdgesOf(nodes', stack'), root', stack')
    BY <1>9, <1>10, <1>11, <1>15, CloseKeepsWhole
  <1>17. StartsDistinct(nodes')
    BY <1>1, <1>4, <1>5, <1>7 DEF WInv, StartsDistinct
  <1>18. \A n \in nodes' : n.end <= Pos'
    BY <1>1, <1>4, <1>5, <1>7
  <1>19. Reported(diags', nodes', matched') /\ MatchedDone(matched', nodes')
    <2>1. flaw \in BOOLEAN
      BY ConstantsOK
    <2>2. AttrDiags(flaw, Pos, Pos + w) \in Seq(Diag) /\ Silent(AttrDiags(flaw, Pos, Pos + w))
      BY <1>1, <2>1, AttrDiagsType, SilentDiags
    <2>3. Reported(diags', nodes, matched)
      BY <2>2, SilentConcat DEF EmptyPush, WInv, IInv, TypeOK
    <2>4. matched' = matched \cup {Pos}
      BY DEF EmptyPush
    <2>5. \A n \in nodes : n.start # Pos
      BY <1>1, <1>7
    <2>6. Reported(diags', nodes', matched')
      BY <1>4, <1>5, <2>3, <2>4, <2>5 DEF Reported
    <2>7. MatchedDone(matched', nodes')
      BY <1>4, <1>5, <2>4 DEF WInv, MatchedDone
    <2> QED
      BY <2>6, <2>7
  <1> QED
    BY <1>1, <1>16, <1>17, <1>18, <1>19 DEF WInv

(* close_tag: what it closes implicitly it reports, and only that.          *)
LEMMA EndMatchedWhole ==
  ASSUME WInv, IInv, NEW w \in Widths, NEW name \in Names, NEW d \in 1 .. Len(stack),
         EndMatched(name, w, d)
  PROVE  WInv'
  <1>1. /\ Pos \in Nat /\ Pos + w \in Nat /\ Pos' = Pos + w /\ Pos < Pos'
        /\ phase = "reading" /\ phase' = "reading"
    BY ConsumeType DEF EndMatched
  <1>2. d \in Nat
    BY LenProperties DEF IInv, TypeOK
  <1>3. CloseDownTo(d, Pos, Pos + w) /\ diags' = diags \o Unclosed(d + 1, Pos)
    BY DEF EndMatched
  <1>4. /\ StartsDistinct(nodes')
        /\ \A n \in nodes' : n.end <= Pos + w
        /\ Whole(RefsOf(nodes'), EdgesOf(nodes', stack'), root', stack')
    BY <1>1, <1>3, CloseDownToWhole
  <1>5. Reported(diags', nodes', matched') /\ MatchedDone(matched', nodes')
    <2>1. d + 1 \in {d, d + 1} /\ d + 1 # d
      BY <1>2
    <2>2. diags \in Seq(Diag) /\ Reported(diags, nodes, matched)
      BY DEF WInv, IInv, TypeOK
    <2>3. matched' = IF d + 1 = d THEN matched ELSE matched \cup {stack[d].start}
      BY <2>1 DEF EndMatched
    <2> QED
      BY <1>1, <1>3, <2>1, <2>2, <2>3, ReportedClose
  <1> QED
    BY <1>1, <1>4, <1>5 DEF WInv

(* A run of text is attached as a text: no edge, no element.                *)
LEMMA TextEventWhole ==
  ASSUME WInv, IInv, NEW w \in Widths, Consume(w), NEW run \in Run,
         NEW more \in Seq(Diag), Silent(more), TextEvent(run, more)
  PROVE  WInv'
  <1> DEFINE ref == TextRef(run.start, run.end)
  <1>1. /\ Pos \in Nat /\ Pos' \in Nat /\ Pos < Pos' /\ phase = "reading" /\ phase' = "reading"
    BY ConsumeType
  <1>2. ref \in Ref /\ ref.kind # "element"
    BY DEF TextRef, Ref, Run
  <1>3. /\ stack \in Seq(OpenTag) /\ stack' = AttachTo(stack, ref)
        /\ UNCHANGED <<nodes, root, matched>>
    BY DEF TextEvent, IInv, TypeOK
  <1> HIDE DEF ref
  <1>4. EdgesOf(nodes, stack') = EdgesOf(nodes, stack)
    <2>1. EdgesOf(nodes, AttachTo(stack, ref)) =
           EdgesOf(nodes, stack)
             \cup (IF ref.kind = "element" /\ stack # <<>>
                   THEN {[by |-> stack[Len(stack)].start, child |-> ref]} ELSE {})
      BY ONLY <1>2, <1>3, EdgesOfAttach
    <2> QED
      BY <1>2, <1>3, <2>1
  <1>5. /\ Len(stack') = Len(stack) /\ stack' \in Seq(OpenTag)
        /\ \A i \in 1 .. Len(stack) : stack'[i].start = stack[i].start
        /\ (stack' = <<>>) <=> (stack = <<>>)
        /\ stack # <<>> => stack'[1].start = stack[1].start
    <2>1. /\ Len(stack') = Len(stack) /\ stack' \in Seq(OpenTag)
          /\ \A i \in 1 .. Len(stack) : stack'[i].start = stack[i].start
      BY <1>2, <1>3, AttachType
    <2> QED
      BY <1>3, <2>1, EmptySeq, LenProperties
  <1>6. Whole(RefsOf(nodes), EdgesOf(nodes, stack), root, stack)
    BY DEF WInv
  <1>7. Whole(RefsOf(nodes), EdgesOf(nodes, stack), root, stack')
    BY <1>5, <1>6 DEF Whole
  <1>8. Reported(diags', nodes, matched)
    <2>1. BrokenRunDiags(run) \in Seq(Diag) /\ Silent(BrokenRunDiags(run))
      BY PlaceholderType, EmptySeq, SilentDiags DEF BrokenRunDiags, IInv
    <2>2. diags \in Seq(Diag) /\ Reported(diags, nodes, matched)
      BY DEF WInv, IInv, TypeOK
    <2>3. diags \o more \in Seq(Diag) /\ Reported(diags \o more, nodes, matched)
      BY <2>2, SilentConcat, ConcatProperties
    <2> QED
      BY <2>1, <2>3, SilentConcat DEF TextEvent
  <1>9. \A n \in nodes : n.end <= Pos'
    <2>1. \A n \in nodes : n.end \in Nat /\ n.end <= Pos
      BY <1>1 DEF WInv, IInv, TypeOK, Element
    <2> QED
      BY <1>1, <2>1
  <1> QED
    BY <1>1, <1>3, <1>4, <1>7, <1>8, <1>9 DEF WInv

(* Leaving the loop: what is still open is closed and reported.             *)
LEMMA FinishWhole ==
  ASSUME WInv, IInv, phase = "reading", Finish
  PROVE  WInv'
  <1>1. /\ stack \in Seq(OpenTag) /\ Len(stack) \in Nat
        /\ Pos \in Nat /\ Pos <= SourceLen /\ SourceLen \in Nat
        /\ diags \in Seq(Diag) /\ Reported(diags, nodes, matched)
    BY LenProperties, ConstantsOK DEF WInv, IInv, TypeOK, Pos
  <1> DEFINE ds == diags \o PlaceholderDiags(pending)
  <1>2. ds \in Seq(Diag) /\ Reported(ds, nodes, matched)
    BY <1>1, PlaceholderType, SilentDiags, SilentConcat, ConcatProperties DEF IInv
  <1>3. diags' = ds \o Unclosed(1, SourceLen) /\ phase' = "done"
    BY DEF Finish
  <1> HIDE DEF ds
  <1>4. CASE stack = <<>>
    <2>1. UNCHANGED <<stack, nodes, root, matched>>
      BY <1>4 DEF Finish, tree
    <2>2. Unclosed(1, SourceLen) \in Seq(Diag) /\ Silent(Unclosed(1, SourceLen))
      <3>1. Unclosed(1, SourceLen) \in Seq(Diag)
        BY <1>1, UnclosedType
      <3>2. Len(stack) = 0
        BY <1>4, EmptySeq
      <3>3. Len(Unclosed(1, SourceLen)) = 0
        BY <3>2 DEF Unclosed
      <3> QED
        BY <3>1, <3>3 DEF Silent
    <2>3. Reported(diags', nodes, matched)
      BY <1>2, <1>3, <2>2, SilentConcat
    <2> QED
      BY <1>3, <1>4, <2>1, <2>3 DEF WInv
  <1>5. CASE stack # <<>>
    <2>1. 1 \in 1 .. Len(stack) /\ CloseDownTo(1, SourceLen, SourceLen)
      BY <1>1, <1>5, EmptySeq DEF Finish
    <2>2. /\ StartsDistinct(nodes')
          /\ Whole(RefsOf(nodes'), EdgesOf(nodes', stack'), root', stack')
      BY <1>1, <2>1, CloseDownToWhole
    <2>3. Reported(diags', nodes', matched') /\ MatchedDone(matched', nodes')
      <3>1. matched' = matched
        BY <1>5 DEF Finish
      <3> QED
        BY <1>1, <1>2, <1>3, <2>1, <3>1, ReportedClose
    <2>4. stack' = <<>>
      <3>1. stack' \in Seq(OpenTag) /\ Len(stack') = 0
        BY <1>1, <2>1, CloseDownToNests DEF IInv
      <3> QED
        BY <3>1, EmptySeq
    <2> QED
      BY <1>3, <2>2, <2>3, <2>4 DEF WInv
  <1> QED
    BY <1>4, <1>5

(* Every step keeps the second layer.                                       *)
LEMMA NextWInv == IInv /\ WInv /\ [Next]_vars => WInv'
  <1> SUFFICES ASSUME IInv, WInv, [Next]_vars PROVE WInv'
    OBVIOUS
  <1> DEFINE Moved == /\ phase = "reading" /\ phase' = "reading"
                      /\ Pos \in Nat /\ Pos' \in Nat /\ Pos <= Pos'
  <1>1. ASSUME NEW w \in Widths, Consume(w)
        PROVE  Moved /\ Pos + w \in Nat
    BY <1>1, ConsumeType
  <1>2. diags \in Seq(Diag) /\ Reported(diags, nodes, matched)
    BY DEF WInv, IInv, TypeOK
  <1> HIDE DEF Moved
  <1>3. ASSUME Moved, UNCHANGED <<tree, diags>>
        PROVE  WInv'
    BY <1>2, <1>3, QuietStep DEF Moved
  <1>4. ASSUME Moved, UNCHANGED tree, NEW code \in Code \ {"UnclosedTag"},
               NEW s \in Nat, NEW e \in Nat, diags' = Append(diags, Diagnose(code, s, e))
        PROVE  WInv'
    <2>1. Diagnose(code, s, e) \in Diag /\ Diagnose(code, s, e).code # "UnclosedTag"
      BY DiagType DEF Diagnose
    <2>2. Reported(diags', nodes, matched)
      BY <1>2, <1>4, <2>1, SilentAppend
    <2> QED
      BY <1>4, <2>2, QuietStep DEF Moved
  <1>5. CASE StartEvent
    <2>1. ASSUME NEW w \in Widths, StartSuppressed(w) PROVE WInv'
      BY <1>1, <1>3, <2>1 DEF StartSuppressed
    <2>2. ASSUME NEW w \in Widths, StartAtLimit(w) PROVE WInv'
      BY <1>1, <1>4, <2>2 DEF StartAtLimit, Code, Moved
    <2> QED
      BY <1>5, <2>1, <2>2, StartPushWhole DEF StartEvent
  <1>6. CASE EmptyEvent
    <2>1. ASSUME NEW w \in Widths, EmptySuppressed(w) PROVE WInv'
      BY <1>1, <1>3, <2>1 DEF EmptySuppressed
    <2>2. ASSUME NEW w \in Widths, EmptyAtLimit(w) PROVE WInv'
      BY <1>1, <1>4, <2>2 DEF EmptyAtLimit, Code, Moved
    <2> QED
      BY <1>6, <2>1, <2>2, EmptyPushWhole DEF EmptyEvent
  <1>7. CASE EndEvent
    <2>1. ASSUME NEW w \in Widths, EndSuppressed(w) PROVE WInv'
      BY <1>1, <1>3, <2>1 DEF EndSuppressed
    <2>2. ASSUME NEW w \in Widths, NEW name \in Names, EndOrphan(name, w) PROVE WInv'
      BY <1>1, <1>4, <2>2 DEF EndOrphan, Code, Moved
    <2> QED
      BY <1>7, <2>1, <2>2, EndMatchedWhole DEF EndEvent
  <1>8. CASE ContentEvent
    <2>1. ASSUME NEW w \in Widths, TextSuppressed(w) PROVE WInv'
      BY <1>1, <1>3, <2>1 DEF TextSuppressed
    <2>2. ASSUME NEW w \in Widths, NEW mark \in Marks, NEW flaw \in Flaws, Text(w, mark, flaw)
          PROVE  WInv'
      <3> DEFINE run == [start |-> Pos, end |-> Pos + w, mark |-> mark]
                 more == EntityDiags(flaw, Pos, Pos + w)
      <3>1. Pos \in Nat /\ Pos + w \in Nat /\ flaw \in BOOLEAN
        BY <1>1, <2>2, ConstantsOK DEF Text, Moved
      <3>2. run \in Run /\ more \in Seq(Diag) /\ Silent(more)
        BY <3>1, AttrDiagsType, SilentDiags DEF Run
      <3>3. Consume(w) /\ TextEvent(run, more)
        BY <2>2 DEF Text
      <3> HIDE DEF run, more
      <3> QED
        BY <3>2, <3>3, TextEventWhole
    <2>3. ASSUME NEW w \in Widths, NEW mark \in Marks, CData(w, mark)
          PROVE  WInv'
      <3> DEFINE run == [start |-> Pos + CDataOpen, end |-> Pos + w - CDataClose, mark |-> mark]
      <3>1. /\ Pos \in Nat /\ w \in Nat /\ CDataOpen \in Nat /\ CDataClose \in Nat
            /\ w >= CDataOpen + CDataClose
        BY <1>1, <2>3, ConstantsOK DEF CData, Moved
      <3>2. run \in Run /\ <<>> \in Seq(Diag) /\ Silent(<<>>)
        BY <3>1, EmptySeq DEF Run, Silent
      <3>3. Consume(w) /\ TextEvent(run, <<>>)
        BY <2>3 DEF CData
      <3> HIDE DEF run
      <3> QED
        BY <3>2, <3>3, TextEventWhole
    <2> QED
      BY <1>8, <2>1, <2>2, <2>3 DEF ContentEvent
  <1>9. CASE \E w \in Widths : Ignored(w)
    BY <1>1, <1>3, <1>9 DEF Ignored
  <1>10. CASE \E skipTo \in 1 .. SourceLen : Resync(skipTo)
    <2>1. PICK skipTo \in 1 .. SourceLen : Resync(skipTo)
      BY <1>10
    <2>2. Moved
      BY <2>1, ConstantsOK DEF Resync, Pos, IInv, TypeOK, Moved
    <2> QED
      BY <1>3, <2>1, <2>2 DEF Resync
  <1>11. CASE Stuck \/ Eof
    BY <1>11, FinishWhole DEF Stuck, Eof
  <1>12. CASE UNCHANGED vars
    BY <1>12 DEF vars, WInv, Pos
  <1> QED
    BY <1>5, <1>6, <1>7, <1>8, <1>9, <1>10, <1>11, <1>12 DEF Next

(* build_tree keeps both layers throughout.                                 *)
LEMMA WholeInvariance == Spec => [](IInv /\ WInv)
  BY InitIInv, NextIInv, InitWInv, NextWInv, PTL DEF Spec

(* Rule 1: whatever the source, every element that no tag of its own has    *)
(* closed, and no other, is reported as never closed, once and with the     *)
(* span it has in the tree.                                                 *)
THEOREM UnclosedIsReportedOnce == Spec => []UnclosedReportedOnce
  <1>1. WInv => UnclosedReportedOnce
    <2> SUFFICES ASSUME Reported(diags, nodes, matched) PROVE UnclosedReportedOnce
      BY DEF WInv
    <2> DEFINE said   == {i \in 1 .. Len(diags) : diags[i].code = "UnclosedTag"}
               astray == {n \in nodes : n.start \notin matched}
    <2>1. \A i \in said : \E n \in astray : <<n.start, n.end>> = <<diags[i].start, diags[i].end>>
      BY DEF Reported
    <2>2. \A n \in astray : \E i \in said : <<diags[i].start, diags[i].end>> = <<n.start, n.end>>
      BY DEF Reported
    <2>3. \A i, j \in said : diags[i].start = diags[j].start => i = j
      BY DEF Reported
    <2>4. {<<diags[i].start, diags[i].end>> : i \in said} = {<<n.start, n.end>> : n \in astray}
      BY <2>1, <2>2
    <2> QED
      BY <2>3, <2>4 DEF UnclosedReportedOnce
  <1> QED
    BY <1>1, WholeInvariance, PTL

(* The tree that WInv describes edge by edge is whole.                      *)
LEMMA WholeTree ==
  ASSUME IInv, WInv
  PROVE  TreeIsWhole
  <1> DEFINE R == RefsOf(nodes)
             E == EdgesOf(nodes, stack)
             by(n) == ElementRef(n.start, n.end)
  <1>1. Whole(R, E, root, stack) /\ StartsDistinct(nodes) /\ (phase = "done" => stack = <<>>)
    BY DEF WInv
  <1>2. \A n \in nodes : by(n) \in R
    BY DEF RefsOf
  <1>3. \A r \in R : \E n \in nodes : r = by(n)
    BY DEF RefsOf
  <1>4. \A n \in nodes : by(n).start = n.start /\ by(n).end = n.end /\ by(n).kind = "element"
    BY DEF ElementRef
  <1>5. ASSUME NEW n \in nodes, NEW s, NEW children
        PROVE  HasChild(children, n) <=> [by |-> s, child |-> by(n)] \in EdgesFrom(s, children)
    <2>1. by(n) \in ElementChildren(children) <=> HasChild(children, n)
      BY <1>4 DEF HasChild, ElementChildren
    <2>2. [by |-> s, child |-> by(n)] \in EdgesFrom(s, children) <=> by(n) \in ElementChildren(children)
      BY DEF EdgesFrom
    <2> QED
      BY <2>1, <2>2
  <1>6. ASSUME NEW n \in nodes, NEW s
        PROVE  s \in Parents(n) <=> [by |-> s, child |-> by(n)] \in E
    <2> DEFINE e == [by |-> s, child |-> by(n)]
    <2>1. \A t, children : e \in EdgesFrom(t, children) => t = s
      BY DEF EdgesFrom
    <2>2. ASSUME s \in Parents(n)
          PROVE  e \in E
      <3>1. CASE \E m \in nodes : HasChild(m.children, n) /\ s = m.start
        BY <1>5, <3>1, EdgeOf
      <3>2. CASE \E i \in 1 .. Len(stack) : HasChild(stack[i].children, n) /\ s = stack[i].start
        BY <1>5, <3>2, EdgeOf
      <3> QED
        BY <2>2, <3>1, <3>2 DEF Parents
    <2>3. ASSUME e \in E
          PROVE  s \in Parents(n)
      <3>1. CASE \E m \in nodes : e \in EdgesFrom(m.start, m.children)
        <4>1. PICK m \in nodes : e \in EdgesFrom(m.start, m.children)
          BY <3>1
        <4>2. s = m.start /\ HasChild(m.children, n)
          BY <1>5, <2>1, <4>1
        <4>3. m \in {k \in nodes : HasChild(k.children, n)}
          BY <4>2
        <4>4. s \in {k.start : k \in {k \in nodes : HasChild(k.children, n)}}
          BY <4>2, <4>3, Zenon
        <4> QED
          BY <4>4 DEF Parents
      <3>2. CASE \E i \in 1 .. Len(stack) : e \in EdgesFrom(stack[i].start, stack[i].children)
        <4>1. PICK i \in 1 .. Len(stack) : e \in EdgesFrom(stack[i].start, stack[i].children)
          BY <3>2
        <4>2. s = stack[i].start /\ HasChild(stack[i].children, n)
          BY <1>5, <2>1, <4>1
        <4>3. i \in {k \in 1 .. Len(stack) : HasChild(stack[k].children, n)}
          BY <4>2
        <4>4. s \in {stack[k].start : k \in {k \in 1 .. Len(stack) : HasChild(stack[k].children, n)}}
          BY <4>2, <4>3, Zenon
        <4> QED
          BY <4>4 DEF Parents
      <3> QED
        BY <2>3, <3>1, <3>2, EdgeOf
    <2> QED
      BY <2>2, <2>3
  <1>7. \A e \in E : e = [by |-> e.by, child |-> e.child]
    <2>1. \A t, children : \A e \in EdgesFrom(t, children) : e = [by |-> e.by, child |-> e.child]
      BY DEF EdgesFrom
    <2> QED
      BY <2>1, EdgeOf
  <1> HIDE DEF R, E, by
  <1>8. ASSUME NEW n \in nodes
        PROVE  \/ Cardinality(Parents(n)) = 1 /\ by(n) \notin root
               \/ Parents(n) = {} /\ \E r \in root : r = by(n) \/ r.end <= n.start
    <2>1. CASE \E e \in E : e.child = by(n)
      <3>1. PICK e \in E : e.child = by(n)
        BY <2>1
      <3>2. Parents(n) = {e.by}
        <4>1. e = [by |-> e.by, child |-> by(n)]
          BY <1>7, <3>1
        <4>2. e.by \in Parents(n)
          BY <1>6, <4>1
        <4>3. ASSUME NEW s \in Parents(n)
              PROVE  s = e.by
          <5> DEFINE f == [by |-> s, child |-> by(n)]
          <5>1. f \in E /\ f.by = s /\ f.child = e.child
            BY <1>6, <3>1
          <5> QED
            BY <1>1, <5>1 DEF Whole
        <4> QED
          BY <4>2, <4>3
      <3>3. by(n) \notin root
        BY <1>1, <3>1 DEF Whole
      <3> QED
        BY <3>2, <3>3, FS_Singleton
    <2>2. CASE ~ \E e \in E : e.child = by(n)
      <3>1. Parents(n) = {}
        <4>1. ASSUME NEW s \in Parents(n)
              PROVE  FALSE
          <5> DEFINE f == [by |-> s, child |-> by(n)]
          <5>1. f \in E /\ f.child = by(n)
            BY <1>6
          <5> QED
            BY <2>2, <5>1
        <4> QED
          BY <4>1
      <3>2. \E r \in root : r = by(n) \/ r.end <= by(n).start
        BY <1>1, <1>2, <2>2 DEF Whole
      <3> QED
        BY <1>4, <3>1, <3>2
    <2> QED
      BY <2>1, <2>2
  <1>9. ASSUME NEW n \in nodes, NEW c \in ElementChildren(n.children)
        PROVE  Cardinality({m \in nodes : m.start = c.start /\ m.end = c.end}) = 1
    <2>1. [by |-> n.start, child |-> c] \in E
      BY EdgeOf DEF EdgesFrom, E
    <2>2. c \in R
      BY <1>1, <2>1 DEF Whole
    <2>3. PICK m \in nodes : c = by(m)
      BY <1>3, <2>2
    <2>4. {k \in nodes : k.start = c.start /\ k.end = c.end} = {m}
      BY <1>1, <1>4, <2>3 DEF StartsDistinct
    <2> QED
      BY <2>4, FS_Singleton
  <1>10. \A r \in root : \E n \in nodes : r = by(n)
    BY <1>1, <1>3 DEF Whole
  <1>11. \A r \in root, n \in nodes : r.start <= n.start
    BY <1>1, <1>2, <1>4 DEF Whole
  <1>12. phase = "done" => stack = <<>> /\ (root = {} <=> nodes = {})
    <2>1. root # {} => nodes # {}
      BY <1>10
    <2>2. root = {} /\ stack = <<>> => nodes = {}
      BY <1>1, <1>2 DEF Whole
    <2> QED
      BY <1>1, <2>1, <2>2
  <1> QED
    BY <1>8, <1>9, <1>10, <1>11, <1>12 DEF TreeIsWhole, by

(* push_completed loses nothing and attaches nothing twice, through every   *)
(* implicit close and at the end of the source.                             *)
THEOREM TreeAlwaysWhole == Spec => []TreeIsWhole
  BY WholeTree, WholeInvariance, PTL

-----------------------------------------------------------------------------
(* A third layer, for the placeholder check of the text.                    *)

(* g is the depth of open placeholders after each of the runs rs: what the  *)
(* recursive function DepthAfter is defined by.                             *)
IsDepth(rs, g) ==
  g = [i \in 0 .. Len(rs) |->
         IF i = 0 THEN 0
         ELSE Depth(IF i > 1 /\ rs[i - 1].end = rs[i].start THEN g[i - 1] ELSE 0, rs[i].mark)]

OnlyDepth(rs, g) == IsDepth(rs, g) /\ \A h : IsDepth(rs, h) => h = g

(* The runs that end a contiguous text which leaves an opener unclosed, the *)
(* last run, which may go on, left out ...                                  *)
BrokenOpen(rs, g) ==
  {i \in 1 .. Len(rs) : i # Len(rs) /\ rs[i].end # rs[i + 1].start /\ g[i] > 0}

(* ... and with it.                                                         *)
AllOpen(rs, g) ==
  {i \in 1 .. Len(rs) : (i = Len(rs) \/ rs[i].end # rs[i + 1].start) /\ g[i] > 0}

SaidOf(ds) == {i \in 1 .. Len(ds) : ds[i].code = "UnterminatedPlaceholder"}

(* The diagnostics ds report the runs in open, each of them once.           *)
Told(ds, rs, open) ==
  /\ IsFiniteSet(SaidOf(ds)) /\ IsFiniteSet(open)
  /\ Cardinality(SaidOf(ds)) = Cardinality(open)
  /\ {ds[i].end : i \in SaidOf(ds)} = {rs[i].end : i \in open}

(* The pending run is the contiguous text the last run belongs to.          *)
PendingIsLast(pend, rs, g) ==
  IF rs = <<>> THEN pend = {}
  ELSE /\ pend # {}
       /\ \A p \in pend : p.end = rs[Len(rs)].end /\ p.depth = g[Len(rs)]

TextInv(g) ==
  /\ phase = "reading" => Told(diags, runs, BrokenOpen(runs, g)) /\ PendingIsLast(pending, runs, g)
  /\ phase = "done" => Told(diags, runs, AllOpen(runs, g))

(* The recursion determines the depths, and they are what is reported.      *)
TInv == \E g : OnlyDepth(runs, g) /\ TextInv(g)

(* A sequence of diagnostics that reports no open placeholder.              *)
NoneOpen(ds) == \A k \in 1 .. Len(ds) : ds[k].code # "UnterminatedPlaceholder"

(* Other diagnostics tell nothing of placeholders, ...                      *)
LEMMA ToldOther ==
  ASSUME NEW a \in Seq(Diag), NEW b \in Seq(Diag), NEW rs, NEW open,
         NoneOpen(b), Told(a, rs, open)
  PROVE  Told(a \o b, rs, open)
  <1> DEFINE ab == a \o b
  <1>1. /\ Len(a) \in Nat /\ Len(b) \in Nat /\ Len(ab) = Len(a) + Len(b)
        /\ \A i \in 1 .. Len(a) : ab[i] = a[i]
        /\ \A i \in Len(a) + 1 .. Len(ab) : i - Len(a) \in 1 .. Len(b) /\ ab[i] = b[i - Len(a)]
    BY LenProperties, ConcatProperties
  <1> HIDE DEF ab
  <1>2. ASSUME NEW i
        PROVE  i \in SaidOf(ab) <=> i \in SaidOf(a)
    <2>1. CASE i \in 1 .. Len(a)
      BY <1>1, <2>1 DEF SaidOf
    <2>2. CASE i \in Len(a) + 1 .. Len(ab)
      <3>1. i - Len(a) \in 1 .. Len(b) /\ ab[i] = b[i - Len(a)] /\ i \notin 1 .. Len(a)
        BY <1>1, <2>2
      <3> QED
        BY <3>1 DEF SaidOf, NoneOpen
    <2>3. CASE i \notin 1 .. Len(a) /\ i \notin Len(a) + 1 .. Len(ab)
      <3>1. i \notin 1 .. Len(ab)
        BY <1>1, <2>3
      <3> QED
        BY <2>3, <3>1 DEF SaidOf
    <2> QED
      BY <2>1, <2>2, <2>3
  <1>3. SaidOf(ab) = SaidOf(a)
    BY <1>2
  <1>4. \A i \in SaidOf(a) : ab[i] = a[i]
    BY <1>1 DEF SaidOf
  <1>5. {ab[i].end : i \in SaidOf(a)} = {a[i].end : i \in SaidOf(a)}
    BY <1>4
  <1>6. Told(ab, rs, open)
    BY <1>3, <1>5 DEF Told
  <1> QED
    BY <1>6 DEF ab

(* ... one that reports a run tells of that run, ...                        *)
LEMMA ToldOne ==
  ASSUME NEW a \in Seq(Diag), NEW x \in Diag, NEW rs, NEW open, NEW n,
         x.code = "UnterminatedPlaceholder", x.end = rs[n].end, n \notin open,
         Told(a, rs, open)
  PROVE  Told(a \o <<x>>, rs, open \cup {n})
  <1> DEFINE ax == Append(a, x)
             m == Len(a) + 1
  <1>1. /\ Len(a) \in Nat /\ Len(ax) = m /\ ax = a \o <<x>>
        /\ \A i \in 1 .. Len(a) : ax[i] = a[i]
        /\ ax[m] = x
    BY LenProperties, AppendProperties, AppendIsConcat
  <1> HIDE DEF ax
  <1>2. ASSUME NEW i
        PROVE  i \in SaidOf(ax) <=> (i \in SaidOf(a) \/ i = m)
    <2>1. CASE i \in 1 .. Len(a)
      <3>1. i \in 1 .. Len(ax) /\ ax[i] = a[i] /\ i # m
        BY <1>1, <2>1
      <3> QED
        BY <2>1, <3>1 DEF SaidOf
    <2>2. CASE i = m
      <3>1. m \in 1 .. Len(ax) /\ ax[m].code = "UnterminatedPlaceholder"
        BY <1>1
      <3> QED
        BY <2>2, <3>1 DEF SaidOf
    <2>3. CASE i \notin 1 .. Len(a) /\ i # m
      <3>1. i \notin 1 .. Len(ax)
        BY <1>1, <2>3
      <3> QED
        BY <2>3, <3>1 DEF SaidOf
    <2> QED
      BY <2>1, <2>2, <2>3
  <1>3. SaidOf(ax) = SaidOf(a) \cup {m}
    BY <1>2
  <1>4. m \notin SaidOf(a)
    BY <1>1 DEF SaidOf
  <1>5. /\ IsFiniteSet(SaidOf(ax)) /\ IsFiniteSet(open \cup {n})
        /\ Cardinality(SaidOf(ax)) = Cardinality(SaidOf(a)) + 1
        /\ Cardinality(open \cup {n}) = Cardinality(open) + 1
    BY <1>3, <1>4, FS_AddElement DEF Told
  <1>6. Cardinality(SaidOf(ax)) = Cardinality(open \cup {n})
    BY <1>5 DEF Told
  <1>7. {ax[i].end : i \in SaidOf(ax)} = {a[i].end : i \in SaidOf(a)} \cup {x.end}
    <2>1. \A i \in SaidOf(a) : ax[i] = a[i]
      BY <1>1 DEF SaidOf
    <2>2. ax[m] = x
      BY <1>1
    <2> HIDE DEF m
    <2> QED
      BY <1>3, <2>1, <2>2
  <1>8. {rs[i].end : i \in open \cup {n}} = {rs[i].end : i \in open} \cup {x.end}
    OBVIOUS
  <1>9. {ax[i].end : i \in SaidOf(ax)} = {rs[i].end : i \in open \cup {n}}
    BY <1>7, <1>8 DEF Told
  <1>10. Told(ax, rs, open \cup {n})
    BY <1>5, <1>6, <1>9 DEF Told
  <1> QED
    BY <1>1, <1>10

(* ... and what is told of the runs so far stays told as more arrive.       *)
LEMMA ToldLater ==
  ASSUME NEW ds, NEW rs, NEW more, NEW open, Told(ds, rs, open),
         \A i \in open : more[i] = rs[i]
  PROVE  Told(ds, more, open)
  <1>1. {more[i].end : i \in open} = {rs[i].end : i \in open}
    OBVIOUS
  <1> QED
    BY <1>1 DEF Told

(* Checking the pending run reports the last text if it is open.            *)
LEMMA ToldPending ==
  ASSUME IInv, NEW ds \in Seq(Diag), NEW g,
         Told(ds, runs, BrokenOpen(runs, g)), PendingIsLast(pending, runs, g)
  PROVE  Told(ds \o PlaceholderDiags(pending), runs, AllOpen(runs, g))
  <1> DEFINE n == Len(runs)
  <1>1. runs \in Seq(Run) /\ n \in Nat
    BY LenProperties DEF IInv, TypeOK
  <1>2. ASSUME ~ \E p \in pending : p.depth > 0
        PROVE  ds \o PlaceholderDiags(pending) = ds
    <2>1. PlaceholderDiags(pending) = <<>>
      BY <1>2 DEF PlaceholderDiags
    <2> QED
      BY <2>1, ConcatEmptySeq
  <1>3. CASE runs = <<>>
    <2>1. n = 0 /\ pending = {}
      BY <1>3, EmptySeq DEF PendingIsLast
    <2>2. AllOpen(runs, g) = {} /\ BrokenOpen(runs, g) = {}
      BY <2>1 DEF AllOpen, BrokenOpen
    <2> QED
      BY <1>2, <2>1, <2>2
  <1>4. CASE runs # <<>>
    <2>1. n \in 1 .. n
      BY <1>1, <1>4, EmptySeq
    <2>2. PICK p \in pending : p.end = runs[n].end /\ p.depth = g[n]
      BY <1>4 DEF PendingIsLast
    <2>3. p \in Pending /\ pending = {p}
      BY <2>2 DEF IInv, TypeOK
    <2>4. CASE g[n] > 0
      <3> DEFINE x == Diagnose("UnterminatedPlaceholder", p.opener, p.end)
      <3>1. PlaceholderDiags(pending) = <<x>>
        <4>1. \E q \in pending : q.depth > 0
          BY <2>2, <2>4
        <4>2. (CHOOSE q \in pending : TRUE) = p
          BY <2>3
        <4> QED
          BY <4>1, <4>2 DEF PlaceholderDiags
      <3>2. x \in Diag /\ x.code = "UnterminatedPlaceholder" /\ x.end = runs[n].end
        BY <2>2, <2>3 DEF Diagnose, Diag, Pending, Code
      <3>3. n \notin BrokenOpen(runs, g)
        BY DEF BrokenOpen
      <3>4. AllOpen(runs, g) = BrokenOpen(runs, g) \cup {n}
        BY <2>1, <2>4 DEF AllOpen, BrokenOpen
      <3> HIDE DEF x, n
      <3> QED
        BY <3>1, <3>2, <3>3, <3>4, ToldOne
    <2>5. CASE ~ (g[n] > 0)
      <3>1. AllOpen(runs, g) = BrokenOpen(runs, g)
        BY <2>5 DEF AllOpen, BrokenOpen
      <3>2. ~ \E q \in pending : q.depth > 0
        BY <2>2, <2>3, <2>5
      <3> QED
        BY <1>2, <3>1, <3>2
    <2> QED
      BY <2>4, <2>5
  <1> QED
    BY <1>3, <1>4

(* One more run: the recursion still determines the depths, those of the    *)
(* runs before it are what they were.                                       *)
LEMMA DepthExtends ==
  ASSUME NEW rs \in Seq(Run), NEW run \in Run, NEW g, OnlyDepth(rs, g)
  PROVE  \E g2 : /\ OnlyDepth(Append(rs, run), g2)
                 /\ \A i \in 0 .. Len(rs) : g2[i] = g[i]
                 /\ g2[Len(rs) + 1] =
                      Depth(IF rs # <<>> /\ rs[Len(rs)].end = run.start THEN g[Len(rs)] ELSE 0,
                            run.mark)
  <1> DEFINE n == Len(rs)
             more == Append(rs, run)
             d(h) == Depth(IF rs # <<>> /\ rs[n].end = run.start THEN h[n] ELSE 0, run.mark)
             at(s, h, i) == IF i = 0 THEN 0
                            ELSE Depth(IF i > 1 /\ s[i - 1].end = s[i].start THEN h[i - 1] ELSE 0,
                                       s[i].mark)
             g2 == [i \in 0 .. n + 1 |-> IF i = n + 1 THEN d(g) ELSE g[i]]
  <1>1. /\ n \in Nat /\ Len(more) = n + 1 /\ more[n + 1] = run
        /\ \A i \in 1 .. n : more[i] = rs[i]
        /\ (rs # <<>>) <=> (n > 0)
    BY LenProperties, AppendProperties, EmptySeq
  <1> HIDE DEF more, n
  <1>2. ASSUME NEW h, NEW s
        PROVE  IsDepth(s, h) <=> h = [i \in 0 .. Len(s) |-> at(s, h, i)]
    BY DEF IsDepth
  <1>3. ASSUME NEW h
        PROVE  /\ at(more, h, n + 1) = d(h)
               /\ \A i \in 0 .. n : at(more, h, i) = at(rs, h, i)
    <2>1. at(more, h, n + 1) = d(h)
      <3>1. n + 1 # 0 /\ (n + 1) - 1 = n /\ (n + 1 > 1 <=> n > 0)
        BY <1>1
      <3>2. n > 0 => more[n] = rs[n]
        BY <1>1
      <3> QED
        BY <1>1, <3>1, <3>2
    <2>2. ASSUME NEW i \in 0 .. n
          PROVE  at(more, h, i) = at(rs, h, i)
      <3>1. CASE i = 0
        BY <3>1
      <3>2. CASE i # 0
        <4>1. i \in 1 .. n /\ (i > 1 => i - 1 \in 1 .. n)
          BY <1>1, <3>2
        <4>2. more[i] = rs[i] /\ (i > 1 => more[i - 1] = rs[i - 1])
          BY <1>1, <4>1
        <4> QED
          BY <4>2
      <3> QED
        BY <3>1, <3>2
    <2> QED
      BY <2>1, <2>2
  <1>4. ASSUME NEW h, NEW k, \A i \in 0 .. n : h[i] = k[i]
        PROVE  d(h) = d(k) /\ \A i \in 0 .. n : at(rs, h, i) = at(rs, k, i)
    <2>1. n \in 0 .. n
      BY <1>1
    <2>2. ASSUME NEW i \in 0 .. n
          PROVE  at(rs, h, i) = at(rs, k, i)
      <3>1. i > 1 => i - 1 \in 0 .. n
        BY <1>1
      <3> QED
        BY <1>4, <3>1
    <2> QED
      BY <1>4, <2>1, <2>2
  <1> HIDE DEF at, d
  <1>5. /\ \A i \in 0 .. n : g2[i] = g[i]
        /\ g2[n + 1] = d(g)
    BY <1>1
  <1>6. \A i \in 0 .. n : g[i] = at(rs, g, i)
    <2>1. g = [i \in 0 .. n |-> at(rs, g, i)]
      BY <1>2 DEF n, OnlyDepth
    <2> QED
      BY <2>1
  <1>7. \A i \in 0 .. n + 1 : i = n + 1 \/ i \in 0 .. n
    BY <1>1
  <1>8. IsDepth(more, g2)
    <2>1. \A i \in 0 .. n + 1 : g2[i] = at(more, g2, i)
      <3>1. g2[n + 1] = at(more, g2, n + 1)
        BY <1>3, <1>4, <1>5
      <3>2. ASSUME NEW i \in 0 .. n
            PROVE  g2[i] = at(more, g2, i)
        <4>1. at(more, g2, i) = at(rs, g2, i)
          BY <1>3
        <4>2. at(rs, g2, i) = at(rs, g, i)
          BY <1>4, <1>5
        <4> QED
          BY <1>5, <1>6, <4>1, <4>2
      <3> QED
        BY <1>7, <3>1, <3>2
    <2>2. g2 = [i \in 0 .. n + 1 |-> g2[i]]
      OBVIOUS
    <2> HIDE DEF g2
    <2>3. g2 = [i \in 0 .. n + 1 |-> at(more, g2, i)]
      BY <2>1, <2>2
    <2> QED
      BY <1>1, <1>2, <2>3
  <1>9. ASSUME NEW h, IsDepth(more, h)
        PROVE  h = g2
    <2> DEFINE k == [i \in 0 .. n |-> h[i]]
    <2>1. h = [i \in 0 .. n + 1 |-> at(more, h, i)]
      BY <1>1, <1>2, <1>9
    <2>2. \A i \in 0 .. n : k[i] = h[i]
      OBVIOUS
    <2>3. \A i \in 0 .. n : h[i] = at(rs, h, i)
      <3>1. \A i \in 0 .. n : i \in 0 .. n + 1
        BY <1>1
      <3> QED
        BY <1>3, <2>1, <3>1
    <2>4. \A i \in 0 .. n : at(rs, k, i) = at(rs, h, i)
      <3> HIDE DEF k
      <3> QED
        BY <1>4, <2>2
    <2>5. k = [i \in 0 .. n |-> at(rs, k, i)]
      BY <2>3, <2>4
    <2>6. k = g
      <3> HIDE DEF k
      <3>1. IsDepth(rs, k)
        BY <1>2, <2>5 DEF n
      <3> QED
        BY <3>1 DEF OnlyDepth
    <2>7. \A i \in 0 .. n : h[i] = g[i]
      BY <2>2, <2>6
    <2>8. h[n + 1] = d(g)
      <3>1. h[n + 1] = d(h)
        <4>1. n + 1 \in 0 .. n + 1
          BY <1>1
        <4> QED
          BY <1>3, <2>1, <4>1
      <3> QED
        BY <1>4, <2>7, <3>1
    <2>9. h = [i \in 0 .. n + 1 |-> h[i]]
      BY <2>1
    <2> QED
      BY <1>7, <2>7, <2>8, <2>9
  <1> HIDE DEF g2
  <1>10. OnlyDepth(more, g2)
    BY <1>8, <1>9 DEF OnlyDepth
  <1> QED
    BY <1>5, <1>10 DEF n, more, d

(* The diagnostics of other rules report no open placeholder.               *)
LEMMA NoneOpenDiags ==
  ASSUME NEW flaw, NEW s, NEW e, NEW code \in Code \ {"UnterminatedPlaceholder"}
  PROVE  /\ NoneOpen(AttrDiags(flaw, s, e)) /\ NoneOpen(EntityDiags(flaw, s, e))
         /\ NoneOpen(<<>>) /\ NoneOpen(<<Diagnose(code, s, e)>>)
  <1>1. NoneOpen(<<>>) /\ NoneOpen(<<Diagnose(code, s, e)>>)
    BY DEF NoneOpen, Diagnose
  <1>2. NoneOpen(AttrDiags(flaw, s, e)) /\ NoneOpen(EntityDiags(flaw, s, e))
    BY <1>1 DEF AttrDiags, EntityDiags, NoneOpen, Diagnose
  <1> QED
    BY <1>1, <1>2

(* A tag that was never closed is reported under a code of its own.         *)
LEMMA NoneOpenUnclosed ==
  ASSUME NEW d, NEW e, Unclosed(d, e) \in Seq(Diag)
  PROVE  NoneOpen(Unclosed(d, e))
  <1>1. \A k \in DOMAIN Unclosed(d, e) : Unclosed(d, e)[k].code = "UnclosedTag"
    BY DEF Unclosed, Diagnose
  <1>2. DOMAIN Unclosed(d, e) = 1 .. Len(Unclosed(d, e))
    BY LenProperties
  <1> QED
    BY <1>1, <1>2 DEF NoneOpen

-----------------------------------------------------------------------------
(* The third layer is kept, step by step.                                   *)

(* No text has been read, so none is open and nothing has been told.        *)
LEMMA InitTInv == Init => TInv
  <1> SUFFICES ASSUME Init PROVE TInv
    OBVIOUS
  <1> DEFINE g == [i \in 0 .. 0 |-> 0]
  <1>1. /\ runs = <<>> /\ Len(runs) = 0 /\ diags = <<>> /\ Len(diags) = 0
        /\ pending = {} /\ phase = "reading"
    BY EmptySeq DEF Init
  <1>2. \A h : IsDepth(runs, h) <=> h = g
    <2>1. \A h : IsDepth(runs, h) <=> h = [i \in 0 .. 0 |->
            IF i = 0 THEN 0
            ELSE Depth(IF i > 1 /\ runs[i - 1].end = runs[i].start THEN h[i - 1] ELSE 0, runs[i].mark)]
      BY <1>1 DEF IsDepth
    <2>2. \A i \in 0 .. 0 : i = 0
      OBVIOUS
    <2> QED
      BY <2>1, <2>2
  <1>3. SaidOf(diags) = {} /\ BrokenOpen(runs, g) = {}
    BY <1>1 DEF SaidOf, BrokenOpen
  <1>4. Told(diags, runs, BrokenOpen(runs, g))
    BY <1>3, FS_EmptySet DEF Told
  <1> HIDE DEF g
  <1> QED
    BY <1>1, <1>2, <1>4 DEF TInv, TextInv, PendingIsLast, OnlyDepth

(* A step that reads no text, whatever it diagnoses.                        *)
LEMMA OtherTold ==
  ASSUME IInv, TInv, phase = "reading", phase' = "reading", UNCHANGED <<runs, pending>>,
         NEW b \in Seq(Diag), NoneOpen(b), diags' = diags \o b
  PROVE  TInv'
  <1>1. PICK g : OnlyDepth(runs, g) /\ TextInv(g)
    BY DEF TInv
  <1>2. Told(diags, runs, BrokenOpen(runs, g)) /\ PendingIsLast(pending, runs, g)
    BY <1>1 DEF TextInv
  <1>3. Told(diags', runs, BrokenOpen(runs, g))
    BY <1>2, ToldOther DEF IInv, TypeOK
  <1>4. TextInv(g)'
    BY <1>2, <1>3 DEF TextInv
  <1> QED
    BY <1>1, <1>4 DEF TInv

(* A run of text, which goes on with the pending one or starts a new one.   *)
LEMMA TextEventTold ==
  ASSUME IInv, TInv, phase = "reading", phase' = "reading",
         NEW run \in Run, NEW more \in Seq(Diag), NoneOpen(more), TextEvent(run, more)
  PROVE  TInv'
  <1> DEFINE n == Len(runs)
             cont == runs # <<>> /\ runs[n].end = run.start
  <1>1. PICK g : OnlyDepth(runs, g) /\ TextInv(g)
    BY DEF TInv
  <1>2. /\ runs \in Seq(Run) /\ diags \in Seq(Diag)
        /\ runs' = Append(runs, run)
        /\ pending' = NextPending(run)
        /\ diags' = diags \o more \o BrokenRunDiags(run)
    BY DEF TextEvent, IInv, TypeOK
  <1>3. PICK g2 : /\ OnlyDepth(runs', g2)
                  /\ \A i \in 0 .. n : g2[i] = g[i]
                  /\ g2[n + 1] = Depth(IF cont THEN g[n] ELSE 0, run.mark)
    BY <1>1, <1>2, DepthExtends
  <1>4. /\ n \in Nat /\ Len(runs') = n + 1 /\ runs'[n + 1] = run /\ runs' # <<>>
        /\ \A i \in 1 .. n : runs'[i] = runs[i]
        /\ (runs # <<>>) <=> (n > 0)
    BY <1>2, LenProperties, AppendProperties, EmptySeq
  <1>5. Told(diags \o more, runs, BrokenOpen(runs, g)) /\ PendingIsLast(pending, runs, g)
        /\ diags \o more \in Seq(Diag)
    BY <1>1, <1>2, ToldOther, ConcatProperties DEF TextInv
  <1>6. Contiguous(run) <=> cont
    BY <1>5 DEF PendingIsLast, Contiguous
  <1> HIDE DEF n, cont
  <1>7. PendingIsLast(pending', runs', g2)
    <2>1. ASSUME NEW p \in pending'
          PROVE  p.end = run.end /\ p.depth = g2[n + 1]
      <3>1. CASE cont
        <4>1. PICK q \in pending : p = Extended(q, run)
          BY <1>2, <1>6, <3>1 DEF NextPending
        <4>2. q.depth = g[n]
          BY <1>5, <3>1 DEF PendingIsLast, cont, n
        <4>3. p.end = run.end /\ p.depth = Depth(q.depth, run.mark)
          BY <4>1 DEF Extended
        <4> QED
          BY <1>3, <3>1, <4>2, <4>3
      <3>2. CASE ~ cont
        <4>1. p = FreshPending(run)
          BY <1>2, <1>6, <3>2 DEF NextPending
        <4>2. p.end = run.end /\ p.depth = Depth(0, run.mark)
          BY <4>1 DEF FreshPending
        <4> QED
          BY <1>3, <3>2, <4>2
      <3> QED
        BY <3>1, <3>2
    <2>2. pending' # {}
      <3>1. cont => pending # {}
        BY <1>5 DEF PendingIsLast, cont
      <3> QED
        BY <1>2, <1>6, <3>1 DEF NextPending
    <2> QED
      BY <1>4, <2>1, <2>2 DEF PendingIsLast
  <1>8. BrokenOpen(runs', g2) = IF cont THEN BrokenOpen(runs, g) ELSE AllOpen(runs, g)
    <2>1. ASSUME NEW i
          PROVE  i \in BrokenOpen(runs', g2) <=>
                   /\ i \in 1 .. n /\ g[i] > 0
                   /\ IF i = n THEN ~ cont ELSE runs[i].end # runs[i + 1].start
      <3>1. i \in BrokenOpen(runs', g2) <=>
              i \in 1 .. n + 1 /\ i # n + 1 /\ runs'[i].end # runs'[i + 1].start /\ g2[i] > 0
        BY <1>4 DEF BrokenOpen
      <3>2. (i \in 1 .. n + 1 /\ i # n + 1) <=> i \in 1 .. n
        BY <1>4
      <3>3. ASSUME i \in 1 .. n
            PROVE  /\ g2[i] = g[i] /\ runs'[i] = runs[i]
                   /\ i = n => runs'[i + 1] = run /\ runs # <<>>
                   /\ i # n => runs'[i + 1] = runs[i + 1]
        <4>1. i \in 0 .. n /\ n > 0 /\ (i # n => i + 1 \in 1 .. n)
          BY <1>4, <3>3
        <4> QED
          BY <1>3, <1>4, <3>3, <4>1
      <3>4. CASE i \in 1 .. n /\ i = n
        BY <3>1, <3>2, <3>3, <3>4 DEF cont
      <3>5. CASE i \in 1 .. n /\ i # n
        BY <3>1, <3>2, <3>3, <3>5
      <3>6. CASE i \notin 1 .. n
        BY <3>1, <3>2, <3>6
      <3> QED
        BY <3>4, <3>5, <3>6
    <2>2. CASE cont
      <3>1. ASSUME NEW i
            PROVE  i \in BrokenOpen(runs, g) <=>
                     i \in 1 .. n /\ i # n /\ runs[i].end # runs[i + 1].start /\ g[i] > 0
        BY DEF BrokenOpen, n
      <3> QED
        BY <2>1, <2>2, <3>1
    <2>3. CASE ~ cont
      <3>1. ASSUME NEW i
            PROVE  i \in AllOpen(runs, g) <=>
                     i \in 1 .. n /\ (i = n \/ runs[i].end # runs[i + 1].start) /\ g[i] > 0
        BY DEF AllOpen, n
      <3> QED
        BY <2>1, <2>3, <3>1
    <2> QED
      BY <2>2, <2>3
  <1>9. Told(diags', runs, BrokenOpen(runs', g2))
    <2>1. CASE cont
      <3>1. BrokenRunDiags(run) = <<>>
        BY <1>6, <2>1 DEF BrokenRunDiags
      <3>2. diags' = diags \o more
        BY <1>2, <1>5, <3>1, ConcatEmptySeq
      <3> QED
        BY <1>5, <1>8, <2>1, <3>2
    <2>2. CASE ~ cont
      <3>1. BrokenRunDiags(run) = PlaceholderDiags(pending)
        BY <1>6, <2>2 DEF BrokenRunDiags
      <3>2. Told(diags \o more \o PlaceholderDiags(pending), runs, AllOpen(runs, g))
        BY <1>5, ToldPending
      <3> QED
        BY <1>2, <1>8, <2>2, <3>1, <3>2
    <2> QED
      BY <2>1, <2>2
  <1>10. Told(diags', runs', BrokenOpen(runs', g2))
    <2>1. BrokenOpen(runs, g) \subseteq 1 .. n /\ AllOpen(runs, g) \subseteq 1 .. n
      BY DEF BrokenOpen, AllOpen, n
    <2>2. \A i \in BrokenOpen(runs', g2) : runs'[i] = runs[i]
      BY <1>4, <1>8, <2>1
    <2> QED
      BY <1>9, <2>2, ToldLater
  <1>11. TextInv(g2)'
    BY <1>7, <1>10 DEF TextInv
  <1> QED
    BY <1>3, <1>11 DEF TInv

(* Leaving the loop: the text that was pending is checked.                  *)
LEMMA FinishTold ==
  ASSUME IInv, TInv, phase = "reading", Finish
  PROVE  TInv'
  <1>1. PICK g : OnlyDepth(runs, g) /\ TextInv(g)
    BY DEF TInv
  <1> DEFINE ds == diags \o PlaceholderDiags(pending)
  <1>2. /\ diags \in Seq(Diag) /\ ds \in Seq(Diag) /\ Unclosed(1, SourceLen) \in Seq(Diag)
    <2>1. stack \in Seq(OpenTag) /\ Len(stack) \in Nat /\ SourceLen \in Nat /\ diags \in Seq(Diag)
      BY ConstantsOK, LenProperties DEF IInv, TypeOK
    <2>2. Unclosed(1, SourceLen) \in Seq(Diag)
      BY <2>1, UnclosedType
    <2> QED
      BY <2>1, <2>2, PlaceholderType, ConcatProperties DEF IInv
  <1>3. Told(ds, runs, AllOpen(runs, g))
    BY <1>1, <1>2, ToldPending DEF TextInv
  <1>4. NoneOpen(Unclosed(1, SourceLen))
    BY <1>2, NoneOpenUnclosed
  <1> HIDE DEF ds
  <1>5. Told(ds \o Unclosed(1, SourceLen), runs, AllOpen(runs, g))
    BY <1>2, <1>3, <1>4, ToldOther
  <1>6. diags' = ds \o Unclosed(1, SourceLen) /\ phase' = "done" /\ runs' = runs
    BY DEF Finish, ds
  <1>7. TextInv(g)'
    BY <1>5, <1>6 DEF TextInv
  <1> QED
    BY <1>1, <1>6, <1>7 DEF TInv

(* Every step keeps the third layer.                                        *)
LEMMA NextTInv == IInv /\ TInv /\ [Next]_vars => TInv'
  <1> SUFFICES ASSUME IInv, TInv, [Next]_vars PROVE TInv'
    OBVIOUS
  <1> DEFINE Quiet == /\ phase = "reading" /\ phase' = "reading" /\ UNCHANGED <<runs, pending>>
             Other(code) == code \in Code \ {"UnterminatedPlaceholder"}
  <1>1. ASSUME NEW w \in Widths, Consume(w)
        PROVE  phase = "reading" /\ phase' = "reading" /\ Pos \in Nat /\ Pos + w \in Nat
    BY <1>1, ConsumeType
  <1>2. diags \in Seq(Diag) /\ stack \in Seq(OpenTag) /\ Len(stack) \in Nat
    BY LenProperties DEF IInv, TypeOK
  <1>3. ASSUME NEW flaw \in Flaws, NEW s \in Nat, NEW e \in Nat
        PROVE  /\ AttrDiags(flaw, s, e) \in Seq(Diag) /\ NoneOpen(AttrDiags(flaw, s, e))
               /\ EntityDiags(flaw, s, e) \in Seq(Diag) /\ NoneOpen(EntityDiags(flaw, s, e))
    <2>1. flaw \in BOOLEAN
      BY ConstantsOK
    <2>2. Other("UnclosedTag")
      BY DEF Code
    <2> QED
      BY <2>1, <2>2, AttrDiagsType, NoneOpenDiags
  <1> HIDE DEF Quiet
  <1>4. ASSUME Quiet, UNCHANGED diags
        PROVE  TInv'
    <2>1. <<>> \in Seq(Diag) /\ NoneOpen(<<>>) /\ diags = diags \o <<>>
      BY <1>2, EmptySeq, ConcatEmptySeq DEF NoneOpen
    <2> QED
      BY <1>4, <2>1, OtherTold DEF Quiet
  <1>5. ASSUME Quiet, NEW code, Other(code), NEW s \in Nat, NEW e \in Nat,
               diags' = Append(diags, Diagnose(code, s, e))
        PROVE  TInv'
    <2> DEFINE b == <<Diagnose(code, s, e)>>
    <2>1. Diagnose(code, s, e) \in Diag /\ b \in Seq(Diag)
      BY <1>5, DiagType
    <2>2. NoneOpen(b)
      BY <1>5, NoneOpenDiags
    <2>3. diags' = diags \o b
      BY <1>2, <1>5, <2>1, AppendIsConcat
    <2> HIDE DEF b
    <2> QED
      BY <1>5, <2>1, <2>2, <2>3, OtherTold DEF Quiet
  <1>6. CASE StartEvent
    <2>1. ASSUME NEW w \in Widths, StartSuppressed(w) PROVE TInv'
      BY <1>1, <1>4, <2>1 DEF StartSuppressed, Quiet
    <2>2. ASSUME NEW w \in Widths, StartAtLimit(w) PROVE TInv'
      BY <1>1, <1>5, <2>2 DEF StartAtLimit, Quiet, Code
    <2>3. ASSUME NEW w \in Widths, NEW name \in Names, NEW flaw \in Flaws, StartPush(name, w, flaw)
          PROVE  TInv'
      <3>1. Pos \in Nat /\ Pos + w \in Nat /\ Quiet /\ diags' = diags \o AttrDiags(flaw, Pos, Pos + w)
        BY <1>1, <2>3 DEF StartPush, Quiet
      <3> QED
        BY <1>3, <3>1, OtherTold DEF Quiet
    <2> QED
      BY <1>6, <2>1, <2>2, <2>3 DEF StartEvent
  <1>7. CASE EmptyEvent
    <2>1. ASSUME NEW w \in Widths, EmptySuppressed(w) PROVE TInv'
      BY <1>1, <1>4, <2>1 DEF EmptySuppressed, Quiet
    <2>2. ASSUME NEW w \in Widths, EmptyAtLimit(w) PROVE TInv'
      BY <1>1, <1>5, <2>2 DEF EmptyAtLimit, Quiet, Code
    <2>3. ASSUME NEW w \in Widths, NEW name \in Names, NEW flaw \in Flaws, EmptyPush(name, w, flaw)
          PROVE  TInv'
      <3>1. Pos \in Nat /\ Pos + w \in Nat /\ Quiet /\ diags' = diags \o AttrDiags(flaw, Pos, Pos + w)
        BY <1>1, <2>3 DEF EmptyPush, Quiet
      <3> QED
        BY <1>3, <3>1, OtherTold DEF Quiet
    <2> QED
      BY <1>7, <2>1, <2>2, <2>3 DEF EmptyEvent
  <1>8. CASE EndEvent
    <2>1. ASSUME NEW w \in Widths, EndSuppressed(w) PROVE TInv'
      BY <1>1, <1>4, <2>1 DEF EndSuppressed, Quiet
    <2>2. ASSUME NEW w \in Widths, NEW name \in Names, EndOrphan(name, w) PROVE TInv'
      BY <1>1, <1>5, <2>2 DEF EndOrphan, Quiet, Code
    <2>3. ASSUME NEW w \in Widths, NEW name \in Names, NEW d \in 1 .. Len(stack), EndMatched(name, w, d)
          PROVE  TInv'
      <3>1. Pos \in Nat /\ Quiet /\ diags' = diags \o Unclosed(d + 1, Pos)
        BY <1>1, <2>3 DEF EndMatched, Quiet
      <3>2. d + 1 \in Nat \ {0} /\ d + 1 <= Len(stack) + 1
        BY <1>2
      <3>3. Unclosed(d + 1, Pos) \in Seq(Diag)
        BY <1>2, <3>1, <3>2, UnclosedType
      <3>4. NoneOpen(Unclosed(d + 1, Pos))
        BY <3>3, NoneOpenUnclosed
      <3> QED
        BY <3>1, <3>3, <3>4, OtherTold DEF Quiet
    <2> QED
      BY <1>8, <2>1, <2>2, <2>3 DEF EndEvent
  <1>9. CASE ContentEvent
    <2>1. ASSUME NEW w \in Widths, TextSuppressed(w) PROVE TInv'
      BY <1>1, <1>4, <2>1 DEF TextSuppressed, Quiet
    <2>2. ASSUME NEW w \in Widths, NEW mark \in Marks, NEW flaw \in Flaws, Text(w, mark, flaw)
          PROVE  TInv'
      <3> DEFINE run == [start |-> Pos, end |-> Pos + w, mark |-> mark]
      <3>1. /\ Pos \in Nat /\ Pos + w \in Nat /\ phase = "reading" /\ phase' = "reading"
        BY <1>1, <2>2 DEF Text
      <3>2. run \in Run
        BY <3>1 DEF Run
      <3>3. TextEvent(run, EntityDiags(flaw, Pos, Pos + w))
        BY <2>2 DEF Text
      <3> HIDE DEF run
      <3> QED
        BY <1>3, <3>1, <3>2, <3>3, TextEventTold
    <2>3. ASSUME NEW w \in Widths, NEW mark \in Marks, CData(w, mark)
          PROVE  TInv'
      <3> DEFINE run == [start |-> Pos + CDataOpen, end |-> Pos + w - CDataClose, mark |-> mark]
      <3>1. /\ Pos \in Nat /\ w \in Nat /\ CDataOpen \in Nat /\ CDataClose \in Nat
            /\ w >= CDataOpen + CDataClose /\ phase = "reading" /\ phase' = "reading"
        BY <1>1, <2>3, ConstantsOK DEF CData
      <3>2. run \in Run /\ <<>> \in Seq(Diag) /\ NoneOpen(<<>>)
        BY <3>1, EmptySeq DEF Run, NoneOpen
      <3>3. TextEvent(run, <<>>)
        BY <2>3 DEF CData
      <3> HIDE DEF run
      <3> QED
        BY <3>1, <3>2, <3>3, TextEventTold
    <2> QED
      BY <1>9, <2>1, <2>2, <2>3 DEF ContentEvent
  <1>10. CASE \E w \in Widths : Ignored(w)
    BY <1>1, <1>4, <1>10 DEF Ignored, Quiet
  <1>11. CASE \E skipTo \in 1 .. SourceLen : Resync(skipTo)
    BY <1>4, <1>11 DEF Resync, Quiet
  <1>12. CASE Stuck \/ Eof
    BY <1>12, FinishTold DEF Stuck, Eof
  <1>13. CASE UNCHANGED vars
    BY <1>13 DEF vars, TInv, TextInv
  <1> QED
    BY <1>6, <1>7, <1>8, <1>9, <1>10, <1>11, <1>12, <1>13 DEF Next

(* Rule 6 is applied once to every maximal contiguous text, in however many *)
(* runs it arrives: one diagnostic for each that leaves an opener unclosed, *)
(* none for any other.                                                      *)
THEOREM OpenTextIsReportedOnce == Spec => []OpenTextReportedOnce
  <1>1. TInv => OpenTextReportedOnce
    <2> SUFFICES ASSUME TInv, phase = "done" PROVE OpenTextReportedOnce
      BY DEF OpenTextReportedOnce
    <2>1. PICK g : OnlyDepth(runs, g) /\ TextInv(g)
      BY DEF TInv
    <2>2. DepthAfter = g
      <3>1. DepthAfter = CHOOSE h : IsDepth(runs, h)
        BY DEF DepthAfter, IsDepth
      <3> QED
        BY <2>1, <3>1 DEF OnlyDepth
    <2>3. Told(diags, runs, AllOpen(runs, g))
      BY <2>1 DEF TextInv
    <2> DEFINE last == {i \in 1 .. Len(runs) : i = Len(runs) \/ runs[i].end # runs[i + 1].start}
    <2>4. {i \in last : DepthAfter[i] > 0} = AllOpen(runs, g)
      BY <2>2 DEF AllOpen
    <2> HIDE DEF last
    <2> QED
      BY <2>3, <2>4 DEF OpenTextReportedOnce, Told, SaidOf, last
  <1>2. Spec => []TInv
    BY InitIInv, NextIInv, InitTInv, NextTInv, PTL DEF Spec
  <1> QED
    BY <1>1, <1>2, PTL
==============================================================================
