---------------------------- MODULE NestingProofs ----------------------------
(* Theorems about build_tree on documents whose tags balance, for every     *)
(* source length, depth limit and set of names: the counter is exact, and   *)
(* the builder implements DocumentTree.                                     *)
EXTENDS Nesting, TreeBuilderProofs

-----------------------------------------------------------------------------
(* The invariant of the builder, the exact counter, and the type of nest.   *)
OpenRecord == [name : Names, start : Nat]

NestInv ==
  /\ IInv
  /\ nest \in Seq(OpenRecord)
  /\ CounterIsExact

(* Recovery is what rules 1 and 2 do: they have not been applied.           *)
NoRecovery(ds) == \A i \in 1 .. Len(ds) : ds[i].code \notin {"UnclosedTag", "UnexpectedCloseTag"}

(* The spans an over-deep subtree was reported at.                          *)
CutOf(ds) ==
  {[start |-> ds[i].start, end |-> ds[i].end] :
     i \in {j \in 1 .. Len(ds) : ds[j].code = "NestingLimitExceeded"}}

(* The completed elements as DocumentTree has them, without their children. *)
Bare(n) == [name |-> n.name, start |-> n.start, end |-> n.end]
ElementsOf(ns) == {Bare(n) : n \in ns}

(* Diagnostics of tags and text that concern neither recovery nor the limit.*)
Small(ds) ==
  \A i \in 1 .. Len(ds) :
    ds[i].code \notin {"UnclosedTag", "UnexpectedCloseTag", "NestingLimitExceeded"}

(* Diagnostics that concern neither leave both as they are.                 *)
LEMMA SmallConcat ==
  ASSUME NEW a \in Seq(Diag), NEW b \in Seq(Diag), Small(b)
  PROVE  /\ CutOf(a \o b) = CutOf(a)
         /\ NoRecovery(a) => NoRecovery(a \o b)
  <1> DEFINE ab == a \o b
  <1>1. /\ Len(a) \in Nat /\ Len(b) \in Nat /\ Len(ab) = Len(a) + Len(b)
        /\ \A i \in 1 .. Len(a) : ab[i] = a[i]
        /\ \A i \in Len(a) + 1 .. Len(ab) : i - Len(a) \in 1 .. Len(b) /\ ab[i] = b[i - Len(a)]
    BY LenProperties, ConcatProperties
  <1> HIDE DEF ab
  <1>2. \A i \in 1 .. Len(ab) : i \in 1 .. Len(a) \/ i \in Len(a) + 1 .. Len(ab)
    BY <1>1
  <1>3. \A i \in Len(a) + 1 .. Len(ab) :
          ab[i].code \notin {"UnclosedTag", "UnexpectedCloseTag", "NestingLimitExceeded"}
    BY <1>1 DEF Small
  <1>4. \A i \in 1 .. Len(a) : i \in 1 .. Len(ab)
    BY <1>1
  <1>5. {j \in 1 .. Len(ab) : ab[j].code = "NestingLimitExceeded"}
          = {j \in 1 .. Len(a) : a[j].code = "NestingLimitExceeded"}
    BY <1>1, <1>2, <1>3, <1>4
  <1>6. CutOf(ab) = CutOf(a)
    BY <1>1, <1>5 DEF CutOf
  <1>7. NoRecovery(a) => NoRecovery(ab)
    BY <1>1, <1>2, <1>3 DEF NoRecovery
  <1> QED
    BY <1>6, <1>7 DEF ab

(* What is wrong inside a tag or a text is neither.                         *)
LEMMA SmallDiags ==
  ASSUME NEW flaw, NEW s \in Nat, NEW e \in Nat
  PROVE  /\ AttrDiags(flaw, s, e) \in Seq(Diag) /\ Small(AttrDiags(flaw, s, e))
         /\ EntityDiags(flaw, s, e) \in Seq(Diag) /\ Small(EntityDiags(flaw, s, e))
  <1>1. \A code \in {"AttrDiagnostic", "InvalidEntity"} :
          <<Diagnose(code, s, e)>> \in Seq(Diag) /\ Small(<<Diagnose(code, s, e)>>)
    BY DiagType DEF Small, Diagnose, Code
  <1>2. <<>> \in Seq(Diag) /\ Small(<<>>)
    BY EmptySeq DEF Small
  <1> QED
    BY <1>1, <1>2 DEF AttrDiags, EntityDiags

(* A subtree over the limit is reported.                                    *)
LEMMA CutAppend ==
  ASSUME NEW a \in Seq(Diag), NEW s \in Nat, NEW e \in Nat
  PROVE  LET ax == Append(a, Diagnose("NestingLimitExceeded", s, e))
         IN  /\ CutOf(ax) = CutOf(a) \cup {[start |-> s, end |-> e]}
             /\ NoRecovery(a) => NoRecovery(ax)
  <1> DEFINE x == Diagnose("NestingLimitExceeded", s, e)
             ax == Append(a, x)
             cut(ds) == {j \in 1 .. Len(ds) : ds[j].code = "NestingLimitExceeded"}
  <1>0. x \in Diag /\ x.code = "NestingLimitExceeded" /\ x.start = s /\ x.end = e
    BY DiagType DEF Diagnose, Code
  <1> HIDE DEF x
  <1>1. /\ Len(a) \in Nat /\ Len(ax) = Len(a) + 1
        /\ \A i \in 1 .. Len(a) : ax[i] = a[i]
        /\ ax[Len(a) + 1] = x
    BY <1>0, LenProperties, AppendProperties
  <1> HIDE DEF ax
  <1>2. \A i : i \in 1 .. Len(ax) <=> i \in 1 .. Len(a) \/ i = Len(a) + 1
    BY <1>1
  <1>3. \A j : j \in cut(ax) <=> j \in cut(a) \/ j = Len(a) + 1
    BY <1>0, <1>1, <1>2
  <1>4. \A j \in cut(a) : ax[j] = a[j]
    BY <1>1
  <1>5. CutOf(a) = {[start |-> a[i].start, end |-> a[i].end] : i \in cut(a)}
        /\ CutOf(ax) = {[start |-> ax[i].start, end |-> ax[i].end] : i \in cut(ax)}
    BY DEF CutOf
  <1> HIDE DEF cut
  <1>6. CutOf(ax) = CutOf(a) \cup {[start |-> s, end |-> e]}
    BY <1>0, <1>1, <1>3, <1>4, <1>5
  <1>7. NoRecovery(a) => NoRecovery(ax)
    BY <1>0, <1>1, <1>2 DEF NoRecovery
  <1> QED
    BY <1>6, <1>7 DEF ax, x

-----------------------------------------------------------------------------
(* What NestInv says of the state a step is taken in.                       *)
LEMMA NestFacts ==
  ASSUME NestInv
  PROVE  /\ Len(nest) \in Nat /\ Len(stack) \in Nat /\ suppressed \in Nat
         /\ MaxTreeDepth \in Nat \ {0} /\ diags \in Seq(Diag) /\ Pos \in Nat
         /\ Len(nest) = Len(stack) + suppressed
         /\ suppressed > 0 => Len(stack) = MaxTreeDepth
         /\ Len(stack) <= MaxTreeDepth
         /\ \A i \in 1 .. Len(stack) : stack[i].name = nest[i].name /\ stack[i].start = nest[i].start
         /\ NoRecovery(diags)
  BY LenProperties, ConstantsOK DEF NestInv, IInv, TypeOK, CounterIsExact, NoRecovery, Pos

(* A start tag: the nesting gets one deeper, and so does the stack or the   *)
(* counter.                                                                 *)
LEMMA OpenSimulates ==
  ASSUME NestInv, NEW name \in Names, OpenStep(name)
  PROVE  /\ nest' \in Seq(OpenRecord) /\ CounterIsExact'
         /\ \E w \in Widths : Doc!Open(name, w)
  <1> DEFINE r == [name |-> name, start |-> Pos]
  <1>1. PICK w \in Widths :
          StartSuppressed(w) \/ StartAtLimit(w) \/ \E flaw \in Flaws : StartPush(name, w, flaw)
    BY DEF OpenStep
  <1>2. Pos' = Pos + w /\ Pos + w <= SourceLen /\ Pos \in Nat /\ Pos + w \in Nat
    <2>1. Consume(w)
      BY <1>1 DEF StartSuppressed, StartAtLimit, StartPush
    <2> QED
      BY <2>1, ConsumeType DEF NestInv, Consume
  <1>3. r \in OpenRecord
    BY <1>2 DEF OpenRecord
  <1> HIDE DEF r
  <1>4. nest' = Append(nest, r)
    BY DEF OpenStep, r
  <1>5. /\ nest' \in Seq(OpenRecord) /\ Len(nest') = Len(nest) + 1
        /\ \A i \in 1 .. Len(nest) : nest'[i] = nest[i]
        /\ nest'[Len(nest) + 1] = r
    BY <1>3, <1>4, AppendProperties DEF NestInv
  <1>6. CASE StartSuppressed(w)
    <2>1. /\ suppressed > 0 /\ suppressed' = suppressed + 1
          /\ stack' = stack /\ nodes' = nodes /\ diags' = diags
      BY <1>6 DEF StartSuppressed, tree
    <2>2. Len(nest) # MaxTreeDepth /\ \A i \in 1 .. Len(stack) : i \in 1 .. Len(nest)
      BY <2>1, NestFacts
    <2>3. Len(nest') = Len(stack) + suppressed' /\ Len(stack) = MaxTreeDepth
      <3>1. /\ Len(nest) = Len(stack) + suppressed /\ Len(stack) = MaxTreeDepth
            /\ Len(stack) \in Nat /\ suppressed \in Nat
        BY <2>1, NestFacts
      <3>2. Len(nest') = Len(nest) + 1 /\ suppressed' = suppressed + 1
        BY <1>5, <2>1
      <3> QED
        BY ONLY <3>1, <3>2
    <2>4. \A i \in 1 .. Len(stack) : nest'[i] = nest[i]
      BY <1>5, <2>2
    <2>5. CounterIsExact'
      BY <2>1, <2>3, <2>4, NestFacts DEF CounterIsExact, NoRecovery
    <2>6. Doc!Open(name, w)
      BY <1>2, <1>4, <2>1, <2>2 DEF Doc!Open, Doc!Advance, Doc!CutAt, limitDiags, r
    <2> QED
      BY <1>5, <2>5, <2>6
  <1>7. CASE StartAtLimit(w)
    <2>1. /\ suppressed = 0 /\ suppressed' = 1 /\ Len(stack) >= MaxTreeDepth
          /\ stack' = stack /\ nodes' = nodes
          /\ diags' = Append(diags, Diagnose("NestingLimitExceeded", Pos, Pos + w))
      BY <1>7 DEF StartAtLimit, tree
    <2>2. Len(nest) = MaxTreeDepth /\ Len(stack) = MaxTreeDepth
          /\ \A i \in 1 .. Len(stack) : i \in 1 .. Len(nest)
      BY <2>1, NestFacts
    <2>3. NoRecovery(diags') /\ CutOf(diags') = CutOf(diags) \cup {[start |-> Pos, end |-> Pos + w]}
      BY <1>2, <2>1, NestFacts, CutAppend
    <2>4. CounterIsExact'
      BY <1>5, <2>1, <2>2, <2>3, NestFacts DEF CounterIsExact, NoRecovery
    <2>5. Doc!Open(name, w)
      BY <1>2, <1>4, <2>1, <2>2, <2>3 DEF Doc!Open, Doc!Advance, Doc!CutAt, limitDiags, CutOf, r
    <2> QED
      BY <1>5, <2>4, <2>5
  <1>8. ASSUME NEW flaw \in Flaws, StartPush(name, w, flaw)
        PROVE  CounterIsExact' /\ Doc!Open(name, w)
    <2> DEFINE t == [name |-> name, start |-> Pos, children |-> <<>>]
    <2>1. /\ suppressed = 0 /\ suppressed' = 0 /\ Len(stack) < MaxTreeDepth
          /\ stack' = Append(stack, t) /\ nodes' = nodes
          /\ diags' = diags \o AttrDiags(flaw, Pos, Pos + w)
      BY <1>8 DEF StartPush
    <2>2. t \in OpenTag /\ t.name = r.name /\ t.start = r.start
      BY <1>2, EmptySeq DEF OpenTag, r
    <2> HIDE DEF t
    <2>3. /\ Len(stack') = Len(stack) + 1
          /\ \A i \in 1 .. Len(stack) : stack'[i] = stack[i]
          /\ stack'[Len(stack) + 1] = t
      BY <2>1, <2>2, AppendProperties DEF NestInv, IInv, TypeOK
    <2>4. Len(nest) = Len(stack) /\ Len(nest) # MaxTreeDepth
          /\ \A i \in 1 .. Len(stack) + 1 : i \in 1 .. Len(stack) \/ i = Len(stack) + 1
      BY <2>1, NestFacts
    <2>5. AttrDiags(flaw, Pos, Pos + w) \in Seq(Diag) /\ Small(AttrDiags(flaw, Pos, Pos + w))
      BY <1>2, SmallDiags
    <2>6. NoRecovery(diags') /\ CutOf(diags') = CutOf(diags)
      BY <2>1, <2>5, NestFacts, SmallConcat
    <2>7. CounterIsExact'
      <3>1. \A i \in 1 .. Len(stack') : stack'[i].name = nest'[i].name /\ stack'[i].start = nest'[i].start
        BY <1>5, <2>2, <2>3, <2>4, NestFacts
      <3>2. Len(nest') = Len(stack') /\ Len(stack') <= MaxTreeDepth
        BY <1>5, <2>1, <2>3, <2>4, NestFacts
      <3> QED
        BY <2>1, <2>6, <3>1, <3>2, NestFacts DEF CounterIsExact, NoRecovery
    <2>8. Doc!Open(name, w)
      BY <1>2, <1>4, <2>1, <2>4, <2>6 DEF Doc!Open, Doc!Advance, Doc!CutAt, limitDiags, CutOf, r
    <2> QED
      BY <2>7, <2>8
  <1> QED
    BY <1>1, <1>5, <1>6, <1>7, <1>8

(* A step that moves neither the nesting nor the stack and recovers from    *)
(* nothing keeps the counter exact.                                         *)
LEMMA SameNesting ==
  ASSUME NestInv, nest' = nest, suppressed' = suppressed, Len(stack') = Len(stack),
         \A i \in 1 .. Len(stack) : stack'[i].name = stack[i].name /\ stack'[i].start = stack[i].start,
         NoRecovery(diags')
  PROVE  CounterIsExact'
  <1>1. /\ Len(nest') = Len(stack') + suppressed'
        /\ suppressed' > 0 => Len(stack') = MaxTreeDepth
        /\ Len(stack') <= MaxTreeDepth
    BY NestFacts
  <1>2. \A i \in 1 .. Len(stack') : stack'[i].name = nest'[i].name /\ stack'[i].start = nest'[i].start
    BY NestFacts
  <1> QED
    BY <1>1, <1>2 DEF CounterIsExact, NoRecovery

(* One more element of the tree.                                            *)
LEMMA ElementsAdd ==
  ASSUME NEW ns, NEW n
  PROVE  ElementsOf(ns \cup {n}) = ElementsOf(ns) \cup {Bare(n)}
  BY DEF ElementsOf

(* A self-closing tag, kept or dropped, is a leaf.                          *)
LEMMA LeafSimulates ==
  ASSUME NestInv, EmptyEvent, nest' = nest
  PROVE  CounterIsExact' /\ \E w \in Widths, name \in Names : Doc!Leaf(name, w)
  <1>1. PICK w \in Widths :
          \/ EmptySuppressed(w)
          \/ EmptyAtLimit(w)
          \/ \E name \in Names, flaw \in Flaws : EmptyPush(name, w, flaw)
    BY DEF EmptyEvent
  <1>2. Pos' = Pos + w /\ Pos + w <= SourceLen /\ Pos \in Nat /\ Pos + w \in Nat
    <2>1. Consume(w)
      BY <1>1 DEF EmptySuppressed, EmptyAtLimit, EmptyPush
    <2> QED
      BY <2>1, ConsumeType DEF NestInv, Consume
  <1>3. ASSUME Len(stack) = MaxTreeDepth
        PROVE  \E name : name \in Names
    <2>1. 1 \in 1 .. Len(stack)
      BY <1>3, NestFacts
    <2> QED
      BY <2>1, OpenTagType DEF NestInv, IInv, TypeOK
  <1>4. CASE EmptySuppressed(w)
    <2>1. /\ suppressed > 0 /\ suppressed' = suppressed
          /\ stack' = stack /\ nodes' = nodes /\ diags' = diags
      BY <1>4 DEF EmptySuppressed, tree
    <2>2. Len(nest) > MaxTreeDepth /\ Len(stack) = MaxTreeDepth
      BY <2>1, NestFacts
    <2>3. CounterIsExact'
      BY <2>1, SameNesting, NestFacts
    <2>4. PICK name \in Names : TRUE
      BY <1>3, <2>2
    <2>5. Len(nest) # MaxTreeDepth /\ ~ (Len(nest) < MaxTreeDepth)
      BY <2>2, NestFacts
    <2>6. Doc!Leaf(name, w)
      BY <1>2, <2>1, <2>5 DEF Doc!Leaf, Doc!Advance, Doc!CutAt, limitDiags
    <2> QED
      BY <2>3, <2>6
  <1>5. CASE EmptyAtLimit(w)
    <2>1. /\ suppressed = 0 /\ suppressed' = suppressed /\ Len(stack) >= MaxTreeDepth
          /\ stack' = stack /\ nodes' = nodes
          /\ diags' = Append(diags, Diagnose("NestingLimitExceeded", Pos, Pos + w))
      BY <1>5 DEF EmptyAtLimit, tree
    <2>2. Len(nest) = MaxTreeDepth /\ Len(stack) = MaxTreeDepth
      BY <2>1, NestFacts
    <2>3. NoRecovery(diags') /\ CutOf(diags') = CutOf(diags) \cup {[start |-> Pos, end |-> Pos + w]}
      BY <1>2, <2>1, NestFacts, CutAppend
    <2>4. CounterIsExact'
      BY <2>1, <2>3, SameNesting
    <2>5. PICK name \in Names : TRUE
      BY <1>3, <2>2
    <2>6. Doc!Leaf(name, w)
      BY <1>2, <2>1, <2>2, <2>3 DEF Doc!Leaf, Doc!Advance, Doc!CutAt, limitDiags, CutOf
    <2> QED
      BY <2>4, <2>6
  <1>6. ASSUME NEW name \in Names, NEW flaw \in Flaws, EmptyPush(name, w, flaw)
        PROVE  CounterIsExact' /\ Doc!Leaf(name, w)
    <2> DEFINE el == [name |-> name, start |-> Pos, end |-> Pos + w, children |-> <<>>]
               ref == ElementRef(Pos, Pos + w)
    <2>1. /\ suppressed = 0 /\ suppressed' = suppressed /\ Len(stack) < MaxTreeDepth
          /\ stack' = AttachTo(stack, ref) /\ nodes' = nodes \cup {el}
          /\ diags' = diags \o AttrDiags(flaw, Pos, Pos + w)
      BY <1>6 DEF EmptyPush
    <2>2. ref \in Ref /\ Bare(el) = [name |-> name, start |-> Pos, end |-> Pos + w]
      BY <1>2 DEF ElementRef, Ref, Bare
    <2> HIDE DEF ref, el
    <2>3. /\ Len(stack') = Len(stack)
          /\ \A i \in 1 .. Len(stack) : stack'[i].name = stack[i].name /\ stack'[i].start = stack[i].start
      BY <2>1, <2>2, AttachType DEF NestInv, IInv, TypeOK
    <2>4. AttrDiags(flaw, Pos, Pos + w) \in Seq(Diag) /\ Small(AttrDiags(flaw, Pos, Pos + w))
      BY <1>2, SmallDiags
    <2>5. NoRecovery(diags') /\ CutOf(diags') = CutOf(diags)
      BY <2>1, <2>4, NestFacts, SmallConcat
    <2>6. CounterIsExact'
      BY <2>1, <2>3, <2>5, SameNesting
    <2>7. Len(nest) < MaxTreeDepth /\ Len(nest) # MaxTreeDepth
      BY <2>1, NestFacts
    <2>8. ElementsOf(nodes') = ElementsOf(nodes) \cup {[name |-> name, start |-> Pos, end |-> Pos + w]}
      BY <2>1, <2>2, ElementsAdd
    <2>9. Doc!Leaf(name, w)
      BY <1>2, <2>5, <2>7, <2>8
         DEF Doc!Leaf, Doc!Advance, Doc!CutAt, limitDiags, CutOf, ElementsOf, Bare
    <2> QED
      BY <2>6, <2>9
  <1> QED
    BY <1>1, <1>4, <1>5, <1>6

(* The close tag of the innermost open tag completes that tag's element and *)
(* nothing else, or counts down by one.                                     *)
LEMMA CloseSimulates ==
  ASSUME NestInv, BalancedClose
  PROVE  /\ nest' \in Seq(OpenRecord) /\ CounterIsExact'
         /\ \E w \in Widths : Doc!Close(w)
  <1> DEFINE m == Len(nest)
             top == nest[m]
             n == Len(stack)
  <1>1. /\ nest # <<>> /\ m \in Nat /\ m >= 1 /\ nest' = SubSeq(nest, 1, m - 1)
        /\ m - 1 \in 0 .. m
    BY NestFacts, EmptySeq DEF BalancedClose, NestInv
  <1>2. /\ nest' \in Seq(OpenRecord) /\ Len(nest') = m - 1
        /\ \A i \in 1 .. m - 1 : nest'[i] = nest[i]
    BY <1>1, PrefixType DEF NestInv
  <1>3. PICK w \in Widths :
          \/ EndSuppressed(w)
          \/ EndOrphan(top.name, w)
          \/ \E d \in 1 .. n : EndMatched(top.name, w, d)
    BY DEF BalancedClose, EndStep
  <1>4. Pos' = Pos + w /\ Pos + w <= SourceLen /\ Pos \in Nat /\ Pos + w \in Nat
    <2>1. Consume(w)
      BY <1>3 DEF EndSuppressed, EndOrphan, EndMatched
    <2> QED
      BY <2>1, ConsumeType DEF NestInv, Consume
  <1>5. /\ n \in Nat /\ suppressed \in Nat /\ m = n + suppressed /\ n <= MaxTreeDepth
        /\ stack \in Seq(OpenTag) /\ MaxTreeDepth \in Nat \ {0}
    BY NestFacts DEF NestInv, IInv, TypeOK
  <1>6. CASE EndSuppressed(w)
    <2>1. /\ suppressed > 0 /\ suppressed' = suppressed - 1
          /\ stack' = stack /\ nodes' = nodes /\ diags' = diags
      BY <1>6 DEF EndSuppressed, tree
    <2>2. n = MaxTreeDepth /\ ~ (m <= MaxTreeDepth) /\ m - 1 = n + suppressed'
      BY <1>5, <2>1, NestFacts
    <2>3. \A i \in 1 .. n : i \in 1 .. m - 1
      BY <1>5, <2>1
    <2>4. \A i \in 1 .. n : stack'[i].name = nest'[i].name /\ stack'[i].start = nest'[i].start
      BY <1>2, <2>1, <2>3, NestFacts
    <2>5. CounterIsExact'
      BY <1>2, <2>1, <2>2, <2>4, NestFacts DEF CounterIsExact, NoRecovery
    <2>6. Doc!Close(w)
      BY <1>1, <1>4, <2>1, <2>2 DEF Doc!Close, Doc!Advance, limitDiags
    <2> QED
      BY <1>2, <2>5, <2>6
  <1>7. ASSUME suppressed = 0
        PROVE  /\ m = n /\ n \in 1 .. n /\ m <= MaxTreeDepth
               /\ stack[n].name = top.name /\ stack[n].start = top.start
    BY <1>1, <1>5, <1>7, NestFacts
  <1>8. ~ EndOrphan(top.name, w)
    <2> SUFFICES ASSUME EndOrphan(top.name, w) PROVE FALSE
      OBVIOUS
    <2>1. suppressed = 0 /\ \A i \in 1 .. n : stack[i].name # top.name
      BY DEF EndOrphan
    <2> QED
      BY <1>7, <2>1
  <1>9. ASSUME NEW d \in 1 .. n, EndMatched(top.name, w, d)
        PROVE  CounterIsExact' /\ Doc!Close(w)
    <2>1. /\ suppressed = 0 /\ suppressed' = 0
          /\ \A i \in d + 1 .. n : stack[i].name # top.name
          /\ diags' = diags \o Unclosed(d + 1, Pos)
          /\ CloseDownTo(d, Pos, Pos + w)
      BY <1>9 DEF EndMatched
    <2>2. d = n
      <3>1. d # n => n \in d + 1 .. n
        BY <1>5
      <3> QED
        BY <1>7, <2>1, <3>1
    <2>3. Unclosed(n + 1, Pos) \in Seq(Diag) /\ Small(Unclosed(n + 1, Pos))
      <3>1. n + 1 \in Nat \ {0} /\ n + 1 <= n + 1
        BY <1>5
      <3>2. Unclosed(n + 1, Pos) \in Seq(Diag)
        BY <1>4, <1>5, <3>1, UnclosedType
      <3>3. DOMAIN Unclosed(n + 1, Pos) = 1 .. 0
        BY <1>5 DEF Unclosed
      <3>4. 1 .. Len(Unclosed(n + 1, Pos)) = 1 .. 0
        BY <3>2, <3>3, LenProperties
      <3> QED
        BY <3>2, <3>4 DEF Small
    <2>4. NoRecovery(diags') /\ CutOf(diags') = CutOf(diags)
      BY <2>1, <2>2, <2>3, NestFacts, SmallConcat
    <2> DEFINE c == Closed(n, n, Pos, Pos + w)
               below == SubSeq(stack, 1, n - 1)
               ref == ElementRef(stack[n].start, Pos + w)
    <2>5. nodes' = nodes \cup {c}
      <3>1. nodes' = nodes \cup {Closed(i, n, Pos, Pos + w) : i \in n .. n}
        BY <2>1, <2>2 DEF CloseDownTo
      <3>2. n .. n = {n}
        BY <1>5
      <3> HIDE DEF n
      <3>3. {Closed(i, n, Pos, Pos + w) : i \in {n}} = {Closed(n, n, Pos, Pos + w)}
        OBVIOUS
      <3> QED
        BY <3>1, <3>2, <3>3
    <2>6. Bare(c) = [name |-> top.name, start |-> top.start, end |-> Pos + w]
      BY <1>7, <2>1 DEF Closed, Bare
    <2> HIDE DEF c
    <2>7. ElementsOf(nodes') = ElementsOf(nodes) \cup {[name |-> top.name, start |-> top.start, end |-> Pos + w]}
      BY <2>5, <2>6, ElementsAdd
    <2>8. Doc!Close(w)
      BY <1>1, <1>4, <1>7, <2>1, <2>4, <2>7
         DEF Doc!Close, Doc!Advance, limitDiags, CutOf, ElementsOf, Bare
    <2>9. ref \in Ref
      BY <1>4, <1>5, <1>7, <2>1, OpenTagType DEF ElementRef, Ref
    <2>10. /\ below \in Seq(OpenTag) /\ Len(below) = n - 1
           /\ \A i \in 1 .. n - 1 : below[i] = stack[i]
      <3>1. n - 1 \in 0 .. n
        BY <1>5, <1>7, <2>1
      <3> QED
        BY <1>5, <3>1, PrefixType
    <2>11. stack' = AttachTo(below, ref)
      BY <2>1, <2>2 DEF CloseDownTo
    <2> HIDE DEF below, ref
    <2>12. /\ Len(stack') = n - 1
           /\ \A i \in 1 .. n - 1 : stack'[i].name = stack[i].name /\ stack'[i].start = stack[i].start
      <3>1. /\ Len(AttachTo(below, ref)) = Len(below)
            /\ \A i \in 1 .. Len(below) :
                 /\ AttachTo(below, ref)[i].name = below[i].name
                 /\ AttachTo(below, ref)[i].start = below[i].start
        BY <2>9, <2>10, AttachType
      <3> HIDE DEF n
      <3>2. /\ Len(AttachTo(below, ref)) = n - 1
            /\ \A i \in 1 .. n - 1 :
                 /\ AttachTo(below, ref)[i].name = stack[i].name
                 /\ AttachTo(below, ref)[i].start = stack[i].start
        BY <2>10, <3>1
      <3> QED
        BY <2>11, <3>2
    <2>13. \A i \in 1 .. n - 1 : i \in 1 .. n
      BY <1>5
    <2>14. \A i \in 1 .. n - 1 : stack'[i].name = nest'[i].name /\ stack'[i].start = nest'[i].start
      BY <1>2, <1>7, <2>1, <2>12, <2>13, NestFacts
    <2>15. Len(nest') = Len(stack') + suppressed' /\ Len(stack') <= MaxTreeDepth
      BY <1>2, <1>5, <1>7, <2>1, <2>12
    <2>16. CounterIsExact'
      <3>1. \A i \in 1 .. Len(stack') : stack'[i].name = nest'[i].name /\ stack'[i].start = nest'[i].start
        BY <2>12, <2>14
      <3>2. ~ (suppressed' > 0)
        BY <2>1
      <3> QED
        BY <2>4, <2>15, <3>1, <3>2 DEF CounterIsExact, NoRecovery
    <2> QED
      BY <2>8, <2>16
  <1> QED
    BY <1>2, <1>3, <1>6, <1>8, <1>9

(* The placeholder check recovers from nothing and cuts nothing.            *)
LEMMA SmallPlaceholder ==
  ASSUME TypeOK
  PROVE  /\ PlaceholderDiags(pending) \in Seq(Diag) /\ Small(PlaceholderDiags(pending))
         /\ \A run : BrokenRunDiags(run) \in Seq(Diag) /\ Small(BrokenRunDiags(run))
  <1>1. \A x, y : Small(<<Diagnose("UnterminatedPlaceholder", x, y)>>)
    BY DEF Small, Diagnose
  <1>2. <<>> \in Seq(Diag) /\ Small(<<>>)
    BY EmptySeq DEF Small
  <1>3. PlaceholderDiags(pending) \in Seq(Diag) /\ Small(PlaceholderDiags(pending))
    BY <1>1, <1>2, PlaceholderType DEF PlaceholderDiags
  <1> QED
    BY <1>2, <1>3 DEF BrokenRunDiags

(* Text only adds itself to the innermost open tag.                         *)
LEMMA TextKeepsNesting ==
  ASSUME NestInv, nest' = nest, NEW run \in Run, NEW es \in Seq(Diag), Small(es),
         TextEvent(run, es)
  PROVE  /\ CounterIsExact'
         /\ nodes' = nodes /\ CutOf(diags') = CutOf(diags)
  <1> DEFINE ref == TextRef(run.start, run.end)
             bs == BrokenRunDiags(run)
  <1>1. /\ diags' = diags \o es \o bs /\ stack' = AttachTo(stack, ref)
        /\ nodes' = nodes /\ suppressed' = suppressed
    BY DEF TextEvent
  <1>2. ref \in Ref
    BY DEF TextRef, Ref, Run
  <1>3. bs \in Seq(Diag) /\ Small(bs)
    BY SmallPlaceholder DEF NestInv, IInv
  <1> HIDE DEF ref, bs
  <1>4. /\ diags \o es \in Seq(Diag) /\ NoRecovery(diags \o es) /\ CutOf(diags \o es) = CutOf(diags)
    BY NestFacts, SmallConcat, ConcatProperties
  <1>5. NoRecovery(diags') /\ CutOf(diags') = CutOf(diags)
    BY <1>1, <1>3, <1>4, SmallConcat
  <1>6. /\ Len(stack') = Len(stack)
        /\ \A i \in 1 .. Len(stack) : stack'[i].name = stack[i].name /\ stack'[i].start = stack[i].start
    BY <1>1, <1>2, AttachType DEF NestInv, IInv, TypeOK
  <1> QED
    BY <1>1, <1>5, <1>6, SameNesting

(* Everything that is no tag is skipped.                                    *)
LEMMA SkipSimulates ==
  ASSUME NestInv, nest' = nest,
         \/ ContentEvent
         \/ \E w \in Widths : Ignored(w)
         \/ \E skipTo \in 1 .. SourceLen : Resync(skipTo)
  PROVE  CounterIsExact' /\ \E w \in 1 .. SourceLen : Doc!Skip(w)
  <1>1. ASSUME NEW w \in Widths, Consume(w)
        PROVE  /\ Pos' = Pos + w /\ Pos + w <= SourceLen /\ Pos \in Nat /\ Pos + w \in Nat
               /\ w \in 1 .. SourceLen /\ w \in Nat
    <2>1. Pos' = Pos + w /\ Pos + w <= SourceLen /\ Pos \in Nat /\ Pos + w \in Nat
      BY <1>1, ConsumeType DEF NestInv, Consume
    <2> QED
      BY <2>1, ConstantsOK
  <1>2. ASSUME NEW w \in 1 .. SourceLen, Pos' = Pos + w, Pos + w <= SourceLen,
               nodes' = nodes, CutOf(diags') = CutOf(diags)
        PROVE  Doc!Skip(w)
    BY <1>2 DEF Doc!Skip, Doc!Advance, limitDiags, CutOf
  <1>3. ASSUME UNCHANGED <<tree, suppressed, diags>>
        PROVE  CounterIsExact' /\ nodes' = nodes /\ CutOf(diags') = CutOf(diags)
    <2>1. stack' = stack /\ nodes' = nodes /\ suppressed' = suppressed /\ diags' = diags
      BY <1>3 DEF tree
    <2> QED
      BY <2>1, SameNesting, NestFacts
  <1>4. ASSUME NEW w \in Widths, TextSuppressed(w) \/ Ignored(w)
        PROVE  CounterIsExact' /\ \E v \in 1 .. SourceLen : Doc!Skip(v)
    <2>1. Consume(w) /\ UNCHANGED <<tree, suppressed, diags>>
      BY <1>4 DEF TextSuppressed, Ignored
    <2> QED
      BY <1>1, <1>2, <1>3, <2>1
  <1>5. ASSUME NEW w \in Widths, NEW mark \in Marks, NEW flaw \in Flaws, Text(w, mark, flaw)
        PROVE  CounterIsExact' /\ \E v \in 1 .. SourceLen : Doc!Skip(v)
    <2> DEFINE run == [start |-> Pos, end |-> Pos + w, mark |-> mark]
               es == EntityDiags(flaw, Pos, Pos + w)
    <2>1. Consume(w) /\ TextEvent(run, es)
      BY <1>5 DEF Text
    <2>2. run \in Run /\ es \in Seq(Diag) /\ Small(es)
      BY <1>1, <2>1, SmallDiags DEF Run
    <2> HIDE DEF run, es
    <2>3. CounterIsExact' /\ nodes' = nodes /\ CutOf(diags') = CutOf(diags)
      BY <2>1, <2>2, TextKeepsNesting
    <2> QED
      BY <1>1, <1>2, <2>1, <2>3
  <1>6. ASSUME NEW w \in Widths, NEW mark \in Marks, CData(w, mark)
        PROVE  CounterIsExact' /\ \E v \in 1 .. SourceLen : Doc!Skip(v)
    <2> DEFINE run == [start |-> Pos + CDataOpen, end |-> Pos + w - CDataClose, mark |-> mark]
    <2>1. Consume(w) /\ TextEvent(run, <<>>) /\ w >= CDataOpen + CDataClose
      BY <1>6 DEF CData
    <2>2. Pos + CDataOpen \in Nat /\ Pos + w - CDataClose \in Nat
      BY <1>1, <2>1, ConstantsOK
    <2>3. run \in Run /\ <<>> \in Seq(Diag) /\ Small(<<>>)
      BY <2>2, EmptySeq DEF Run, Small
    <2> HIDE DEF run
    <2>4. CounterIsExact' /\ nodes' = nodes /\ CutOf(diags') = CutOf(diags)
      BY <2>1, <2>3, TextKeepsNesting
    <2> QED
      BY <1>1, <1>2, <2>1, <2>4
  <1>7. ASSUME NEW skipTo \in 1 .. SourceLen, Resync(skipTo)
        PROVE  CounterIsExact' /\ \E v \in 1 .. SourceLen : Doc!Skip(v)
    <2> DEFINE w == skipTo - rpos
    <2>1. /\ skipTo >= rpos + 1 /\ base + skipTo < SourceLen
          /\ base' = base + skipTo /\ rpos' = 0
          /\ UNCHANGED <<tree, suppressed, diags>>
      BY <1>7 DEF Resync
    <2>2. base \in Nat /\ rpos \in Nat /\ SourceLen \in Nat
      BY ConstantsOK DEF NestInv, IInv, TypeOK
    <2>3. w \in 1 .. SourceLen /\ Pos' = Pos + w /\ Pos + w <= SourceLen
      BY <2>1, <2>2 DEF Pos
    <2> HIDE DEF w
    <2> QED
      BY <1>2, <1>3, <2>1, <2>3
  <1> QED
    BY <1>4, <1>5, <1>6, <1>7 DEF ContentEvent

(* A balanced document leaves nothing open: leaving the loop is no step of  *)
(* DocumentTree.                                                            *)
LEMMA FinishSimulates ==
  ASSUME NestInv, BalancedFinish
  PROVE  CounterIsExact' /\ nest' = nest /\ UNCHANGED Doc!dvars
  <1>1. nest = <<>> /\ nest' = nest /\ Finish
    BY DEF BalancedFinish, FinishStep, Stuck, Eof
  <1>2. Len(nest) = 0
    BY <1>1, EmptySeq
  <1>3. Len(stack) = 0 /\ suppressed = 0
    BY <1>2, NestFacts
  <1>4. stack = <<>>
    BY <1>3, EmptySeq DEF NestInv, IInv, TypeOK
  <1> DEFINE ps == PlaceholderDiags(pending)
             us == Unclosed(1, SourceLen)
  <1>5. /\ diags' = diags \o ps \o us /\ base' = base /\ rpos' = rpos
        /\ suppressed' = suppressed /\ stack' = stack /\ nodes' = nodes
    BY <1>1, <1>4 DEF Finish, tree
  <1>6. ps \in Seq(Diag) /\ Small(ps)
    BY SmallPlaceholder DEF NestInv, IInv
  <1>7. us \in Seq(Diag) /\ Small(us)
    <2>1. 1 \in Nat \ {0} /\ 1 <= Len(stack) + 1 /\ SourceLen \in Nat
      BY <1>3, ConstantsOK
    <2>2. us \in Seq(Diag)
      BY <2>1, UnclosedType DEF NestInv, IInv, TypeOK
    <2>3. DOMAIN us = 1 .. 0
      BY <1>3 DEF Unclosed
    <2>4. 1 .. Len(us) = 1 .. 0
      BY <2>2, <2>3, LenProperties
    <2> QED
      BY <2>2, <2>4 DEF Small
  <1> HIDE DEF ps, us
  <1>8. diags \o ps \in Seq(Diag) /\ NoRecovery(diags \o ps) /\ CutOf(diags \o ps) = CutOf(diags)
    BY <1>6, NestFacts, SmallConcat, ConcatProperties
  <1>9. NoRecovery(diags') /\ CutOf(diags') = CutOf(diags)
    BY <1>5, <1>7, <1>8, SmallConcat
  <1>10. CounterIsExact'
    BY <1>1, <1>5, <1>9, SameNesting
  <1>11. Pos' = Pos
    BY <1>5 DEF Pos
  <1> QED
    BY <1>1, <1>5, <1>9, <1>10, <1>11 DEF Doc!dvars, limitDiags, CutOf

-----------------------------------------------------------------------------
(* The invariant holds of the builder before it has read anything, and      *)
(* DocumentTree starts where it does.                                       *)
LEMMA InitSimulates == NInit => NestInv /\ Doc!Init
  <1> SUFFICES ASSUME NInit PROVE NestInv /\ Doc!Init
    OBVIOUS
  <1>1. Init /\ nest = <<>> /\ stack = <<>> /\ diags = <<>> /\ nodes = {} /\ suppressed = 0
    BY DEF NInit, Init
  <1>2. IInv
    BY <1>1, InitIInv
  <1>3. Len(nest) = 0 /\ Len(stack) = 0 /\ Len(diags) = 0 /\ nest \in Seq(OpenRecord)
    BY <1>1, EmptySeq
  <1>4. NestInv
    BY <1>1, <1>2, <1>3, ConstantsOK DEF NestInv, CounterIsExact
  <1>5. Pos \in BomLengths
    BY <1>1, ConstantsOK DEF Init, Pos
  <1>6. limitDiags = {}
    BY <1>3 DEF limitDiags
  <1> QED
    BY <1>1, <1>4, <1>5, <1>6 DEF Doc!Init

(* A step on a balanced document is one of the builder's steps.             *)
LEMMA BalancedIsBuilder ==
  ASSUME NestInv, [BalancedNext]_nvars
  PROVE  [Next]_vars
  <1>1. ASSUME NEW name \in Names, OpenStep(name)
        PROVE  StartEvent
    BY <1>1 DEF OpenStep, StartEvent
  <1>2. ASSUME BalancedClose
        PROVE  EndEvent
    <2>1. Len(nest) \in 1 .. Len(nest)
      BY <1>2, NestFacts, EmptySeq DEF BalancedClose, NestInv
    <2>2. nest[Len(nest)].name \in Names
      <3>1. nest[Len(nest)] \in OpenRecord
        BY <2>1, ElementOfSeq DEF NestInv
      <3> QED
        BY <3>1 DEF OpenRecord
    <2> QED
      BY <1>2, <2>2 DEF BalancedClose, EndStep, EndEvent
  <1>3. ASSUME OtherStep
        PROVE  Next
    BY <1>3 DEF OtherStep, Next
  <1>4. ASSUME BalancedFinish
        PROVE  Next
    BY <1>4 DEF BalancedFinish, FinishStep, Next
  <1>5. CASE UNCHANGED nvars
    BY <1>5 DEF nvars, vars
  <1> QED
    BY <1>1, <1>2, <1>3, <1>4, <1>5 DEF BalancedNext, Next

(* Every step on a balanced document keeps the invariant and is a step of   *)
(* DocumentTree, or none.                                                   *)
LEMMA StepSimulates == NestInv /\ [BalancedNext]_nvars => NestInv' /\ [Doc!Next]_Doc!dvars
  <1> SUFFICES ASSUME NestInv, [BalancedNext]_nvars
               PROVE  NestInv' /\ [Doc!Next]_Doc!dvars
    OBVIOUS
  <1>1. IInv'
    BY BalancedIsBuilder, NextIInv DEF NestInv
  <1>2. CASE \E name \in Names : OpenStep(name)
    BY <1>1, <1>2, OpenSimulates DEF NestInv, Doc!Next
  <1>3. CASE BalancedClose
    BY <1>1, <1>3, CloseSimulates DEF NestInv, Doc!Next
  <1>4. CASE OtherStep
    <2>1. nest' = nest
      BY <1>4 DEF OtherStep
    <2>2. CounterIsExact' /\ Doc!Next
      BY <1>4, <2>1, LeafSimulates, SkipSimulates DEF OtherStep, Doc!Next
    <2> QED
      BY <1>1, <2>1, <2>2 DEF NestInv
  <1>5. CASE BalancedFinish
    BY <1>1, <1>5, FinishSimulates DEF NestInv
  <1>6. CASE UNCHANGED nvars
    <2>1. /\ base' = base /\ rpos' = rpos /\ stack' = stack /\ nodes' = nodes
          /\ suppressed' = suppressed /\ diags' = diags /\ nest' = nest
      BY <1>6 DEF nvars, vars
    <2>2. CounterIsExact'
      BY <2>1 DEF NestInv, CounterIsExact
    <2>3. UNCHANGED Doc!dvars
      BY <2>1 DEF Doc!dvars, limitDiags, Pos
    <2> QED
      BY <1>1, <2>1, <2>2, <2>3 DEF NestInv
  <1> QED
    BY <1>2, <1>3, <1>4, <1>5, <1>6 DEF BalancedNext

(* The invariant holds throughout a balanced document.                      *)
LEMMA NestInvariance == BalancedSpec => []NestInv
  BY InitSimulates, StepSimulates, PTL DEF BalancedSpec

(* On a balanced document the counter is exactly how far the nesting is     *)
(* over the limit, the stack is the rest of the nesting, and no rule of     *)
(* recovery is ever applied.                                                *)
THEOREM BalancedCounterIsExact == BalancedSpec => []CounterIsExact
  <1>1. NestInv => CounterIsExact
    BY DEF NestInv
  <1> QED
    BY <1>1, NestInvariance, PTL

(* On a balanced document build_tree implements DocumentTree: its tree has  *)
(* exactly the elements of depth at most MaxTreeDepth, each with the extent *)
(* of its own tags, and each subtree that starts deeper is reported once.   *)
THEOREM BalancedImplementsDocumentTree == BalancedSpec => ImplementsDocumentTree
  <1>1. NInit => Doc!Init
    BY InitSimulates
  <1>2. NestInv /\ [BalancedNext]_nvars => [Doc!Next]_Doc!dvars
    BY StepSimulates
  <1>3. BalancedSpec => Doc!Spec
    BY <1>1, <1>2, NestInvariance, PTL DEF BalancedSpec, Doc!Spec
  <1> QED
    BY <1>3 DEF ImplementsDocumentTree
==============================================================================
