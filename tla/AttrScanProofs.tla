---------------------------- MODULE AttrScanProofs ----------------------------
(* Theorems about the attribute scanner, for every tag.                     *)
EXTENDS TagGrammar, StackLemmas

(* The names read are before the cursor.                                    *)
ReadBefore ==
  \A l \in 1 .. Len(read) : read[l].from <= read[l].to /\ read[l].to < i

(* The name in hand stands after all attributes and all names before it,    *)
(* and the = and the quote after the name.                                  *)
NameBefore ==
  /\ stage = "name" => i = 1
  /\ name.from <= name.to
  /\ stage \in {"equals", "value"} =>
       /\ name.to <= i
       /\ \A k \in 1 .. Len(attrs) : attrs[k].value.to < name.from
       /\ \A l \in 1 .. Len(read) : read[l].to < name.from
  /\ stage = "value" => name.to < i /\ i < End /\ tag[i] \in Quote

(* The inductive invariant.                                                 *)
IInv == TypeOK /\ SpansApart /\ FirstWins /\ ReadBefore /\ NameBefore
-----------------------------------------------------------------------------
(* Lemmas about the operators of AttrScan.                                  *)

(* A jump ends at the first byte that stops it, or at the end.              *)
LEMMA UntilStops ==
  ASSUME tag \in Seq(Char), NEW from \in 1 .. End, NEW S
  PROVE  /\ Until(from, S) \in from .. End
         /\ Until(from, S) < End => tag[Until(from, S)] \in S
         /\ \A l \in from .. Until(from, S) - 1 : tag[l] \notin S
  <1> DEFINE T == {k \in from .. End : k = End \/ tag[k] \in S}
             OK(k) == /\ k = End \/ tag[k] \in S
                      /\ \A l \in from .. k - 1 : tag[l] \notin S
  <1>1. End \in Nat /\ T \subseteq Nat /\ T # {}
    BY DEF End
  <1>2. PICK k \in T : \A l \in T : k <= l
    BY <1>1, Least
  <1>3. k \in from .. End /\ OK(k)
    <2>1. \A l \in from .. k - 1 : tag[l] \notin S
      BY <1>1, <1>2
    <2> QED
      BY <1>2, <2>1
  <1>4. Until(from, S) = CHOOSE m \in from .. End : OK(m)
    BY DEF Until
  <1> HIDE DEF OK
  <1>5. Until(from, S) \in from .. End /\ OK(Until(from, S))
    BY <1>3, <1>4
  <1> QED
    BY <1>1, <1>5 DEF OK

(* What the invariant says of one attribute.                                *)
LEMMA AttrFacts ==
  ASSUME IInv, NEW k \in 1 .. Len(attrs)
  PROVE  /\ attrs[k].name \in Span /\ attrs[k].value \in Span
         /\ attrs[k].name.from \in Nat /\ attrs[k].name.to \in Nat
         /\ attrs[k].value.from \in Nat /\ attrs[k].value.to \in Nat
         /\ attrs[k].name.from <= attrs[k].name.to
         /\ attrs[k].name.to + 1 < attrs[k].value.from
         /\ attrs[k].value.from <= attrs[k].value.to
         /\ attrs[k].value.to < i /\ Quoted(attrs[k].value)
  <1>1. attrs[k] \in Attr
    BY ElementOfSeq DEF IInv, TypeOK
  <1> QED
    BY <1>1 DEF IInv, SpansApart, Attr, Span, Pos

(* A scan that goes on leaves the attributes where they are.                *)
LEMMA SpansKept ==
  ASSUME IInv, UNCHANGED <<tag, attrs>>, i' \in Nat, i <= i', i' <= End
  PROVE  SpansApart'
  <1>1. End' = End
    BY DEF End
  <1>2. ASSUME NEW k \in 1 .. Len(attrs)
        PROVE  /\ attrs[k].name.from <= attrs[k].name.to
               /\ attrs[k].name.to + 1 < attrs[k].value.from
               /\ attrs[k].value.from <= attrs[k].value.to /\ attrs[k].value.to < i'
               /\ Quoted(attrs[k].value)'
    <2>1. Quoted(attrs[k].value)' <=> Quoted(attrs[k].value)
      BY DEF Quoted
    <2>2. attrs[k].value.to \in Nat /\ attrs[k].value.to < i /\ i \in Nat
      BY AttrFacts DEF IInv, TypeOK, Pos
    <2>3. attrs[k].value.to < i'
      BY <2>2
    <2> QED
      BY <2>1, <2>3, AttrFacts
  <1>3. \A k, l \in 1 .. Len(attrs) : k < l => attrs[k].value.to < attrs[l].name.from
    BY DEF IInv, SpansApart
  <1>4. attrs' = attrs
    OBVIOUS
  <1> QED
    BY <1>1, <1>2, <1>3, <1>4, Zenon DEF SpansApart

(* What the invariant says of a name that has been read.                    *)
LEMMA ReadFacts ==
  ASSUME IInv, NEW l \in 1 .. Len(read)
  PROVE  /\ read[l] \in Span /\ read[l].from \in Nat /\ read[l].to \in Nat
         /\ read[l].from <= read[l].to /\ read[l].to < i
  <1>1. read[l] \in Span
    BY ElementOfSeq DEF IInv, TypeOK
  <1> QED
    BY <1>1 DEF IInv, ReadBefore, Span, Pos

(* A scan that goes on leaves the names where they are.                     *)
LEMMA ReadKept ==
  ASSUME IInv, UNCHANGED read, i' \in Nat, i <= i'
  PROVE  ReadBefore'
  <1>1. i \in Nat
    BY DEF IInv, TypeOK, Pos
  <1>2. ASSUME NEW l \in 1 .. Len(read)
        PROVE  read[l].from <= read[l].to /\ read[l].to < i'
    <2>1. read[l].to \in Nat /\ read[l].from <= read[l].to /\ read[l].to < i
      BY ReadFacts
    <2> QED
      BY <1>1, <2>1
  <1> QED
    BY <1>2 DEF ReadBefore

(* FirstWins, name by name: about the attributes kept, the duplicates among *)
(* the reports, and the names read.                                         *)
SameText(bytes, s, t) == SubSeq(bytes, s.from, s.to - 1) = SubSeq(bytes, t.from, t.to - 1)

Before(bytes, names, l) == \E k \in 1 .. l - 1 : SameText(bytes, names[k], names[l])

IsDouble(d) == d.code = "DuplicateAttribute"

FirstOf(bytes, kept, told, names) ==
  /\ \A k \in 1 .. Len(kept) :
       \E l \in 1 .. Len(names) : ~Before(bytes, names, l) /\ kept[k].name = names[l]
  /\ \A l \in 1 .. Len(names) : ~Before(bytes, names, l) =>
       \E k \in 1 .. Len(kept) : kept[k].name = names[l]
  /\ \A n \in 1 .. Len(told) : IsDouble(told[n]) =>
       \E l \in 1 .. Len(names) : Before(bytes, names, l) /\ told[n].at = names[l]
  /\ \A l \in 1 .. Len(names) : Before(bytes, names, l) =>
       \E n \in 1 .. Len(told) : IsDouble(told[n]) /\ told[n].at = names[l]
  /\ \A m, n \in 1 .. Len(told) :
       IsDouble(told[m]) /\ IsDouble(told[n]) /\ m # n => told[m].at # told[n].at

(* The two say the same.                                                    *)
LEMMA FirstWinsIs ==
  /\ FirstWins <=> FirstOf(tag, attrs, diags, read)
  /\ FirstWins' <=> FirstOf(tag', attrs', diags', read')
  <1>1. ASSUME NEW bytes, NEW kept, NEW told, NEW names
        PROVE  (/\ {kept[k].name : k \in 1 .. Len(kept)}
                      = {names[l] : l \in {l \in 1 .. Len(names) : ~Before(bytes, names, l)}}
                /\ {told[n].at : n \in {n \in 1 .. Len(told) : IsDouble(told[n])}}
                      = {names[l] : l \in {l \in 1 .. Len(names) : Before(bytes, names, l)}}
                /\ \A m, n \in {n \in 1 .. Len(told) : IsDouble(told[n])} :
                     m # n => told[m].at # told[n].at)
                 <=> FirstOf(bytes, kept, told, names)
    <2>1. {kept[k].name : k \in 1 .. Len(kept)}
            = {names[l] : l \in {l \in 1 .. Len(names) : ~Before(bytes, names, l)}}
          <=> /\ \A k \in 1 .. Len(kept) :
                   \E l \in 1 .. Len(names) : ~Before(bytes, names, l) /\ kept[k].name = names[l]
              /\ \A l \in 1 .. Len(names) : ~Before(bytes, names, l) =>
                   \E k \in 1 .. Len(kept) : kept[k].name = names[l]
      <3> DEFINE K == {kept[k].name : k \in 1 .. Len(kept)}
                 F == {names[l] : l \in {l \in 1 .. Len(names) : ~Before(bytes, names, l)}}
      <3>1. \A x : x \in K <=> \E k \in 1 .. Len(kept) : kept[k].name = x
        OBVIOUS
      <3>2. \A x : x \in F <=> \E l \in 1 .. Len(names) : ~Before(bytes, names, l) /\ names[l] = x
        OBVIOUS
      <3> HIDE DEF K, F
      <3>3. K = F <=> (\A x \in K : x \in F) /\ (\A x \in F : x \in K)
        OBVIOUS
      <3>4. (\A x \in K : x \in F) <=>
              \A k \in 1 .. Len(kept) :
                \E l \in 1 .. Len(names) : ~Before(bytes, names, l) /\ kept[k].name = names[l]
        BY <3>1, <3>2
      <3>5. (\A x \in F : x \in K) <=>
              \A l \in 1 .. Len(names) : ~Before(bytes, names, l) =>
                \E k \in 1 .. Len(kept) : kept[k].name = names[l]
        BY <3>1, <3>2
      <3> QED
        BY <3>3, <3>4, <3>5 DEF K, F
    <2>2. {told[n].at : n \in {n \in 1 .. Len(told) : IsDouble(told[n])}}
            = {names[l] : l \in {l \in 1 .. Len(names) : Before(bytes, names, l)}}
          <=> /\ \A n \in 1 .. Len(told) : IsDouble(told[n]) =>
                   \E l \in 1 .. Len(names) : Before(bytes, names, l) /\ told[n].at = names[l]
              /\ \A l \in 1 .. Len(names) : Before(bytes, names, l) =>
                   \E n \in 1 .. Len(told) : IsDouble(told[n]) /\ told[n].at = names[l]
      <3> DEFINE K == {told[n].at : n \in {n \in 1 .. Len(told) : IsDouble(told[n])}}
                 F == {names[l] : l \in {l \in 1 .. Len(names) : Before(bytes, names, l)}}
      <3>1. \A x : x \in K <=> \E n \in 1 .. Len(told) : IsDouble(told[n]) /\ told[n].at = x
        OBVIOUS
      <3>2. \A x : x \in F <=> \E l \in 1 .. Len(names) : Before(bytes, names, l) /\ names[l] = x
        OBVIOUS
      <3> HIDE DEF K, F
      <3>3. K = F <=> (\A x \in K : x \in F) /\ (\A x \in F : x \in K)
        OBVIOUS
      <3>4. (\A x \in K : x \in F) <=>
              \A n \in 1 .. Len(told) : IsDouble(told[n]) =>
                \E l \in 1 .. Len(names) : Before(bytes, names, l) /\ told[n].at = names[l]
        BY <3>1, <3>2
      <3>5. (\A x \in F : x \in K) <=>
              \A l \in 1 .. Len(names) : Before(bytes, names, l) =>
                \E n \in 1 .. Len(told) : IsDouble(told[n]) /\ told[n].at = names[l]
        BY <3>1, <3>2
      <3> QED
        BY <3>3, <3>4, <3>5 DEF K, F
    <2>3. (\A m, n \in {n \in 1 .. Len(told) : IsDouble(told[n])} :
             m # n => told[m].at # told[n].at)
          <=> \A m, n \in 1 .. Len(told) :
                IsDouble(told[m]) /\ IsDouble(told[n]) /\ m # n => told[m].at # told[n].at
      OBVIOUS
    <2> QED
      BY <2>1, <2>2, <2>3, Zenon DEF FirstOf
  <1>2. FirstWins <=> FirstOf(tag, attrs, diags, read)
    BY <1>1, Zenon DEF FirstWins, Again, TextOf, Before, SameText, IsDouble
  <1>3. FirstWins' <=> FirstOf(tag', attrs', diags', read')
    BY <1>1, Zenon DEF FirstWins, Again, TextOf, Before, SameText, IsDouble
  <1> QED
    BY <1>2, <1>3

(* A state that differs only in where the scan is.                          *)
LEMMA Moves ==
  ASSUME IInv, UNCHANGED <<tag, attrs, diags, read>>,
         stage' \in {"scan", "equals", "value", "check", "done"},
         stage' = "check" => attrs # <<>>,
         i' \in Pos, i <= i', i' <= End, j' \in Pos, name' \in Span,
         NameBefore'
  PROVE  IInv'
  <1>1. TypeOK'
    BY DEF IInv, TypeOK
  <1>2. SpansApart'
    <2>1. i' \in Nat
      BY DEF Pos
    <2> QED
      BY <2>1, SpansKept
  <1>3. FirstWins'
    BY FirstWinsIs, Zenon DEF IInv
  <1>4. ReadBefore'
    BY ReadKept DEF Pos
  <1> QED
    BY <1>1, <1>2, <1>3, <1>4 DEF IInv

(* The cursor is in the tag, and a jump from it ends in the tag.            *)
LEMMA Jumps ==
  ASSUME IInv, NEW from \in Pos, from <= End, NEW S
  PROVE  /\ Until(from, S) \in Pos /\ Skip(from) \in Pos
         /\ from <= Until(from, S) /\ Until(from, S) <= End
         /\ from <= Skip(from) /\ Skip(from) <= End
         /\ Until(from, S) < End => tag[Until(from, S)] \in S
         /\ \A l \in from .. Until(from, S) - 1 : tag[l] \notin S
  <1>1. tag \in Seq(Char) /\ End \in Nat /\ from \in 1 .. End
    BY DEF IInv, TypeOK, End, Pos
  <1>2. /\ Until(from, S) \in from .. End
        /\ Skip(from) \in from .. End
    BY <1>1, UntilStops DEF Skip
  <1>3. /\ Until(from, S) < End => tag[Until(from, S)] \in S
        /\ \A l \in from .. Until(from, S) - 1 : tag[l] \notin S
    BY <1>1, UntilStops
  <1> QED
    BY <1>1, <1>2, <1>3 DEF Pos
-----------------------------------------------------------------------------
LEMMA InitKeeps == Init => IInv
  <1> SUFFICES ASSUME Init PROVE IInv
    OBVIOUS
  <1>1. tag \in Seq(Char) /\ End \in Pos
    BY ConstantsOK DEF Init, End, Pos
  <1> QED
    BY <1>1 DEF Init, IInv, TypeOK, SpansApart, FirstWins, Again, ReadBefore, NameBefore, Pos, Span, At

LEMMA SkipTagNameKeeps == IInv /\ SkipTagName => IInv'
  <1> SUFFICES ASSUME IInv, SkipTagName PROVE IInv'
    OBVIOUS
  <1> DEFINE from == IF Is(1, {"<"}) THEN 2 ELSE 1
  <1>1. End \in Nat /\ i \in Pos /\ i <= End /\ from \in Pos /\ from <= End
    BY DEF IInv, TypeOK, SpansApart, Is, End, Pos
  <1>2. i' \in Pos /\ from <= i' /\ i' <= End
    BY <1>1, Jumps DEF SkipTagName
  <1>3. NameBefore'
    BY DEF SkipTagName, IInv, NameBefore
  <1> HIDE DEF from
  <1>4. i = 1
    BY DEF SkipTagName, IInv, NameBefore
  <1>5. i' >= 1
    BY <1>2 DEF Pos
  <1>6. i' \in Pos /\ i <= i' /\ i' <= End /\ j' \in Pos /\ name' \in Span
    BY <1>2, <1>4, <1>5 DEF SkipTagName, IInv, TypeOK
  <1> QED
    BY <1>3, <1>6, Moves DEF SkipTagName, IInv, TypeOK

LEMMA TagEndsKeeps == IInv /\ TagEnds => IInv'
  <1> SUFFICES ASSUME IInv, TagEnds PROVE IInv'
    OBVIOUS
  <1>1. NameBefore'
    BY DEF TagEnds, IInv, NameBefore
  <1> QED
    BY <1>1, Moves DEF TagEnds, IInv, TypeOK, SpansApart, Pos

LEMMA NameReadKeeps == IInv /\ NameRead => IInv'
  <1> SUFFICES ASSUME IInv, NameRead PROVE IInv'
    OBVIOUS
  <1> DEFINE from == Skip(i)
             to   == Until(from, Stop \cup {"=", " "})
  <1>1. i \in Pos /\ i <= End /\ End \in Nat
    BY DEF IInv, TypeOK, SpansApart, End, Pos
  <1>2. from \in Pos /\ i <= from /\ from <= End
    BY <1>1, Jumps
  <1>3. to \in Pos /\ from <= to /\ to <= End
    BY <1>1, <1>2, Jumps
  <1>4. name' = At(from, to) /\ i' = to /\ stage' = "equals"
    BY DEF NameRead, At
  <1> HIDE DEF from, to
  <1>5. name' \in Span /\ name'.from = from /\ name'.to = to
    BY <1>2, <1>3, <1>4 DEF At, Span
  <1>6. i \in Nat /\ from \in Nat /\ to \in Nat /\ i' \in Pos /\ i <= i'
    BY <1>1, <1>2, <1>3, <1>4 DEF Pos
  <1>7. \A k \in 1 .. Len(attrs) : attrs[k].value.to < from
    <2> TAKE k \in 1 .. Len(attrs)
    <2>1. attrs[k].value.to \in Nat /\ attrs[k].value.to < i
      BY AttrFacts
    <2> QED
      BY <2>1, <1>2, <1>6
  <1>8. \A l \in 1 .. Len(read) : read[l].to < from
    <2> TAKE l \in 1 .. Len(read)
    <2>1. read[l].to \in Nat /\ read[l].to < i
      BY ReadFacts
    <2> QED
      BY <2>1, <1>2, <1>6
  <1>9. NameBefore'
    <2>1. attrs' = attrs /\ read' = read
      BY DEF NameRead
    <2> QED
      BY <2>1, <1>3, <1>4, <1>5, <1>6, <1>7, <1>8 DEF NameBefore
  <1> QED
    BY <1>3, <1>4, <1>5, <1>6, <1>9, Moves DEF NameRead, IInv, TypeOK

LEMMA LeavesKeep == IInv /\ (Unquoted \/ CutOff) => IInv'
  <1> SUFFICES ASSUME IInv, Unquoted \/ CutOff PROVE IInv'
    OBVIOUS
  <1>1. NameBefore'
    BY DEF Unquoted, CutOff, IInv, NameBefore
  <1>2. i \in Pos /\ i <= i /\ i <= End
    BY DEF IInv, TypeOK, SpansApart, Pos
  <1>3. UNCHANGED <<tag, i, name, j, attrs, diags, read>> /\ stage' = "done"
    BY DEF Unquoted, CutOff
  <1> QED
    BY <1>1, <1>2, <1>3, Moves DEF IInv, TypeOK

LEMMA BareAttributeKeeps == IInv /\ BareAttribute => IInv'
  <1> SUFFICES ASSUME IInv, BareAttribute PROVE IInv'
    OBVIOUS
  <1>1. i \in Pos /\ i <= End
    BY DEF IInv, TypeOK, SpansApart
  <1>2. i' \in Pos /\ i <= i' /\ i' <= End
    BY <1>1, Jumps DEF BareAttribute
  <1>3. NameBefore'
    BY DEF BareAttribute, IInv, NameBefore
  <1> QED
    BY <1>2, <1>3, Moves DEF BareAttribute, IInv, TypeOK

LEMMA QuoteReadKeeps == IInv /\ QuoteRead => IInv'
  <1> SUFFICES ASSUME IInv, QuoteRead PROVE IInv'
    OBVIOUS
  <1> DEFINE eq == Skip(i)
             quote == Skip(eq + 1)
  <1>1. i \in Pos /\ i <= End /\ End \in Nat
    BY DEF IInv, TypeOK, SpansApart, End, Pos
  <1>2. eq \in Pos /\ i <= eq /\ eq < End
    BY <1>1, Jumps DEF QuoteRead, Is
  <1> HIDE DEF eq
  <1>3. eq + 1 \in Pos /\ eq + 1 <= End
    BY <1>1, <1>2 DEF Pos
  <1>4. quote \in Pos /\ eq + 1 <= quote /\ quote <= End
    BY <1>3, Jumps
  <1>5. i' = quote /\ quote < End /\ tag[quote] \in Quote /\ stage' = "value"
    BY DEF QuoteRead, Is, eq
  <1> HIDE DEF quote
  <1>6. i \in Nat /\ eq \in Nat /\ i' \in Pos /\ i' \in Nat /\ i < i' /\ i' < End
    BY <1>1, <1>2, <1>4, <1>5 DEF Pos
  <1>7. name.to \in Nat /\ name.to <= i
    BY DEF IInv, TypeOK, NameBefore, QuoteRead, Span, Pos
  <1>8. NameBefore'
    BY <1>5, <1>6, <1>7 DEF QuoteRead, IInv, NameBefore, End
  <1> QED
    BY <1>1, <1>5, <1>6, <1>8, Moves DEF QuoteRead, IInv, TypeOK

(* One diagnostic more that is of no duplicate, and the scan elsewhere.     *)
LEMMA Reports ==
  ASSUME IInv, UNCHANGED <<tag, attrs, read>>,
         NEW d \in Diag, diags' = Append(diags, d), d.code # "DuplicateAttribute",
         stage' \in {"scan", "check"}, stage' = "check" => attrs # <<>>,
         i' \in Pos, i <= i', i' <= End, j' \in Pos, name' = name
  PROVE  IInv'
  <1>1. /\ diags' \in Seq(Diag) /\ Len(diags') = Len(diags) + 1 /\ Len(diags) \in Nat
        /\ \A n \in 1 .. Len(diags) : diags'[n] = diags[n]
        /\ diags'[Len(diags) + 1] = d
    BY AppendProperties, LenProperties DEF IInv, TypeOK
  <1>2. TypeOK'
    BY <1>1 DEF IInv, TypeOK
  <1>3. i' \in Nat
    BY DEF Pos
  <1>4. SpansApart' /\ ReadBefore'
    BY <1>3, SpansKept, ReadKept
  <1>5. FirstWins'
    <2>1. FirstOf(tag, attrs, diags, read)
      BY FirstWinsIs DEF IInv
    <2>2. \A n \in 1 .. Len(diags') : IsDouble(diags'[n]) => n \in 1 .. Len(diags) /\ diags'[n] = diags[n]
      BY <1>1 DEF IsDouble
    <2>3. \A n \in 1 .. Len(diags) : n \in 1 .. Len(diags') /\ diags'[n] = diags[n]
      BY <1>1
    <2>4. FirstOf(tag, attrs, diags', read)
      BY <2>1, <2>2, <2>3 DEF FirstOf
    <2> QED
      BY <2>4, FirstWinsIs, Zenon
  <1>6. NameBefore'
    BY DEF IInv, NameBefore
  <1> QED
    BY <1>2, <1>4, <1>5, <1>6 DEF IInv

(* The quote that closes a value, and what is before it.                    *)
LEMMA CloseFacts ==
  ASSUME IInv, HasValue
  PROVE  /\ i \in Nat /\ i < End /\ End \in Nat /\ tag[i] \in Quote
         /\ CloseAt \in Nat /\ i + 1 <= CloseAt /\ CloseAt < End
         /\ tag[CloseAt] = tag[i]
         /\ \A l \in i + 1 .. CloseAt - 1 : tag[l] # tag[i]
  <1>1. i \in Nat /\ i + 1 \in Pos /\ End \in Nat /\ i < End /\ tag[i] \in Quote
    BY DEF IInv, TypeOK, NameBefore, HasValue, End, Pos
  <1>2. i + 1 <= End
    BY <1>1
  <1>3. /\ CloseAt \in Pos /\ i + 1 <= CloseAt /\ CloseAt <= End
        /\ CloseAt < End => tag[CloseAt] \in {tag[i]}
        /\ \A l \in i + 1 .. CloseAt - 1 : tag[l] \notin {tag[i]}
    BY <1>1, <1>2, Jumps DEF CloseAt
  <1> QED
    BY <1>1, <1>3 DEF HasValue, Pos

(* One name more has been read.  It was there before just if it is the name *)
(* of an attribute that has been kept.                                      *)
LEMMA NameAdded ==
  ASSUME IInv, HasValue, tag' = tag, read' = Append(read, name)
  PROVE  /\ read' \in Seq(Span) /\ Len(read') = Len(read) + 1 /\ Len(read) \in Nat
         /\ \A l \in 1 .. Len(read) :
              /\ read'[l] = read[l]
              /\ Before(tag, read', l) <=> Before(tag, read, l)
              /\ read[l] # name
         /\ read'[Len(read) + 1] = name
         /\ Before(tag, read', Len(read) + 1) <=> Seen
  <1> DEFINE n == Len(read)
             more == Append(read, name)
  <1>1. read \in Seq(Span) /\ name \in Span
    BY DEF IInv, TypeOK
  <1>2. /\ more \in Seq(Span) /\ Len(more) = n + 1 /\ n \in Nat
        /\ \A l \in 1 .. n : more[l] = read[l]
        /\ more[n + 1] = name
    BY <1>1, AppendProperties, LenProperties
  <1> HIDE DEF more, n
  <1>3. ASSUME NEW l \in 1 .. n
        PROVE  Before(tag, more, l) <=> Before(tag, read, l)
    <2>1. \A k \in 1 .. l - 1 : k \in 1 .. n
      BY <1>2
    <2>2. more[l] = read[l] /\ \A k \in 1 .. l - 1 : more[k] = read[k]
      BY <1>2, <2>1
    <2> QED
      BY <2>2 DEF Before
  <1>4. ASSUME NEW l \in 1 .. n
        PROVE  read[l] # name
    <2>1. /\ read[l].from \in Nat /\ read[l].to \in Nat /\ read[l].from <= read[l].to
          /\ read[l].to < name.from
      BY ReadFacts DEF IInv, NameBefore, HasValue, n
    <2>2. name.from \in Nat
      BY <1>1 DEF Span, Pos
    <2> QED
      BY <2>1, <2>2
  <1>5. Before(tag, more, n + 1) <=> \E k \in 1 .. n : SameText(tag, read[k], name)
    <2>1. (n + 1) - 1 = n
      BY <1>2
    <2> QED
      BY <1>2, <2>1 DEF Before
  <1>6. FirstOf(tag, attrs, diags, read)
    BY FirstWinsIs DEF IInv
  <1>7. ASSUME Seen
        PROVE  \E k \in 1 .. n : SameText(tag, read[k], name)
    <2>1. PICK k \in 1 .. Len(attrs) : TextOf(attrs[k].name) = TextOf(name)
      BY <1>7 DEF Seen
    <2>2. PICK l \in 1 .. n : attrs[k].name = read[l]
      BY <1>6 DEF FirstOf, n
    <2> QED
      BY <2>1, <2>2 DEF SameText, TextOf
  <1>8. ASSUME NEW k \in 1 .. n, SameText(tag, read[k], name)
        PROVE  Seen
    <2> DEFINE T == {l \in 1 .. n : SameText(tag, read[l], name)}
    <2>1. T \subseteq Nat /\ T # {}
      BY <1>2, <1>8
    <2>2. PICK l \in T : \A m \in T : l <= m
      BY <2>1, Least
    <2>3. l \in 1 .. n /\ SameText(tag, read[l], name)
      BY <2>2
    <2>4. ~Before(tag, read, l)
      <3> SUFFICES ASSUME NEW m \in 1 .. l - 1, SameText(tag, read[m], read[l]) PROVE FALSE
        BY DEF Before
      <3>1. m \in 1 .. n /\ m < l
        BY <1>2, <2>3
      <3>2. SameText(tag, read[m], name)
        BY <2>3 DEF SameText
      <3>3. l <= m
        BY <2>2, <3>1, <3>2
      <3> QED
        BY <1>2, <2>3, <3>1, <3>3
    <2>5. PICK a \in 1 .. Len(attrs) : attrs[a].name = read[l]
      BY <1>6, <2>3, <2>4 DEF FirstOf, n
    <2> QED
      BY <2>3, <2>5 DEF Seen, SameText, TextOf
  <1>9. read' = more
    BY DEF more
  <1> QED
    BY <1>2, <1>3, <1>4, <1>5, <1>7, <1>8, <1>9 DEF n

(* The names read stay before the cursor when one is added.                 *)
LEMMA NameAddedBefore ==
  ASSUME IInv, HasValue, tag' = tag, read' = Append(read, name), i' = CloseAt + 1
  PROVE  ReadBefore'
  <1>1. /\ Len(read') = Len(read) + 1 /\ Len(read) \in Nat
        /\ \A l \in 1 .. Len(read) : read'[l] = read[l]
        /\ read'[Len(read) + 1] = name
    BY NameAdded
  <1>2. i \in Nat /\ i' \in Nat /\ i < i'
    BY CloseFacts
  <1>3. name.from \in Nat /\ name.to \in Nat /\ name.from <= name.to /\ name.to < i
    BY DEF HasValue, IInv, TypeOK, NameBefore, Span, Pos
  <1>4. ASSUME NEW l \in 1 .. Len(read) + 1
        PROVE  read'[l].from <= read'[l].to /\ read'[l].to < i'
    <2>1. CASE l = Len(read) + 1
      BY <1>1, <1>2, <1>3, <2>1
    <2>2. CASE l \in 1 .. Len(read)
      <3>1. read[l].to \in Nat /\ read[l].from <= read[l].to /\ read[l].to < i
        BY <2>2, ReadFacts
      <3> QED
        BY <1>1, <1>2, <2>2, <3>1
    <2> QED
      BY <1>1, <2>1, <2>2
  <1> QED
    BY <1>1, <1>4 DEF ReadBefore

(* A later attribute of a name is reported and not kept.                    *)
LEMMA DuplicateKeeps == IInv /\ Duplicate => IInv'
  <1> SUFFICES ASSUME IInv, Duplicate PROVE IInv'
    OBVIOUS
  <1> DEFINE d == [code |-> "DuplicateAttribute", at |-> name]
             n == Len(read)
             m == Len(diags)
  <1>1. /\ HasValue /\ Seen /\ UNCHANGED <<tag, name, j, attrs>>
        /\ read' = Append(read, name) /\ i' = CloseAt + 1 /\ stage' = "scan"
    BY DEF Duplicate
  <1>2. d \in Diag /\ diags' = Append(diags, d)
    BY DEF Duplicate, Diagnose, Diag, Code, IInv, TypeOK
  <1>3. i' \in Pos /\ i' \in Nat /\ i <= i' /\ i' <= End
    BY <1>1, CloseFacts DEF Pos
  <1>4. IsDouble(d) /\ d.at = name
    BY DEF IsDouble
  <1> HIDE DEF d
  <1>5. /\ diags' \in Seq(Diag) /\ Len(diags') = m + 1 /\ m \in Nat
        /\ \A k \in 1 .. m : diags'[k] = diags[k]
        /\ diags'[m + 1] = d
    BY <1>2, AppendProperties, LenProperties DEF IInv, TypeOK
  <1>6. /\ read' \in Seq(Span) /\ Len(read') = n + 1 /\ n \in Nat
        /\ \A l \in 1 .. n :
             /\ read'[l] = read[l]
             /\ Before(tag, read', l) <=> Before(tag, read, l)
             /\ read[l] # name
        /\ read'[n + 1] = name
        /\ Before(tag, read', n + 1)
    BY <1>1, NameAdded
  <1> HIDE DEF n, m
  <1>7. TypeOK'
    BY <1>1, <1>3, <1>5, <1>6 DEF IInv, TypeOK
  <1>8. SpansApart'
    BY <1>1, <1>3, SpansKept
  <1>9. FirstWins'
    <2>1. FirstOf(tag, attrs, diags, read)
      BY FirstWinsIs DEF IInv
    <2>2. /\ 1 .. Len(read') = (1 .. n) \cup {n + 1}
          /\ 1 .. Len(diags') = (1 .. m) \cup {m + 1}
      BY <1>5, <1>6
    <2>3. FirstOf(tag, attrs, diags', read')
      <3>1. ASSUME NEW k \in 1 .. Len(attrs)
            PROVE  \E l \in 1 .. Len(read') : ~Before(tag, read', l) /\ attrs[k].name = read'[l]
        <4>1. PICK l \in 1 .. n : ~Before(tag, read, l) /\ attrs[k].name = read[l]
          BY <2>1 DEF FirstOf, n
        <4> QED
          BY <1>6, <2>2, <4>1
      <3>2. ASSUME NEW l \in 1 .. Len(read'), ~Before(tag, read', l)
            PROVE  \E k \in 1 .. Len(attrs) : attrs[k].name = read'[l]
        <4>1. l \in 1 .. n /\ ~Before(tag, read, l) /\ read'[l] = read[l]
          BY <1>6, <2>2, <3>2
        <4> QED
          BY <2>1, <4>1 DEF FirstOf, n
      <3>3. ASSUME NEW k \in 1 .. Len(diags'), IsDouble(diags'[k])
            PROVE  \E l \in 1 .. Len(read') : Before(tag, read', l) /\ diags'[k].at = read'[l]
        <4>1. CASE k = m + 1
          BY <1>4, <1>5, <1>6, <2>2, <4>1
        <4>2. CASE k \in 1 .. m
          <5>1. diags'[k] = diags[k]
            BY <1>5, <4>2
          <5>2. PICK l \in 1 .. n : Before(tag, read, l) /\ diags[k].at = read[l]
            BY <2>1, <3>3, <4>2, <5>1 DEF FirstOf, n, m
          <5> QED
            BY <1>6, <2>2, <5>1, <5>2
        <4> QED
          BY <2>2, <4>1, <4>2
      <3>4. ASSUME NEW l \in 1 .. Len(read'), Before(tag, read', l)
            PROVE  \E k \in 1 .. Len(diags') : IsDouble(diags'[k]) /\ diags'[k].at = read'[l]
        <4>1. CASE l = n + 1
          BY <1>4, <1>5, <1>6, <2>2, <4>1
        <4>2. CASE l \in 1 .. n
          <5>1. PICK k \in 1 .. m : IsDouble(diags[k]) /\ diags[k].at = read[l]
            BY <1>6, <2>1, <3>4, <4>2 DEF FirstOf, n, m
          <5> QED
            BY <1>5, <1>6, <2>2, <4>2, <5>1
        <4> QED
          BY <2>2, <4>1, <4>2
      <3>5. ASSUME NEW k \in 1 .. Len(diags'), NEW l \in 1 .. Len(diags'),
                   IsDouble(diags'[k]), IsDouble(diags'[l]), k # l
            PROVE  diags'[k].at # diags'[l].at
        <4>1. ASSUME NEW x \in 1 .. m, IsDouble(diags[x])
              PROVE  diags[x].at # name
          <5>1. PICK y \in 1 .. n : diags[x].at = read[y]
            BY <2>1, <4>1 DEF FirstOf, n, m
          <5> QED
            BY <1>6, <5>1
        <4>2. CASE k \in 1 .. m /\ l \in 1 .. m
          <5>1. diags'[k] = diags[k] /\ diags'[l] = diags[l]
            BY <1>5, <4>2
          <5>2. diags[k].at # diags[l].at
            BY <2>1, <3>5, <4>2, <5>1 DEF FirstOf, m
          <5> QED
            BY <5>1, <5>2
        <4>3. CASE k \in 1 .. m /\ l = m + 1
          BY <1>4, <1>5, <3>5, <4>1, <4>3
        <4>4. CASE k = m + 1 /\ l \in 1 .. m
          BY <1>4, <1>5, <3>5, <4>1, <4>4
        <4> QED
          BY <2>2, <3>5, <4>2, <4>3, <4>4
      <3> QED
        BY <3>1, <3>2, <3>3, <3>4, <3>5 DEF FirstOf
    <2> QED
      BY <1>1, <2>3, FirstWinsIs, Zenon
  <1>10. ReadBefore'
    BY <1>1, NameAddedBefore
  <1>11. NameBefore'
    BY <1>1 DEF IInv, NameBefore
  <1> QED
    BY <1>7, <1>8, <1>9, <1>10, <1>11 DEF IInv

(* The first attribute of a name is kept.                                   *)
LEMMA AttributeKeeps == IInv /\ Attribute => IInv'
  <1> SUFFICES ASSUME IInv, Attribute PROVE IInv'
    OBVIOUS
  <1> DEFINE a == [name |-> name, value |-> At(i + 1, CloseAt)]
             n == Len(attrs)
  <1>1. HasValue /\ ~Seen /\ UNCHANGED <<tag, name, diags>> /\ read' = Append(read, name)
    BY DEF Attribute
  <1>2. /\ i \in Nat /\ i < End /\ End \in Nat /\ tag[i] \in Quote
        /\ CloseAt \in Nat /\ i + 1 <= CloseAt /\ CloseAt < End
        /\ tag[CloseAt] = tag[i]
        /\ \A l \in i + 1 .. CloseAt - 1 : tag[l] # tag[i]
    BY <1>1, CloseFacts
  <1>3. a \in Attr /\ a.name = name /\ a.value.from = i + 1 /\ a.value.to = CloseAt
    BY <1>2 DEF Attr, Span, At, Pos, IInv, TypeOK
  <1>4. attrs' = Append(attrs, a) /\ i' = CloseAt + 1 /\ j' = i + 1 /\ stage' = "check"
    BY DEF Attribute
  <1>5. Quoted(a.value)
    BY <1>2, <1>3 DEF Quoted
  <1> HIDE DEF a
  <1>6. /\ attrs' \in Seq(Attr) /\ Len(attrs') = n + 1 /\ attrs' # <<>>
        /\ \A k \in 1 .. n : attrs'[k] = attrs[k]
        /\ attrs'[n + 1] = a
    <2>1. attrs \in Seq(Attr)
      BY DEF IInv, TypeOK
    <2>2. /\ Append(attrs, a) \in Seq(Attr) /\ Append(attrs, a) # <<>>
          /\ Len(Append(attrs, a)) = Len(attrs) + 1
          /\ \A k \in 1 .. Len(attrs) : Append(attrs, a)[k] = attrs[k]
          /\ Append(attrs, a)[Len(attrs) + 1] = a
      BY <1>3, <2>1, AppendProperties
    <2> QED
      BY <1>4, <2>2, Zenon
  <1>7. n \in Nat /\ 1 .. Len(attrs') = (1 .. n) \cup {n + 1}
    BY <1>6, LenProperties DEF IInv, TypeOK
  <1>8. name.from \in Nat /\ name.to \in Nat /\ name.from <= name.to /\ name.to < i
    BY <1>1 DEF IInv, TypeOK, NameBefore, HasValue, Span, Pos
  <1> HIDE DEF n
  <1> DEFINE r == Len(read)
  <1>9. /\ read' \in Seq(Span) /\ Len(read') = r + 1 /\ r \in Nat
        /\ \A l \in 1 .. r :
             /\ read'[l] = read[l]
             /\ Before(tag, read', l) <=> Before(tag, read, l)
             /\ read[l] # name
        /\ read'[r + 1] = name
        /\ ~Before(tag, read', r + 1)
    BY <1>1, NameAdded
  <1> HIDE DEF r
  <1>10. TypeOK'
    BY <1>1, <1>2, <1>4, <1>6, <1>9 DEF IInv, TypeOK, Pos
  <1>11. SpansApart'
    <2>1. End' = End /\ tag' = tag
      BY <1>1 DEF End
    <2>2. ASSUME NEW k \in 1 .. n + 1
          PROVE  /\ attrs'[k].name.from <= attrs'[k].name.to
                 /\ attrs'[k].name.to + 1 < attrs'[k].value.from
                 /\ attrs'[k].value.from <= attrs'[k].value.to
                 /\ attrs'[k].value.to < i'
                 /\ Quoted(attrs'[k].value)
      <3>1. CASE k = n + 1
        <4>1. attrs'[k] = a
          BY <1>6, <3>1
        <4>2. a.name.from <= a.name.to /\ a.name.to + 1 < a.value.from
          BY <1>2, <1>3, <1>8
        <4>3. a.value.from <= a.value.to /\ a.value.to < i'
          BY <1>2, <1>3, <1>4
        <4> QED
          BY <1>5, <4>1, <4>2, <4>3
      <3>2. CASE k \in 1 .. n
        <4>1. /\ attrs[k].value.to \in Nat /\ attrs[k].value.to < i
              /\ attrs[k].name.from <= attrs[k].name.to
              /\ attrs[k].name.to + 1 < attrs[k].value.from
              /\ attrs[k].value.from <= attrs[k].value.to
              /\ Quoted(attrs[k].value)
          BY <3>2, AttrFacts DEF n
        <4> QED
          BY <4>1, <3>2, <1>2, <1>4, <1>6
      <3> QED
        BY <1>7, <3>1, <3>2
    <2>3. ASSUME NEW k \in 1 .. n + 1, NEW l \in 1 .. n + 1, k < l
          PROVE  attrs'[k].value.to < attrs'[l].name.from
      <3>1. k \in 1 .. n
        BY <1>7, <2>3
      <3>2. CASE l = n + 1
        BY <3>1, <3>2, <1>1, <1>3, <1>6 DEF IInv, NameBefore, HasValue, n
      <3>3. CASE l \in 1 .. n
        BY <3>1, <3>3, <1>6, <2>3 DEF IInv, SpansApart, n
      <3> QED
        BY <1>7, <3>2, <3>3
    <2>4. i' <= End
      BY <1>2, <1>4
    <2> QED
      BY <2>1, <2>2, <2>3, <2>4, <1>6 DEF SpansApart, Quoted
  <1>12. FirstWins'
    <2>1. FirstOf(tag, attrs, diags, read)
      BY FirstWinsIs DEF IInv
    <2>2. /\ 1 .. Len(read') = (1 .. r) \cup {r + 1}
          /\ 1 .. Len(attrs') = (1 .. n) \cup {n + 1}
      BY <1>7, <1>9
    <2>3. FirstOf(tag, attrs', diags, read')
      <3>1. ASSUME NEW k \in 1 .. Len(attrs')
            PROVE  \E l \in 1 .. Len(read') : ~Before(tag, read', l) /\ attrs'[k].name = read'[l]
        <4>1. CASE k = n + 1
          BY <1>3, <1>6, <1>9, <2>2, <4>1
        <4>2. CASE k \in 1 .. n
          <5>1. PICK l \in 1 .. r : ~Before(tag, read, l) /\ attrs[k].name = read[l]
            BY <2>1, <4>2 DEF FirstOf, n, r
          <5> QED
            BY <1>6, <1>9, <2>2, <4>2, <5>1
        <4> QED
          BY <2>2, <4>1, <4>2
      <3>2. ASSUME NEW l \in 1 .. Len(read'), ~Before(tag, read', l)
            PROVE  \E k \in 1 .. Len(attrs') : attrs'[k].name = read'[l]
        <4>1. CASE l = r + 1
          BY <1>3, <1>6, <1>9, <2>2, <4>1
        <4>2. CASE l \in 1 .. r
          <5>1. PICK k \in 1 .. n : attrs[k].name = read[l]
            BY <1>9, <2>1, <3>2, <4>2 DEF FirstOf, n, r
          <5> QED
            BY <1>6, <1>9, <2>2, <4>2, <5>1
        <4> QED
          BY <2>2, <4>1, <4>2
      <3>3. ASSUME NEW k \in 1 .. Len(diags), IsDouble(diags[k])
            PROVE  \E l \in 1 .. Len(read') : Before(tag, read', l) /\ diags[k].at = read'[l]
        <4>1. PICK l \in 1 .. r : Before(tag, read, l) /\ diags[k].at = read[l]
          BY <2>1, <3>3 DEF FirstOf, r
        <4> QED
          BY <1>9, <2>2, <4>1
      <3>4. ASSUME NEW l \in 1 .. Len(read'), Before(tag, read', l)
            PROVE  \E k \in 1 .. Len(diags) : IsDouble(diags[k]) /\ diags[k].at = read'[l]
        <4>1. l \in 1 .. r /\ Before(tag, read, l) /\ read'[l] = read[l]
          BY <1>9, <2>2, <3>4
        <4> QED
          BY <2>1, <4>1 DEF FirstOf, r
      <3>5. \A k, l \in 1 .. Len(diags) :
              IsDouble(diags[k]) /\ IsDouble(diags[l]) /\ k # l => diags[k].at # diags[l].at
        BY <2>1 DEF FirstOf
      <3> QED
        BY <3>1, <3>2, <3>3, <3>4, <3>5 DEF FirstOf
    <2> QED
      BY <1>1, <2>3, FirstWinsIs, Zenon
  <1>13. ReadBefore'
    BY <1>1, <1>4, NameAddedBefore
  <1>14. NameBefore'
    BY <1>4, <1>8, <1>1 DEF NameBefore
  <1> QED
    BY <1>10, <1>11, <1>12, <1>13, <1>14 DEF IInv
-----------------------------------------------------------------------------
(* check_entities works in the last attribute's value.                      *)
LEMMA CheckFacts ==
  ASSUME IInv, stage = "check"
  PROVE  /\ Value \in Span /\ Value.from \in Nat /\ Value.to \in Nat
         /\ Value.to < i /\ i <= End /\ i \in Pos /\ i \in Nat /\ End \in Nat
         /\ j \in Pos /\ j \in Nat /\ j # 0 /\ attrs # <<>>
  <1>1. attrs # <<>> /\ Len(attrs) \in 1 .. Len(attrs)
    BY EmptySeq DEF IInv, TypeOK
  <1>2. Value \in Span /\ Value.from \in Nat /\ Value.to \in Nat /\ Value.to < i
    BY <1>1, AttrFacts DEF Value
  <1> QED
    BY <1>1, <1>2 DEF IInv, TypeOK, SpansApart, End, Pos

LEMMA SemiFacts ==
  ASSUME IInv, Checking, NEW semi \in SemiAt
  PROVE  semi \in Nat /\ j < semi
  <1>1. j + 1 \in Pos /\ j + 1 <= End /\ j \in Nat
    BY CheckFacts DEF Checking, Pos
  <1> DEFINE k == Until(j + 1, Break)
  <1>2. k \in Pos /\ j + 1 <= k
    BY <1>1, Jumps
  <1>3. semi = k
    BY DEF SemiAt
  <1> HIDE DEF k
  <1> QED
    BY <1>1, <1>2, <1>3 DEF Pos

LEMMA PlainByteKeeps == IInv /\ PlainByte => IInv'
  <1> SUFFICES ASSUME IInv, PlainByte PROVE IInv'
    OBVIOUS
  <1>1. j' \in Pos /\ i' \in Pos /\ i <= i' /\ i' <= End /\ attrs # <<>>
    BY CheckFacts DEF PlainByte, Checking, Pos
  <1>2. NameBefore'
    BY DEF PlainByte, Checking, IInv, NameBefore
  <1> QED
    BY <1>1, <1>2, Moves DEF PlainByte, Checking, IInv, TypeOK

LEMMA ReferenceKeeps == IInv /\ Reference => IInv'
  <1> SUFFICES ASSUME IInv, Reference PROVE IInv'
    OBVIOUS
  <1>1. PICK semi \in SemiAt :
          /\ \/ UNCHANGED diags
             \/ Diagnose("InvalidEntity", At(j, semi + 1))
          /\ j' = semi + 1
    BY DEF Reference
  <1>2. Checking /\ UNCHANGED <<tag, stage, i, name, attrs, read>>
    BY DEF Reference
  <1>3. j' \in Pos /\ i' \in Pos /\ i <= i' /\ i' <= End /\ attrs # <<>> /\ stage' = "check"
    BY <1>1, <1>2, SemiFacts, CheckFacts DEF Checking, Pos
  <1>4. CASE UNCHANGED diags
    <2>1. NameBefore'
      BY <1>2 DEF Checking, IInv, NameBefore
    <2> QED
      BY <1>2, <1>3, <1>4, <2>1, Moves DEF IInv, TypeOK
  <1>5. CASE Diagnose("InvalidEntity", At(j, semi + 1))
    <2> DEFINE d == [code |-> "InvalidEntity", at |-> At(j, semi + 1)]
    <2>1. d \in Diag
      BY <1>1, <1>2, SemiFacts, CheckFacts DEF Checking, Diag, Code, Span, At, Pos
    <2>2. diags' = Append(diags, d) /\ d.code # "DuplicateAttribute"
      BY <1>5 DEF Diagnose
    <2> HIDE DEF d
    <2> QED
      BY <1>2, <1>3, <2>1, <2>2, Reports
  <1> QED
    BY <1>1, <1>4, <1>5

LEMMA DanglingKeeps == IInv /\ Dangling => IInv'
  <1> SUFFICES ASSUME IInv, Dangling PROVE IInv'
    OBVIOUS
  <1> DEFINE d == [code |-> "InvalidEntity", at |-> At(j, j + 1)]
  <1>1. Checking /\ UNCHANGED <<tag, stage, i, name, attrs, read>> /\ j' = j + 1
    BY DEF Dangling
  <1>2. j' \in Pos /\ i' \in Pos /\ i <= i' /\ i' <= End /\ attrs # <<>> /\ stage' = "check"
    BY <1>1, CheckFacts DEF Checking, Pos
  <1>3. d \in Diag
    BY <1>1, CheckFacts DEF Checking, Diag, Code, Span, At, Pos
  <1>4. diags' = Append(diags, d) /\ d.code # "DuplicateAttribute"
    BY DEF Dangling, Diagnose
  <1> HIDE DEF d
  <1> QED
    BY <1>1, <1>2, <1>3, <1>4, Reports

LEMMA CheckedKeeps == IInv /\ Checked => IInv'
  <1> SUFFICES ASSUME IInv, Checked PROVE IInv'
    OBVIOUS
  <1> DEFINE openers == {k \in Value.from .. Value.to - 1 : tag[k] = "$"}
             first   == CHOOSE k \in openers : \A l \in openers : k <= l
             d       == [code |-> "UnterminatedPlaceholder", at |-> At(first, Value.to)]
  <1>1. /\ stage = "check" /\ stage' = "scan" /\ UNCHANGED <<tag, i, name, j, attrs, read>>
        /\ IF openers = {} THEN UNCHANGED diags ELSE diags' = Append(diags, d)
    BY DEF Checked, Diagnose
  <1>2. j' \in Pos /\ i' \in Pos /\ i <= i' /\ i' <= End
    BY <1>1, CheckFacts
  <1>3. CASE openers = {}
    <2>1. NameBefore'
      BY <1>1 DEF IInv, NameBefore
    <2> QED
      BY <1>1, <1>2, <1>3, <2>1, Moves DEF IInv, TypeOK
  <1>4. CASE openers # {}
    <2>1. openers \subseteq Nat
      BY <1>1, CheckFacts
    <2>2. first \in openers
      <3>1. \E k \in openers : \A l \in openers : k <= l
        BY <2>1, <1>4, Least
      <3> QED
        BY <3>1
    <2>3. Value.from \in Pos /\ Value.to \in Pos
      BY <1>1, CheckFacts DEF Span
    <2>4. first \in Pos
      <3>1. first \in Value.from .. Value.to - 1
        BY <2>2
      <3> HIDE DEF first
      <3> QED
        BY <2>3, <3>1 DEF Pos
    <2>5. d \in Diag /\ d.code # "DuplicateAttribute"
      BY <2>3, <2>4 DEF Diag, Code, Span, At
    <2> HIDE DEF d, openers, first
    <2> QED
      BY <1>1, <1>2, <1>4, <2>5, Reports
  <1> QED
    BY <1>3, <1>4
-----------------------------------------------------------------------------
LEMMA NextKeeps == IInv /\ [Next]_vars => IInv'
  <1> SUFFICES ASSUME IInv, [Next]_vars PROVE IInv'
    OBVIOUS
  <1>1. CASE UNCHANGED vars
    <2>1. UNCHANGED <<tag, stage, i, name, j, attrs, diags, read>>
      BY <1>1 DEF vars
    <2>2. TypeOK'
      BY <2>1 DEF IInv, TypeOK
    <2>3. SpansApart'
      BY <2>1, SpansKept DEF IInv, TypeOK, SpansApart, Pos
    <2>4. FirstWins'
      BY <2>1, FirstWinsIs, Zenon DEF IInv
    <2>5. NameBefore'
      BY <2>1 DEF IInv, NameBefore, End
    <2>6. ReadBefore'
      BY <2>1, ReadKept DEF IInv, TypeOK, Pos
    <2> QED
      BY <2>2, <2>3, <2>4, <2>5, <2>6 DEF IInv
  <1> QED
    BY <1>1, SkipTagNameKeeps, TagEndsKeeps, NameReadKeeps, BareAttributeKeeps, LeavesKeep,
       QuoteReadKeeps, DuplicateKeeps, AttributeKeeps, PlainByteKeeps, ReferenceKeeps,
       DanglingKeeps, CheckedKeeps
       DEF Next

LEMMA Invariant == Spec => []IInv
  BY InitKeeps, NextKeeps, PTL DEF Spec

(* The state of the scanner is well typed on every tag.                     *)
THEOREM TypeCorrect == Spec => []TypeOK
  <1>1. IInv => TypeOK
    BY DEF IInv
  <1> QED
    BY <1>1, Invariant, PTL

(* No index is out of bounds and no slice is taken twice, on every tag.     *)
THEOREM SpansAlwaysApart == Spec => []SpansApart
  <1>1. IInv => SpansApart
    BY DEF IInv
  <1> QED
    BY <1>1, Invariant, PTL

(* The first value wins, on every tag: of the names read with a quoted      *)
(* value the first of each is kept, and each later one reported once.       *)
THEOREM FirstAlwaysWins == Spec => []FirstWins
  <1>1. IInv => FirstWins
    BY DEF IInv
  <1> QED
    BY <1>1, Invariant, PTL
-----------------------------------------------------------------------------
(* The ampersands of the values, and what is reported of them.              *)
Bad  == "InvalidEntity"
Semi == ";"
Amp  == "&"

Told(p) == \E n \in 1 .. Len(diags) : diags[n].code = Bad /\ diags[n].at.from = p

(* What check_entities has still to read is not due yet.                    *)
Ahead(k, p) == stage = "check" /\ k = Len(attrs) /\ j <= p

Due(p) == \E k \in 1 .. Len(attrs) : p \in Loose(attrs[k].value) /\ ~Ahead(k, p)

AllTold == \A p : Told(p) <=> Due(p)

InOrder ==
  \A m, n \in 1 .. Len(diags) :
    m < n /\ diags[m].code = Bad /\ diags[n].code = Bad => diags[m].at.to <= diags[n].at.from

Behind(p) == \A n \in 1 .. Len(diags) : diags[n].code = Bad => diags[n].at.to <= p

CheckHere ==
  /\ stage = "check" => Value.from <= j /\ j <= Value.to /\ Behind(j)
  /\ stage # "check" => Behind(i)

AInv == AllTold /\ InOrder /\ CheckHere

(* The semicolon is one of the bytes that end the scan of a reference.      *)
LEMMA SemiBreaks == Semi \in Break /\ Semi # Amp
  BY DEF Semi, Break, Amp

(* The invariant says what is reported, at the end.                         *)
LEMMA ToldAtEnd == IInv /\ AInv => AmpersandsToldOnce
  <1> SUFFICES ASSUME IInv, AInv, stage = "done" PROVE AmpersandsToldOnce
    BY DEF AmpersandsToldOnce
  <1> DEFINE told == {n \in 1 .. Len(diags) : diags[n].code = "InvalidEntity"}
             all  == UNION {Loose(attrs[k].value) : k \in 1 .. Len(attrs)}
             said == {diags[n].at.from : n \in told}
  <1>1. \A p : p \in said <=> Told(p)
    BY DEF Told, Bad
  <1>2. \A p : p \in all <=> Due(p)
    <2>1. \A k, p : ~Ahead(k, p)
      BY DEF Ahead
    <2>2. \A p : p \in all <=> \E k \in 1 .. Len(attrs) : p \in Loose(attrs[k].value)
      OBVIOUS
    <2> QED
      BY <2>1, <2>2 DEF Due
  <1>3. \A p : Told(p) <=> Due(p)
    BY DEF AInv, AllTold
  <1>4. said = all
    <2> HIDE DEF said, all
    <2> QED
      BY <1>1, <1>2, <1>3
  <1>5. \A m, n \in told : m < n => diags[m].at.to <= diags[n].at.from
    BY DEF AInv, InOrder, Bad
  <1> QED
    BY <1>4, <1>5 DEF AmpersandsToldOnce

(* The bytes of the tag behind k, up to last.                               *)
LEMMA SliceOf ==
  ASSUME tag \in Seq(Char), NEW k \in Nat, NEW last \in Int, k <= last, last <= Len(tag)
  PROVE  /\ SubSeq(tag, k + 1, last) \in Seq(Char)
         /\ Len(SubSeq(tag, k + 1, last)) = last - k
         /\ \A l \in 1 .. last - k : SubSeq(tag, k + 1, last)[l] = tag[k + l]
  <1>1. \A p \in k + 1 .. last : p \in 1 .. Len(tag)
    OBVIOUS
  <1>2. \A p \in k + 1 .. last : tag[p] \in Char
    BY <1>1, ElementOfSeq
  <1>3. k + 1 \in Int
    OBVIOUS
  <1>4. /\ SubSeq(tag, k + 1, last) \in Seq(Char)
        /\ Len(SubSeq(tag, k + 1, last)) = IF k + 1 <= last THEN last - (k + 1) + 1 ELSE 0
        /\ \A l \in 1 .. last - (k + 1) + 1 :
             SubSeq(tag, k + 1, last)[l] = tag[k + 1 + l - 1]
    BY <1>2, <1>3, SubSeqProperties
  <1> DEFINE s == SubSeq(tag, k + 1, last)
  <1> HIDE DEF s
  <1>5. Len(s) = IF k + 1 <= last THEN last - (k + 1) + 1 ELSE 0
    BY <1>4 DEF s
  <1>6. Len(s) = last - k
    BY <1>5
  <1>7. ASSUME NEW l \in 1 .. last - k
        PROVE  s[l] = tag[k + l]
    <2>1. l \in 1 .. last - (k + 1) + 1 /\ k + 1 + l - 1 = k + l
      OBVIOUS
    <2>2. s[l] = tag[k + 1 + l - 1]
      BY <1>4, <2>1 DEF s
    <2> QED
      BY <2>1, <2>2
  <1> QED
    BY <1>4, <1>6, <1>7 DEF s

(* A name and the semicolon behind it.                                      *)
LEMMA RefersTo ==
  ASSUME tag \in Seq(Char), NEW k \in Nat, NEW semi \in Nat, k < semi, semi <= Len(tag),
         tag[semi] = Semi
  PROVE  /\ SubSeq(tag, k + 1, semi - 1) \in Seq(Char)
         /\ Len(SubSeq(tag, k + 1, semi - 1)) = semi - k - 1
         /\ SubSeq(tag, k + 1, semi) = Append(SubSeq(tag, k + 1, semi - 1), Semi)
  <1> DEFINE r == SubSeq(tag, k + 1, semi - 1)
             s == SubSeq(tag, k + 1, semi)
             t == Append(r, Semi)
             n == semi - k
  <1>1. n \in Nat /\ n >= 1 /\ Len(tag) \in Nat
    OBVIOUS
  <1>2. r \in Seq(Char) /\ Len(r) = n - 1 /\ \A l \in 1 .. n - 1 : r[l] = tag[k + l]
    <2>1. semi - 1 \in Int /\ k <= semi - 1 /\ semi - 1 <= Len(tag) /\ semi - 1 - k = n - 1
      BY <1>1
    <2> HIDE DEF n
    <2> QED
      BY <2>1, SliceOf
  <1>3. s \in Seq(Char) /\ Len(s) = n /\ \A l \in 1 .. n : s[l] = tag[k + l]
    BY SliceOf
  <1>4. Semi \in Char
    BY <1>1, ElementOfSeq
  <1> HIDE DEF r, s
  <1>5. /\ t \in Seq(Char) /\ Len(t) = n /\ t[n] = Semi
        /\ \A l \in 1 .. n - 1 : t[l] = r[l]
    BY <1>1, <1>2, <1>4, AppendProperties
  <1>6. k + n = semi
    OBVIOUS
  <1> HIDE DEF t, n
  <1>7. \A l \in 1 .. n : s[l] = t[l]
    <2> SUFFICES ASSUME NEW l \in 1 .. n PROVE s[l] = t[l]
      OBVIOUS
    <2>1. CASE l = n
      BY <1>1, <1>3, <1>5, <1>6, <2>1
    <2>2. CASE l # n
      <3>1. l \in 1 .. n - 1
        BY <1>1, <2>2
      <3> QED
        BY <1>2, <1>3, <1>5, <3>1
    <2> QED
      BY <2>1, <2>2
  <1>8. s = t
    BY <1>3, <1>5, <1>7, SeqEqual
  <1> QED
    BY <1>2, <1>8 DEF s, t, n, r

(* What is read where a name and a semicolon stand.                         *)
LEMMA RefersFrom ==
  ASSUME tag \in Seq(Char), NEW k \in Nat, NEW r \in Resolvable,
         k + Len(r) + 1 <= Len(tag),
         SubSeq(tag, k + 1, k + Len(r) + 1) = Append(r, Semi)
  PROVE  /\ Len(r) \in Nat /\ tag[k + Len(r) + 1] = Semi
         /\ \A p \in k + 1 .. k + Len(r) : tag[p] \notin Break
         /\ r = SubSeq(tag, k + 1, k + Len(r))
  <1> DEFINE n == Len(r)
             s == SubSeq(tag, k + 1, k + n + 1)
             t == Append(r, Semi)
             u == SubSeq(tag, k + 1, k + n)
  <1>1. r \in Seq(Char \ Break) /\ n \in Nat
    BY ConstantsOK
  <1>2. r \in Seq(Char) /\ \A l \in 1 .. n : r[l] \notin Break
    <2>1. \A l \in 1 .. n : r[l] \in Char \ Break
      BY <1>1, ElementOfSeq
    <2>2. \A l \in 1 .. n : r[l] \in Char /\ r[l] \notin Break
      BY <2>1
    <2>3. r \in Seq(Char)
      <3> HIDE DEF n
      <3>1. \A S, T : S \subseteq T => Seq(S) \subseteq Seq(T)
        OBVIOUS
      <3>2. Char \ Break \subseteq Char
        OBVIOUS
      <3> QED
        BY <1>1, <3>1, <3>2
    <2> QED
      BY <2>2, <2>3
  <1>3. s \in Seq(Char) /\ Len(s) = n + 1 /\ \A l \in 1 .. n + 1 : s[l] = tag[k + l]
    BY <1>1
  <1>4. u \in Seq(Char) /\ Len(u) = n /\ \A l \in 1 .. n : u[l] = tag[k + l]
    BY <1>1
  <1>5. t[n + 1] = Semi /\ \A l \in 1 .. n : t[l] = r[l]
    BY <1>1
  <1>6. s = t
    OBVIOUS
  <1> HIDE DEF n, s, t, u
  <1>7. \A l \in 1 .. n : tag[k + l] = r[l]
    BY <1>1, <1>3, <1>5, <1>6
  <1>8. tag[k + (n + 1)] = Semi
    BY <1>1, <1>3, <1>5, <1>6
  <1>9. \A p \in k + 1 .. k + n : tag[p] \notin Break
    <2> SUFFICES ASSUME NEW p \in k + 1 .. k + n PROVE tag[p] \notin Break
      OBVIOUS
    <2>1. p - k \in 1 .. n /\ k + (p - k) = p
      BY <1>1
    <2> QED
      BY <1>2, <1>7, <2>1
  <1>10. r = u
    <2>1. \A l \in 1 .. n : r[l] = u[l]
      BY <1>4, <1>7
    <2> QED
      BY <1>2, <1>4, <2>1, SeqEqual DEF n
  <1>11. k + (n + 1) = k + n + 1
    BY <1>1
  <1> QED
    BY <1>1, <1>8, <1>9, <1>10, <1>11 DEF n, u

(* A reference that resolves, if it starts at an ampersand, ends where      *)
(* check_entities finds the semicolon.                                      *)
LEMMA StartsHere ==
  ASSUME IInv, Checking, NEW s, s = Until(j + 1, Break)
  PROVE  /\ s \in Nat /\ j < s
         /\ StartsReference(j, Value) <=>
              /\ s < Value.to /\ tag[s] = Semi /\ s - j <= MaxEntityScan
              /\ SubSeq(tag, j + 1, s - 1) \in Resolvable
         /\ \A p \in j + 1 .. s - 1 : tag[p] # Amp
  <1>1. j + 1 \in Pos /\ j + 1 <= End /\ j \in Nat /\ Value.to \in Nat /\ Value.to < End
        /\ End \in Nat /\ End = Len(tag) + 1 /\ Len(tag) \in Nat /\ tag \in Seq(Char)
        /\ j < Value.to /\ MaxEntityScan \in Nat
    BY CheckFacts, ConstantsOK DEF Checking, Pos, IInv, TypeOK, End
  <1>2. /\ s \in Pos /\ j + 1 <= s /\ s <= End
        /\ s < End => tag[s] \in Break
        /\ \A p \in j + 1 .. s - 1 : tag[p] \notin Break
    BY <1>1, Jumps
  <1>3. s \in Nat /\ j < s
    BY <1>1, <1>2 DEF Pos
  <1>4. ASSUME s < Value.to, tag[s] = Semi, s - j <= MaxEntityScan,
               SubSeq(tag, j + 1, s - 1) \in Resolvable
        PROVE  StartsReference(j, Value)
    <2> DEFINE r == SubSeq(tag, j + 1, s - 1)
    <2>1. s <= Len(tag)
      BY <1>1, <1>3, <1>4
    <2>2. Len(r) = s - j - 1 /\ SubSeq(tag, j + 1, s) = Append(r, Semi)
      BY <1>1, <1>3, <1>4, <2>1, RefersTo
    <2>3. r \in Resolvable
      BY <1>4
    <2> HIDE DEF r
    <2>4. j + Len(r) + 1 = s /\ Len(r) < MaxEntityScan
      <3> DEFINE n == Len(r)
      <3>1. n = s - j - 1 /\ s - j <= MaxEntityScan
        BY <1>4, <2>2
      <3> HIDE DEF n
      <3>2. j + n + 1 = s /\ n < MaxEntityScan
        BY <1>1, <1>3, <3>1
      <3> QED
        BY <3>2 DEF n
    <2> QED
      BY <1>4, <2>2, <2>3, <2>4 DEF StartsReference, Semi
  <1>5. ASSUME StartsReference(j, Value)
        PROVE  /\ s < Value.to /\ tag[s] = Semi /\ s - j <= MaxEntityScan
               /\ SubSeq(tag, j + 1, s - 1) \in Resolvable
    <2>1. PICK r \in Resolvable : /\ j + Len(r) + 1 < Value.to /\ Len(r) < MaxEntityScan
                                  /\ SubSeq(tag, j + 1, j + Len(r) + 1) = Append(r, Semi)
      BY <1>5 DEF StartsReference, Semi
    <2>2. Len(r) \in Nat
      BY ConstantsOK
    <2>3. j + Len(r) + 1 <= Len(tag)
      BY <1>1, <2>1, <2>2
    <2>4. /\ tag[j + Len(r) + 1] = Semi
          /\ \A p \in j + 1 .. j + Len(r) : tag[p] \notin Break
          /\ r = SubSeq(tag, j + 1, j + Len(r))
      BY <1>1, <2>1, <2>3, RefersFrom
    <2> DEFINE n == Len(r)
               e == j + n + 1
    <2>5. n \in Nat /\ e = j + n + 1 /\ e < Value.to /\ n < MaxEntityScan
      BY <2>1, <2>2
    <2>6. tag[e] = Semi /\ (\A p \in j + 1 .. j + n : tag[p] \notin Break)
          /\ SubSeq(tag, j + 1, j + n) \in Resolvable
      BY <2>4
    <2> HIDE DEF n, e
    <2>7. s = e
      <3>1. CASE s < e
        <4>1. s \in j + 1 .. j + n /\ s < End
          BY <1>1, <1>3, <2>5, <3>1
        <4> QED
          BY <1>2, <2>6, <4>1
      <3>2. CASE e < s
        <4>1. e \in j + 1 .. s - 1
          BY <1>1, <1>3, <2>5, <3>2
        <4> QED
          BY <1>2, <2>6, <4>1, SemiBreaks
      <3> QED
        BY <1>1, <1>3, <2>5, <3>1, <3>2
    <2>8. s < Value.to /\ s - j <= MaxEntityScan /\ s - 1 = j + n
      BY <1>1, <1>3, <2>5, <2>7
    <2> QED
      BY <2>6, <2>7, <2>8
  <1>6. Amp \in Break
    BY DEF Amp, Break
  <1>7. \A p \in j + 1 .. s - 1 : tag[p] # Amp
    BY <1>2, <1>6
  <1> QED
    BY <1>3, <1>4, <1>5, <1>7

(* An ampersand in a value is loose if it starts no reference.              *)
LEMMA LooseIs ==
  ASSUME NEW v, NEW p
  PROVE  p \in Loose(v) <=> p \in v.from .. v.to - 1 /\ tag[p] = Amp /\ ~StartsReference(p, v)
  BY DEF Loose, Amp

(* As long as the tag is the same, so are its ampersands.                   *)
LEMMA LooseStays ==
  ASSUME UNCHANGED tag, NEW v
  PROVE  Loose(v)' = Loose(v)
  BY DEF Loose, StartsReference

(* Where a diagnostic is.                                                   *)
LEMMA DiagFacts ==
  ASSUME IInv, NEW n \in 1 .. Len(diags)
  PROVE  diags[n].at.to \in Nat /\ diags[n].at.from \in Nat
  <1>1. diags[n] \in Diag
    BY ElementOfSeq DEF IInv, TypeOK
  <1> QED
    BY <1>1 DEF Diag, Span, Pos

(* Outside check_entities, nothing is reported but what has been.           *)
LEMMA Elsewhere ==
  ASSUME IInv, AInv, UNCHANGED <<tag, attrs, diags>>, stage # "check", stage' # "check",
         i' \in Nat, i <= i'
  PROVE  AInv'
  <1>1. \A p : Told(p)' <=> Told(p)
    BY DEF Told
  <1>2. \A p : Due(p)' <=> Due(p)
    BY LooseStays DEF Due, Ahead
  <1>3. InOrder'
    BY DEF AInv, InOrder
  <1>4. Behind(i)'
    <2> SUFFICES ASSUME NEW n \in 1 .. Len(diags), diags[n].code = Bad
                 PROVE  diags[n].at.to <= i'
      BY DEF Behind
    <2>1. diags[n].at.to \in Nat /\ i \in Nat
      BY DiagFacts DEF IInv, TypeOK, Pos
    <2>2. diags[n].at.to <= i
      BY DEF AInv, CheckHere, Behind
    <2> QED
      BY <2>1, <2>2
  <1> QED
    BY <1>1, <1>2, <1>3, <1>4 DEF AInv, AllTold, CheckHere

(* A diagnostic of another kind changes nothing.                            *)
LEMMA OtherDiag ==
  ASSUME IInv, AInv, NEW d \in Diag, d.code # Bad, diags' = Append(diags, d)
  PROVE  /\ \A p : Told(p)' <=> Told(p)
         /\ InOrder'
         /\ \A p, q \in Nat : Behind(p) /\ p <= q =>
              \A n \in 1 .. Len(diags') : diags'[n].code = Bad => diags'[n].at.to <= q
  <1>1. /\ Len(diags) \in Nat /\ Len(diags') = Len(diags) + 1 /\ diags'[Len(diags) + 1] = d
        /\ \A n \in 1 .. Len(diags) : diags'[n] = diags[n]
    BY AppendProperties DEF IInv, TypeOK
  <1>2. \A n \in 1 .. Len(diags') : diags'[n].code = Bad => n \in 1 .. Len(diags)
    BY <1>1
  <1>3. \A n \in 1 .. Len(diags) : n \in 1 .. Len(diags')
    BY <1>1
  <1>4. \A p : Told(p)' <=> Told(p)
    BY <1>1, <1>2, <1>3 DEF Told
  <1>5. InOrder'
    BY <1>1, <1>2 DEF AInv, InOrder
  <1>6. ASSUME NEW p \in Nat, NEW q \in Nat, Behind(p), p <= q,
               NEW n \in 1 .. Len(diags'), diags'[n].code = Bad
        PROVE  diags'[n].at.to <= q
    <2>1. n \in 1 .. Len(diags) /\ diags[n].code = Bad /\ diags'[n] = diags[n]
      BY <1>1, <1>2, <1>6
    <2>2. diags[n].at.to \in Nat /\ diags[n].at.to <= p
      BY <1>6, <2>1, DiagFacts DEF Behind
    <2> DEFINE to == diags[n].at.to
    <2>3. to \in Nat /\ to <= p
      BY <2>2
    <2> HIDE DEF to
    <2>4. to <= q
      BY <1>6, <2>3
    <2> QED
      BY <2>1, <2>4 DEF to
  <1> QED
    BY <1>4, <1>5, <1>6

(* A position before the end of a range is in it.                           *)
LEMMA Between ==
  ASSUME NEW p \in Int, NEW from \in Int, NEW to \in Int, from <= p, p < to
  PROVE  p \in from .. to - 1
  OBVIOUS

(* check_entities goes on to m, over nothing loose ...                      *)
LEMMA ReadsOver ==
  ASSUME IInv, AInv, Checking, UNCHANGED <<tag, stage, i, attrs, diags>>,
         j' \in Nat, j <= j', j' <= Value.to,
         \A p \in j .. j' - 1 : p \notin Loose(Value)
  PROVE  AInv'
  <1>1. stage = "check" /\ j \in Nat /\ attrs # <<>> /\ Value' = Value
    BY CheckFacts DEF Checking, Value
  <1>2. \A p : Told(p)' <=> Told(p)
    BY DEF Told
  <1>3. ASSUME NEW p, NEW k \in 1 .. Len(attrs), p \in Loose(attrs[k].value)
        PROVE  Ahead(k, p)' <=> Ahead(k, p)
    <2>1. CASE k # Len(attrs)
      BY <2>1 DEF Ahead
    <2>2. CASE k = Len(attrs)
      <3>1. p \in Loose(Value) /\ p \in Value.from .. Value.to - 1
        BY <1>3, <2>2, LooseIs DEF Value
      <3>2. p \in Int
        BY <1>1, <3>1, CheckFacts
      <3>4. ~(j <= p /\ p < j')
        <4> SUFFICES ASSUME j <= p, p < j' PROVE FALSE
          OBVIOUS
        <4>1. j \in Int /\ j' \in Int
          BY <1>1
        <4>2. p \in j .. j' - 1
          BY <3>2, <4>1, Between
        <4> QED
          BY <3>1, <4>2
      <3>3. j' <= p <=> j <= p
        BY <1>1, <3>2, <3>4
      <3> QED
        BY <1>1, <2>2, <3>3 DEF Ahead
    <2> QED
      BY <2>1, <2>2
  <1>4. \A p : Due(p)' <=> Due(p)
    BY <1>3, LooseStays DEF Due
  <1>5. InOrder'
    BY DEF AInv, InOrder
  <1>6. Behind(j)'
    <2> SUFFICES ASSUME NEW n \in 1 .. Len(diags), diags[n].code = Bad
                 PROVE  diags[n].at.to <= j'
      BY DEF Behind
    <2>1. diags[n].at.to \in Nat
      BY DiagFacts
    <2>2. diags[n].at.to <= j
      BY <1>1 DEF AInv, CheckHere, Behind
    <2> QED
      BY <1>1, <2>1, <2>2
  <1>7. Value.from <= j'
    <2>1. Value.from <= j /\ Value.from \in Nat
      BY <1>1, CheckFacts DEF AInv, CheckHere
    <2> QED
      BY <1>1, <2>1
  <1> QED
    BY <1>1, <1>2, <1>4, <1>5, <1>6, <1>7 DEF AInv, AllTold, CheckHere

(* ... or over one loose ampersand, which it reports.                       *)
LEMMA TellsOne ==
  ASSUME IInv, AInv, Checking, UNCHANGED <<tag, stage, i, attrs>>,
         j' \in Nat, j < j', j' <= Value.to,
         j \in Loose(Value), \A p \in j + 1 .. j' - 1 : p \notin Loose(Value),
         diags' = Append(diags, [code |-> Bad, at |-> At(j, j')])
  PROVE  AInv'
  <1> DEFINE d == [code |-> Bad, at |-> At(j, j')]
             N == Len(diags)
  <1>1. stage = "check" /\ j \in Nat /\ attrs # <<>> /\ Len(attrs) \in 1 .. Len(attrs)
        /\ Value' = Value
    BY CheckFacts, EmptySeq DEF Checking, Value, IInv, TypeOK
  <1>2. d.code = Bad /\ d.at.from = j /\ d.at.to = j'
    BY DEF At
  <1>3. /\ N \in Nat /\ Len(diags') = N + 1 /\ diags'[N + 1] = d
        /\ \A n \in 1 .. N : diags'[n] = diags[n]
    <2>1. d \in Diag
      BY <1>1, CheckFacts DEF Diag, Code, Bad, At, Span, Pos
    <2> HIDE DEF d
    <2> QED
      BY <2>1, AppendProperties DEF IInv, TypeOK, d
  <1> HIDE DEF d, N
  <1> PICK q : q = j
    OBVIOUS
  <1>4. \A p : Told(p)' <=> Told(p) \/ p = q
    <2>1. 1 .. Len(diags') = (1 .. N) \cup {N + 1}
      BY <1>3
    <2> QED
      BY <1>2, <1>3, <2>1 DEF Told, N
  <1>5. ASSUME NEW p, NEW k \in 1 .. Len(attrs), p \in Loose(attrs[k].value)
        PROVE  Ahead(k, p)' <=> Ahead(k, p) /\ ~(k = Len(attrs) /\ p = j)
    <2>1. CASE k # Len(attrs)
      BY <2>1 DEF Ahead
    <2>2. CASE k = Len(attrs)
      <3>1. p \in Loose(Value) /\ p \in Value.from .. Value.to - 1
        BY <1>5, <2>2, LooseIs DEF Value
      <3>2. p \in Int
        BY <1>1, <3>1, CheckFacts
      <3>4. ~(j + 1 <= p /\ p < j')
        <4> SUFFICES ASSUME j + 1 <= p, p < j' PROVE FALSE
          OBVIOUS
        <4>1. j + 1 \in Int /\ j' \in Int
          BY <1>1
        <4>2. p \in j + 1 .. j' - 1
          BY <3>2, <4>1, Between
        <4> QED
          BY <3>1, <4>2
      <3>3. j' <= p <=> j <= p /\ p # j
        BY <1>1, <3>2, <3>4
      <3> QED
        BY <1>1, <2>2, <3>3 DEF Ahead
    <2> QED
      BY <2>1, <2>2
  <1>6. \A p : Due(p)' <=> Due(p) \/ p = q
    <2> DEFINE D(p, k) == p \in Loose(attrs[k].value) /\ ~Ahead(k, p)
               E(p, k) == p \in Loose(attrs[k].value) /\ ~Ahead(k, p)'
    <2>1. \A p : Due(p)' <=> \E k \in 1 .. Len(attrs) : E(p, k)
      BY LooseStays DEF Due
    <2>2. \A p : Due(p) <=> \E k \in 1 .. Len(attrs) : D(p, k)
      BY DEF Due
    <2>3. \A p : \A k \in 1 .. Len(attrs) : D(p, k) => E(p, k)
      BY <1>5
    <2>4. \A p : \A k \in 1 .. Len(attrs) : E(p, k) => D(p, k) \/ p = q
      BY <1>5
    <2>5. PICK l \in 1 .. Len(attrs) : l = Len(attrs)
      BY <1>1
    <2>6. E(q, l)
      <3>1. q \in Loose(attrs[l].value)
        BY <2>5 DEF Value
      <3>2. ~Ahead(l, q)'
        BY <1>1 DEF Ahead
      <3> QED
        BY <3>1, <3>2
    <2> HIDE DEF D, E
    <2> QED
      BY <2>1, <2>2, <2>3, <2>4, <2>6
  <1>7. \A n \in 1 .. N : diags[n].code = Bad => diags[n].at.to <= j /\ diags[n].at.to \in Nat
    BY <1>1, DiagFacts DEF AInv, CheckHere, Behind, N
  <1>8. InOrder'
    <2> SUFFICES ASSUME NEW m \in 1 .. N + 1, NEW n \in 1 .. N + 1, m < n,
                        diags'[m].code = Bad, diags'[n].code = Bad
                 PROVE  diags'[m].at.to <= diags'[n].at.from
      BY <1>3 DEF InOrder
    <2>1. m \in 1 .. N /\ diags'[m] = diags[m]
      BY <1>3
    <2>2. CASE n = N + 1
      BY <1>2, <1>3, <1>7, <2>1, <2>2
    <2>3. CASE n # N + 1
      <3>1. n \in 1 .. N /\ diags'[n] = diags[n]
        BY <1>3, <2>3
      <3> QED
        BY <2>1, <3>1 DEF AInv, InOrder, N
    <2> QED
      BY <2>2, <2>3
  <1>9. Behind(j)'
    <2> SUFFICES ASSUME NEW n \in 1 .. N + 1, diags'[n].code = Bad PROVE diags'[n].at.to <= j'
      BY <1>3 DEF Behind
    <2>1. CASE n = N + 1
      BY <1>2, <1>3, <2>1
    <2>2. CASE n # N + 1
      <3>1. n \in 1 .. N /\ diags'[n] = diags[n]
        BY <1>3, <2>2
      <3> DEFINE to == diags[n].at.to
      <3>2. to <= j /\ to \in Nat
        BY <1>7, <3>1
      <3> HIDE DEF to
      <3>3. to <= j'
        BY <1>1, <3>2
      <3> QED
        BY <3>1, <3>3 DEF to
    <2> QED
      BY <2>1, <2>2
  <1>10. Value.from <= j'
    <2>1. Value.from <= j /\ Value.from \in Nat
      BY <1>1, CheckFacts DEF AInv, CheckHere
    <2> QED
      BY <1>1, <2>1
  <1>11. AllTold'
    BY <1>4, <1>6 DEF AInv, AllTold
  <1> QED
    BY <1>1, <1>8, <1>9, <1>10, <1>11 DEF AInv, CheckHere

(* A duplicate leaves the values alone.                                     *)
LEMMA DuplicateTells == IInv /\ IInv' /\ AInv /\ Duplicate => AInv'
  <1> SUFFICES ASSUME IInv, IInv', AInv, Duplicate PROVE AInv'
    OBVIOUS
  <1> DEFINE d == [code |-> "DuplicateAttribute", at |-> name]
  <1>1. /\ stage = "value" /\ stage' = "scan" /\ i' = CloseAt + 1 /\ diags' = Append(diags, d)
        /\ UNCHANGED <<tag, attrs, j>>
    BY DEF Duplicate, HasValue, Diagnose
  <1>2. d \in Diag /\ d.code # Bad
    BY DEF Diag, Code, IInv, TypeOK, Bad
  <1> HIDE DEF d
  <1>3. /\ \A p : Told(p)' <=> Told(p)
        /\ InOrder'
        /\ \A p, q \in Nat : Behind(p) /\ p <= q =>
             \A n \in 1 .. Len(diags') : diags'[n].code = Bad => diags'[n].at.to <= q
    BY <1>1, <1>2, OtherDiag
  <1>4. \A p : Due(p)' <=> Due(p)
    BY <1>1, LooseStays DEF Due, Ahead
  <1>5. i \in Nat /\ i' \in Nat /\ i <= i'
    <2>1. i \in Nat /\ i + 1 \in Pos /\ i + 1 <= End
      BY <1>1 DEF IInv, TypeOK, NameBefore, Pos, End
    <2>2. CloseAt \in Pos /\ i + 1 <= CloseAt
      BY <2>1, Jumps DEF CloseAt
    <2> QED
      BY <1>1, <2>1, <2>2 DEF Pos
  <1>6. Behind(i)
    BY <1>1 DEF AInv, CheckHere
  <1>7. Behind(i)'
    <2>1. \A n \in 1 .. Len(diags') : diags'[n].code = Bad => diags'[n].at.to <= i'
      BY <1>3, <1>5, <1>6
    <2> QED
      BY <2>1 DEF Behind
  <1>8. AllTold'
    BY <1>3, <1>4 DEF AInv, AllTold
  <1> QED
    BY <1>1, <1>3, <1>7, <1>8 DEF AInv, CheckHere

(* A value that is kept is read next.                                       *)
LEMMA AttributeTells == IInv /\ IInv' /\ AInv /\ Attribute => AInv'
  <1> SUFFICES ASSUME IInv, IInv', AInv, Attribute PROVE AInv'
    OBVIOUS
  <1> DEFINE a == [name |-> name, value |-> At(i + 1, CloseAt)]
             N == Len(attrs)
  <1>1. /\ stage = "value" /\ stage' = "check" /\ j' = i + 1 /\ attrs' = Append(attrs, a)
        /\ UNCHANGED <<tag, diags>>
    BY DEF Attribute, HasValue
  <1>2. i \in Nat /\ CloseAt \in Nat /\ i + 1 <= CloseAt /\ CloseAt \in Pos /\ i + 1 \in Pos
    <2>1. i \in Nat /\ i + 1 \in Pos /\ i + 1 <= End
      BY <1>1 DEF IInv, TypeOK, NameBefore, Pos, End
    <2>2. CloseAt \in Pos /\ i + 1 <= CloseAt
      BY <2>1, Jumps DEF CloseAt
    <2> QED
      BY <2>1, <2>2 DEF Pos
  <1>3. a \in Attr /\ a.value.from = i + 1 /\ a.value.to = CloseAt
    BY <1>2 DEF Attr, Span, At, IInv, TypeOK
  <1> HIDE DEF a, N
  <1>4. /\ N \in Nat /\ Len(attrs') = N + 1 /\ attrs'[N + 1] = a
        /\ \A k \in 1 .. N : attrs'[k] = attrs[k]
    BY <1>1, <1>3, AppendProperties DEF IInv, TypeOK, N
  <1>5. \A p : Told(p)' <=> Told(p)
    BY <1>1 DEF Told
  <1>6. \A p : Due(p)' <=> Due(p)
    <2>1. Len(attrs)' = N + 1 /\ 1 .. N + 1 = (1 .. N) \cup {N + 1} /\ N + 1 \notin 1 .. N
      BY <1>4
    <2>2. \A p : Due(p) <=> \E k \in 1 .. N : p \in Loose(attrs[k].value)
      BY <1>1 DEF Due, Ahead, N
    <2>3. \A p : Due(p)' <=> \E k \in 1 .. N + 1 : /\ p \in Loose(attrs'[k].value)
                                                   /\ ~(k = N + 1 /\ i + 1 <= p)
      BY <1>1, <2>1, LooseStays DEF Due, Ahead
    <2>4. ASSUME NEW p, p \in Loose(a.value)
          PROVE  i + 1 <= p
      <3>1. p \in a.value.from .. a.value.to - 1
        BY <2>4, LooseIs
      <3> QED
        BY <1>2, <1>3, <3>1
    <2>5. \A p : Due(p)' => \E k \in 1 .. N : p \in Loose(attrs[k].value)
      <3> SUFFICES ASSUME NEW p, NEW k \in 1 .. N + 1, p \in Loose(attrs'[k].value),
                          ~(k = N + 1 /\ i + 1 <= p)
                   PROVE  \E l \in 1 .. N : p \in Loose(attrs[l].value)
        BY <2>3
      <3>1. k # N + 1
        BY <1>4, <2>4
      <3>2. k \in 1 .. N
        BY <2>1, <3>1
      <3> QED
        BY <1>4, <3>2
    <2>6. \A p : (\E k \in 1 .. N : p \in Loose(attrs[k].value)) => Due(p)'
      <3> SUFFICES ASSUME NEW p, NEW k \in 1 .. N, p \in Loose(attrs[k].value)
                   PROVE  \E l \in 1 .. N + 1 : /\ p \in Loose(attrs'[l].value)
                                                /\ ~(l = N + 1 /\ i + 1 <= p)
        BY <2>3
      <3>1. k \in 1 .. N + 1 /\ k # N + 1 /\ attrs'[k] = attrs[k]
        BY <1>4, <2>1
      <3> QED
        BY <3>1
    <2> QED
      BY <2>2, <2>5, <2>6
  <1>7. Behind(j)'
    <2> SUFFICES ASSUME NEW n \in 1 .. Len(diags), diags[n].code = Bad
                 PROVE  diags[n].at.to <= i + 1
      BY <1>1 DEF Behind
    <2> DEFINE to == diags[n].at.to
    <2>1. to \in Nat /\ to <= i
      BY <1>1, DiagFacts DEF AInv, CheckHere, Behind
    <2> HIDE DEF to
    <2>2. to <= i + 1
      BY <1>2, <2>1
    <2> QED
      BY <2>2 DEF to
  <1>8. Value' = a.value
    BY <1>4 DEF Value
  <1>9. AllTold' /\ InOrder'
    BY <1>1, <1>5, <1>6 DEF AInv, AllTold, InOrder
  <1> QED
    BY <1>1, <1>2, <1>3, <1>7, <1>8, <1>9 DEF AInv, CheckHere

(* A byte that is no ampersand.                                             *)
LEMMA PlainByteTells == IInv /\ AInv /\ PlainByte => AInv'
  <1> SUFFICES ASSUME IInv, AInv, PlainByte PROVE AInv'
    OBVIOUS
  <1>1. /\ Checking /\ tag[j] # Amp /\ j' = j + 1 /\ UNCHANGED <<tag, stage, i, attrs, diags>>
    BY DEF PlainByte, Amp
  <1>2. j \in Nat /\ Value.to \in Nat /\ j < Value.to
    BY <1>1, CheckFacts DEF Checking
  <1>3. j' \in Nat /\ j <= j' /\ j' <= Value.to
    BY <1>1, <1>2
  <1>4. \A p \in j .. j' - 1 : p = j
    BY <1>1, <1>2
  <1>5. j \notin Loose(Value)
    BY <1>1, LooseIs
  <1>6. \A p \in j .. j' - 1 : p \notin Loose(Value)
    BY <1>4, <1>5
  <1> QED
    BY <1>1, <1>3, <1>6, ReadsOver

(* Where check_entities is, an ampersand is loose if it starts no reference.*)
LEMMA LooseHere ==
  ASSUME IInv, AInv, Checking, tag[j] = Amp
  PROVE  j \in Loose(Value) <=> ~StartsReference(j, Value)
  <1>1. j \in Nat /\ Value.from \in Nat /\ Value.to \in Nat /\ j < Value.to /\ Value.from <= j
    BY CheckFacts DEF Checking, AInv, CheckHere
  <1>2. j \in Value.from .. Value.to - 1
    BY <1>1, Between
  <1> QED
    BY <1>2, LooseIs

(* A reference, which resolves or does not.                                 *)
LEMMA ReferenceTells == IInv /\ AInv /\ Reference => AInv'
  <1> SUFFICES ASSUME IInv, AInv, Reference PROVE AInv'
    OBVIOUS
  <1> DEFINE s == Until(j + 1, Break)
             r == SubSeq(tag, j + 1, s - 1)
  <1>1. Checking /\ tag[j] = Amp /\ UNCHANGED <<tag, stage, i, attrs>>
    BY DEF Reference, Amp
  <1>2. /\ s < Value.to /\ tag[s] = Semi /\ s - j <= MaxEntityScan
        /\ IF r \in Resolvable THEN UNCHANGED diags
           ELSE diags' = Append(diags, [code |-> Bad, at |-> At(j, s + 1)])
        /\ j' = s + 1
    <2>1. PICK semi \in SemiAt :
            /\ IF SubSeq(tag, j + 1, semi - 1) \in Resolvable THEN UNCHANGED diags
               ELSE Diagnose("InvalidEntity", At(j, semi + 1))
            /\ j' = semi + 1
      BY DEF Reference
    <2>2. semi = s /\ s < Value.to /\ tag[s] = Semi /\ s - j <= MaxEntityScan
      BY <2>1 DEF SemiAt, Semi
    <2> QED
      BY <2>1, <2>2 DEF Diagnose, Bad
  <1> HIDE DEF s
  <1>3. /\ s \in Nat /\ j < s
        /\ StartsReference(j, Value) <=> r \in Resolvable
        /\ \A p \in j + 1 .. s - 1 : tag[p] # Amp
    BY <1>1, <1>2, StartsHere DEF s
  <1>4. j \in Loose(Value) <=> r \notin Resolvable
    BY <1>1, <1>3, LooseHere
  <1> HIDE DEF r
  <1>5. j \in Nat /\ Value.to \in Nat
    BY <1>1, CheckFacts DEF Checking
  <1>6. j' \in Nat /\ j < j' /\ j <= j' /\ j' <= Value.to
    BY <1>2, <1>3, <1>5
  <1>7. ASSUME NEW p \in j + 1 .. j' - 1
        PROVE  p \notin Loose(Value)
    <2>1. p \in j + 1 .. s - 1 \/ p = s
      BY <1>2, <1>3, <1>5
    <2>2. tag[p] # Amp
      BY <1>2, <1>3, <2>1, SemiBreaks
    <2> QED
      BY <2>2, LooseIs
  <1>8. CASE r \in Resolvable
    <2>1. ASSUME NEW p \in j .. j' - 1
          PROVE  p = j \/ p \in j + 1 .. j' - 1
      <3>1. PICK q : q = j'
        OBVIOUS
      <3>2. p \in j .. q - 1 /\ j \in Nat /\ q \in Nat
        BY <1>5, <1>6, <3>1
      <3>3. p = j \/ p \in j + 1 .. q - 1
        BY <3>2
      <3> QED
        BY <3>1, <3>3
    <2>2. \A p \in j .. j' - 1 : p \notin Loose(Value)
      BY <1>4, <1>7, <1>8, <2>1
    <2> QED
      BY <1>1, <1>2, <1>6, <1>8, <2>2, ReadsOver
  <1>9. CASE r \notin Resolvable
    <2>1. diags' = Append(diags, [code |-> Bad, at |-> At(j, j')])
      BY <1>2, <1>9
    <2> QED
      BY <1>1, <1>4, <1>6, <1>7, <1>9, <2>1, TellsOne
  <1> QED
    BY <1>8, <1>9

(* An ampersand that no semicolon near enough follows.                      *)
LEMMA DanglingTells == IInv /\ AInv /\ Dangling => AInv'
  <1> SUFFICES ASSUME IInv, AInv, Dangling PROVE AInv'
    OBVIOUS
  <1> DEFINE s == Until(j + 1, Break)
  <1>1. /\ Checking /\ tag[j] = Amp /\ UNCHANGED <<tag, stage, i, attrs>> /\ j' = j + 1
        /\ diags' = Append(diags, [code |-> Bad, at |-> At(j, j + 1)])
    BY DEF Dangling, Amp, Bad, Diagnose
  <1>2. ~(s < Value.to /\ tag[s] = Semi /\ s - j <= MaxEntityScan)
    <2>1. SemiAt = {}
      BY DEF Dangling
    <2> QED
      BY <2>1 DEF SemiAt, Semi
  <1> HIDE DEF s
  <1>3. ~StartsReference(j, Value)
    BY <1>1, <1>2, StartsHere DEF s
  <1>4. j \in Loose(Value)
    BY <1>1, <1>3, LooseHere
  <1>5. j \in Nat /\ Value.to \in Nat /\ j < Value.to
    BY <1>1, CheckFacts DEF Checking
  <1>6. j' \in Nat /\ j < j' /\ j' <= Value.to
    BY <1>1, <1>5
  <1>7. \A p \in j + 1 .. j' - 1 : FALSE
    BY <1>1, <1>5
  <1> QED
    BY <1>1, <1>4, <1>6, <1>7, TellsOne

(* The value has been read, and nothing of it is left to tell.              *)
LEMMA CheckedTells == IInv /\ IInv' /\ AInv /\ Checked => AInv'
  <1> SUFFICES ASSUME IInv, IInv', AInv, Checked PROVE AInv'
    OBVIOUS
  <1> DEFINE openers == {k \in Value.from .. Value.to - 1 : tag[k] = "$"}
             first   == CHOOSE k \in openers : \A l \in openers : k <= l
             d       == [code |-> "UnterminatedPlaceholder", at |-> At(first, Value.to)]
  <1>1. /\ stage = "check" /\ stage' = "scan" /\ UNCHANGED <<tag, i, attrs, j>> /\ j >= Value.to
        /\ diags' = diags \/ diags' = Append(diags, d)
    BY DEF Checked, Diagnose
  <1>2. d.code # Bad
    BY DEF Bad
  <1> HIDE DEF d
  <1>3. /\ j \in Nat /\ i \in Nat /\ i' = i /\ Value.to \in Nat /\ Value.from \in Nat
        /\ Value.to < i /\ j <= Value.to
    BY <1>1, CheckFacts DEF AInv, CheckHere
  <1>4. /\ \A p : Told(p)' <=> Told(p)
        /\ InOrder'
        /\ Behind(i)'
    <2>1. Behind(j) /\ j <= i
      BY <1>1, <1>3 DEF AInv, CheckHere
    <2>2. CASE diags' = diags
      <3>1. \A n \in 1 .. Len(diags) : diags[n].code = Bad => diags[n].at.to <= i
        <4> SUFFICES ASSUME NEW n \in 1 .. Len(diags), diags[n].code = Bad
                     PROVE  diags[n].at.to <= i
          OBVIOUS
        <4> DEFINE to == diags[n].at.to
        <4>1. to \in Nat /\ to <= j
          BY <2>1, DiagFacts DEF Behind
        <4> HIDE DEF to
        <4>2. to <= i
          BY <1>3, <2>1, <4>1
        <4> QED
          BY <4>2 DEF to
      <3> QED
        BY <1>3, <2>2, <3>1 DEF Told, AInv, InOrder, Behind
    <2>3. CASE diags' = Append(diags, d) /\ diags' # diags
      <3>1. d \in Diag
        <4>1. Len(diags') = Len(diags) + 1 /\ Len(diags) \in Nat /\ diags'[Len(diags) + 1] = d
          BY <2>3 DEF IInv, TypeOK
        <4>2. diags' \in Seq(Diag) /\ Len(diags) + 1 \in 1 .. Len(diags')
          BY <4>1 DEF IInv, TypeOK
        <4>3. diags'[Len(diags) + 1] \in Diag
          BY <4>2, ElementOfSeq
        <4> QED
          BY <4>1, <4>3
      <3>2. /\ \A p : Told(p)' <=> Told(p)
            /\ InOrder'
            /\ \A p, q \in Nat : Behind(p) /\ p <= q =>
                 \A n \in 1 .. Len(diags') : diags'[n].code = Bad => diags'[n].at.to <= q
        BY <1>2, <2>3, <3>1, OtherDiag
      <3>3. \A n \in 1 .. Len(diags') : diags'[n].code = Bad => diags'[n].at.to <= i
        BY <1>3, <2>1, <3>2
      <3> QED
        BY <1>3, <3>2, <3>3 DEF Behind
    <2> QED
      BY <1>1, <2>2, <2>3
  <1>5. \A p : Due(p)' <=> Due(p)
    <2>1. ASSUME NEW p, NEW k \in 1 .. Len(attrs), p \in Loose(attrs[k].value)
          PROVE  ~Ahead(k, p) /\ ~Ahead(k, p)'
      <3>1. ~Ahead(k, p)'
        BY <1>1 DEF Ahead
      <3>2. CASE k = Len(attrs)
        <4>1. p \in Value.from .. Value.to - 1
          BY <2>1, <3>2, LooseIs DEF Value
        <4>2. ~(j <= p)
          BY <1>1, <1>3, <4>1
        <4> QED
          BY <3>1, <4>2 DEF Ahead
      <3> QED
        BY <3>1, <3>2 DEF Ahead
    <2> QED
      BY <1>1, <2>1, LooseStays DEF Due
  <1>6. AllTold'
    BY <1>4, <1>5 DEF AInv, AllTold
  <1> QED
    BY <1>1, <1>4, <1>6 DEF AInv, CheckHere

(* The steps that report nothing.                                           *)
LEMMA WalkTells ==
  IInv /\ IInv' /\ AInv
    /\ (SkipTagName \/ TagEnds \/ NameRead \/ BareAttribute \/ Unquoted \/ QuoteRead \/ CutOff)
    => AInv'
  <1> SUFFICES ASSUME IInv, IInv', AInv,
                      SkipTagName \/ TagEnds \/ NameRead \/ BareAttribute \/ Unquoted
                        \/ QuoteRead \/ CutOff
               PROVE  AInv'
    OBVIOUS
  <1>1. UNCHANGED <<tag, attrs, diags>> /\ stage # "check" /\ stage' # "check"
    BY DEF SkipTagName, TagEnds, NameRead, BareAttribute, Unquoted, QuoteRead, CutOff
  <1>2. i \in Pos /\ i' \in Pos /\ i <= End /\ End \in Nat /\ i \in Nat /\ i' \in Nat
    BY DEF IInv, TypeOK, SpansApart, Pos, End
  <1>3. i <= i'
    <2>1. CASE SkipTagName
      <3>1. i = 1
        BY <2>1 DEF SkipTagName, IInv, NameBefore
      <3>2. 1 <= i'
        BY <1>2 DEF Pos
      <3> QED
        BY <3>1, <3>2
    <2>2. i <= Skip(i) /\ Skip(i) <= End /\ Skip(i) \in Pos
      BY <1>2, Jumps
    <2>3. CASE TagEnds \/ Unquoted \/ CutOff
      BY <1>2, <2>3 DEF TagEnds, Unquoted, CutOff
    <2>4. CASE NameRead
      <3> DEFINE u == Until(Skip(i), Stop \cup {"=", " "})
      <3>1. Skip(i) <= u /\ u \in Pos
        BY <2>2, Jumps
      <3>2. i' = u
        BY <2>4 DEF NameRead, At
      <3> DEFINE k == Skip(i)
      <3>3. k \in Nat /\ u \in Nat /\ i <= k /\ k <= u
        BY <2>2, <3>1 DEF Pos
      <3> HIDE DEF k, u
      <3> QED
        BY <1>2, <3>2, <3>3
    <2>5. CASE BareAttribute
      BY <2>2, <2>5 DEF BareAttribute
    <2>6. CASE QuoteRead
      <3>1. Skip(i) < End /\ Skip(i) + 1 \in Pos /\ Skip(i) + 1 <= End /\ Skip(i) \in Nat
        BY <1>2, <2>2, <2>6 DEF QuoteRead, Is, Pos
      <3>2. Skip(i) + 1 <= Skip(Skip(i) + 1) /\ Skip(Skip(i) + 1) \in Pos
        BY <3>1, Jumps
      <3>3. i' = Skip(Skip(i) + 1)
        BY <2>6 DEF QuoteRead
      <3> QED
        BY <1>2, <2>2, <3>1, <3>2, <3>3 DEF Pos
    <2> QED
      BY <2>1, <2>3, <2>4, <2>5, <2>6
  <1> QED
    BY <1>1, <1>2, <1>3, Elsewhere

(* InvalidEntity is reported once for each ampersand of a kept value that   *)
(* starts no reference, in order, and for no other, whatever the tag, what  *)
(* resolves, and MAX_ENTITY_SCAN: check_entities neither runs over an       *)
(* ampersand nor comes back to one, wherever its search for a semicolon     *)
(* gives up.                                                                *)
THEOREM AmpersandsAlwaysToldOnce == Spec => []AmpersandsToldOnce
  <1>1. Init => AInv
    BY DEF Init, AInv, AllTold, Told, Due, InOrder, CheckHere, Behind
  <1>2. IInv /\ IInv' /\ AInv /\ [Next]_vars => AInv'
    <2> SUFFICES ASSUME IInv, IInv', AInv, [Next]_vars PROVE AInv'
      OBVIOUS
    <2>1. CASE UNCHANGED vars
      BY <2>1, LooseStays DEF vars, AInv, AllTold, Told, Due, Ahead, InOrder, CheckHere, Behind,
                              Value
    <2> QED
      BY <2>1, WalkTells, DuplicateTells, AttributeTells, PlainByteTells, ReferenceTells,
         DanglingTells, CheckedTells
         DEF Next
  <1> QED
    BY <1>1, <1>2, ToldAtEnd, Invariant, PTL DEF Spec
-----------------------------------------------------------------------------
(* What XML reads in a tag.  A jump of the grammar is one of the scanner.   *)
LEMMA FirstIs ==
  ASSUME NEW T, T \subseteq Nat, T # {}
  PROVE  First(T) \in T /\ \A l \in T : First(T) <= l
  BY Least DEF First

LEMMA FirstIsThis ==
  ASSUME NEW T, T \subseteq Nat, NEW k \in T, \A l \in T : k <= l
  PROVE  First(T) = k
  <1>1. First(T) \in T /\ \A l \in T : First(T) <= l
    BY FirstIs
  <1>2. First(T) <= k /\ k <= First(T) /\ First(T) \in Nat /\ k \in Nat
    BY <1>1
  <1> QED
    BY <1>2

LEMMA EndIs ==
  ASSUME tag \in Seq(Char)
  PROVE  /\ End \in Nat /\ 1 <= End /\ Len(tag) \in Nat /\ End = Len(tag) + 1
         /\ \A k \in 1 .. End : k < End => tag[k] \in Char
  <1>1. Len(tag) \in Nat /\ \A k \in 1 .. Len(tag) : tag[k] \in Char
    BY ElementOfSeq
  <1> QED
    BY <1>1 DEF End

LEMMA AfterIs ==
  ASSUME tag \in Seq(Char), NEW p \in 1 .. End, NEW S
  PROVE  /\ After(p, S) \in p .. End
         /\ After(p, S) < End => tag[After(p, S)] \notin S
         /\ \A l \in p .. After(p, S) - 1 : tag[l] \in S
  <1> DEFINE T == {k \in p .. End : k = End \/ tag[k] \notin S}
  <1>1. End \in Nat /\ T \subseteq Nat /\ End \in T
    BY EndIs
  <1>2. First(T) \in T /\ \A l \in T : First(T) <= l
    BY <1>1, FirstIs
  <1>3. \A l \in p .. First(T) - 1 : l \in p .. End /\ ~(First(T) <= l) /\ l # End
    BY <1>1, <1>2
  <1>4. \A l \in p .. First(T) - 1 : tag[l] \in S
    BY <1>2, <1>3
  <1> QED
    BY <1>2, <1>4 DEF After

LEMMA AfterIsThis ==
  ASSUME tag \in Seq(Char), NEW p \in 1 .. End, NEW S,
         NEW k \in p .. End, k < End => tag[k] \notin S, \A l \in p .. k - 1 : tag[l] \in S
  PROVE  After(p, S) = k
  <1> DEFINE T == {l \in p .. End : l = End \/ tag[l] \notin S}
  <1>1. End \in Nat /\ T \subseteq Nat /\ k \in T
    BY EndIs
  <1>2. ASSUME NEW l \in T PROVE k <= l
    <2>1. l \in p .. End /\ (l = End \/ tag[l] \notin S)
      OBVIOUS
    <2>2. l \notin p .. k - 1
      <3>1. CASE l = End
        BY <1>1, <3>1
      <3>2. CASE tag[l] \notin S
        BY <3>2
      <3> QED
        BY <2>1, <3>1, <3>2
    <2> QED
      BY <1>1, <2>1, <2>2
  <1>3. First(T) = k
    BY <1>1, <1>2, FirstIsThis
  <1> QED
    BY <1>3 DEF After

(* A jump that stops at no other byte stops where this one does.            *)
LEMMA UntilIsThis ==
  ASSUME tag \in Seq(Char), NEW p \in 1 .. End, NEW S,
         NEW k \in p .. End, k < End => tag[k] \in S, \A l \in p .. k - 1 : tag[l] \notin S
  PROVE  Until(p, S) = k
  <1> DEFINE u == Until(p, S)
  <1>1. u \in p .. End /\ (u < End => tag[u] \in S) /\ \A l \in p .. u - 1 : tag[l] \notin S
    BY UntilStops
  <1> HIDE DEF u
  <1>2. End \in Nat
    BY EndIs
  <1>3. ~(u < k)
    <2>1. SUFFICES ASSUME u < k PROVE FALSE
      OBVIOUS
    <2>2. u \in p .. k - 1 /\ u < End
      BY <1>1, <1>2, <2>1
    <2> QED
      BY <1>1, <2>2
  <1>4. ~(k < u)
    <2>1. SUFFICES ASSUME k < u PROVE FALSE
      OBVIOUS
    <2>2. k \in p .. u - 1 /\ k < End
      BY <1>1, <1>2, <2>1
    <2> QED
      BY <1>1, <2>2
  <1>5. u = k
    BY <1>1, <1>2, <1>3, <1>4
  <1> QED
    BY <1>5 DEF u

LEMMA JumpsAgree ==
  ASSUME tag \in Seq(Char), NEW p \in 1 .. End, NEW S
  PROVE  Until(p, Char \ S) = After(p, S)
  <1> DEFINE k == After(p, S)
  <1>1. k \in p .. End /\ (k < End => tag[k] \notin S) /\ \A l \in p .. k - 1 : tag[l] \in S
    BY AfterIs
  <1> HIDE DEF k
  <1>2. End \in Nat /\ \A l \in 1 .. End : l < End => tag[l] \in Char
    BY EndIs
  <1>3. k < End => tag[k] \in Char \ S
    BY <1>1, <1>2
  <1>4. \A l \in p .. k - 1 : tag[l] \notin Char \ S
    BY <1>1
  <1>5. Until(p, Char \ S) = k
    BY <1>1, <1>3, <1>4, UntilIsThis
  <1> QED
    BY <1>5 DEF k

LEMMA SkipIsAfter ==
  ASSUME tag \in Seq(Char), NEW p \in 1 .. End
  PROVE  Skip(p) = After(p, {" "})
  BY JumpsAgree DEF Skip

(* What is read at p is read on from where the attribute ends, or the name. *)
ReadAt(f, p) ==
  CASE StrictAt(p) # {} ->
         LET a    == CHOOSE a \in StrictAt(p) : TRUE
             rest == f[a.value.to + 1]
         IN  [all |-> {a} \cup rest.all, to |-> rest.to]
    [] StrictAt(p) = {} /\ BareEnd(p) # {} -> f[CHOOSE to \in BareEnd(p) : TRUE]
    [] OTHER -> [all |-> {}, to |-> p]

Blank == {" "}

(* The parts of a strict attribute.                                         *)
StartOf(p) == After(p, Blank)
NameEnd(p) == After(StartOf(p), NameChar)
EqOf(p)    == After(NameEnd(p), Blank)
QuoteOf(p) == After(EqOf(p) + 1, Blank)
Closers(p) == {k \in QuoteOf(p) + 1 .. Len(tag) : tag[k] = tag[QuoteOf(p)]}
AttrOf(p)  == [name  |-> At(StartOf(p), NameEnd(p)),
               value |-> At(QuoteOf(p) + 1, First(Closers(p)))]

Named(p)   == p < StartOf(p) /\ Is(StartOf(p), NameChar)
Plain(p)   == \A k \in QuoteOf(p) .. First(Closers(p)) : tag[k] # "<"

LEMMA StrictAtIs ==
  ASSUME NEW p
  PROVE  StrictAt(p) = IF /\ Named(p) /\ Is(EqOf(p), {"="}) /\ Is(QuoteOf(p), Quote)
                          /\ Closers(p) # {} /\ Plain(p)
                       THEN {AttrOf(p)} ELSE {}
  BY Zenon DEF StrictAt, Named, Plain, StartOf, NameEnd, EqOf, QuoteOf, Closers, AttrOf, Blank

LEMMA BareEndIs ==
  ASSUME NEW p
  PROVE  BareEnd(p) = IF /\ Named(p) /\ Is(NameEnd(p), Blank \cup Stop) /\ ~Is(EqOf(p), {"="})
                      THEN {NameEnd(p)} ELSE {}
  BY Zenon DEF BareEnd, Named, StartOf, NameEnd, EqOf, Blank

(* Where they stand.                                                        *)
LEMMA PartsOf ==
  ASSUME tag \in Seq(Char), NEW p \in 1 .. End
  PROVE  /\ StartOf(p) \in p .. End /\ NameEnd(p) \in StartOf(p) .. End
         /\ EqOf(p) \in NameEnd(p) .. End
         /\ EqOf(p) < End => QuoteOf(p) \in EqOf(p) + 1 .. End
         /\ StartOf(p) \in 1 .. End /\ NameEnd(p) \in 1 .. End /\ EqOf(p) \in 1 .. End
         /\ End \in Nat /\ 1 <= End
  <1>1. End \in Nat /\ 1 <= End
    BY EndIs
  <1>2. StartOf(p) \in p .. End
    BY AfterIs DEF StartOf
  <1>3. StartOf(p) \in 1 .. End
    BY <1>1, <1>2
  <1>4. NameEnd(p) \in StartOf(p) .. End
    BY <1>3, AfterIs DEF NameEnd
  <1>5. NameEnd(p) \in 1 .. End
    BY <1>1, <1>3, <1>4
  <1>6. EqOf(p) \in NameEnd(p) .. End
    BY <1>5, AfterIs DEF EqOf
  <1>7. ASSUME EqOf(p) < End PROVE QuoteOf(p) \in EqOf(p) + 1 .. End
    <2>1. EqOf(p) + 1 \in 1 .. End
      BY <1>1, <1>5, <1>6, <1>7
    <2> QED
      BY <2>1, AfterIs DEF QuoteOf
  <1> QED
    BY <1>1, <1>2, <1>4, <1>6, <1>7

(* Reading goes forward, and stays in the tag.                              *)
LEMMA Onward ==
  ASSUME tag \in Seq(Char), NEW p \in 1 .. End
  PROVE  /\ \A a \in StrictAt(p) : a.value.to + 1 \in p + 1 .. End
         /\ \A to \in BareEnd(p) : to \in p + 1 .. End
  <1>1. /\ StartOf(p) \in p .. End /\ NameEnd(p) \in StartOf(p) .. End
        /\ EqOf(p) \in NameEnd(p) .. End
        /\ EqOf(p) < End => QuoteOf(p) \in EqOf(p) + 1 .. End
        /\ End \in Nat
    BY PartsOf
  <1>2. ASSUME NEW to \in BareEnd(p) PROVE to \in p + 1 .. End
    <2>1. Named(p) /\ to = NameEnd(p)
      BY <1>2, BareEndIs
    <2>2. p < StartOf(p)
      BY <2>1 DEF Named
    <2> QED
      BY <1>1, <2>1, <2>2
  <1>3. ASSUME NEW a \in StrictAt(p) PROVE a.value.to + 1 \in p + 1 .. End
    <2>1. a = AttrOf(p) /\ Is(EqOf(p), {"="}) /\ Closers(p) # {}
      BY <1>3, StrictAtIs
    <2>2. EqOf(p) < End
      BY <2>1 DEF Is
    <2>3. Closers(p) \subseteq Nat /\ End = Len(tag) + 1 /\ Len(tag) \in Nat
      BY <1>1, <2>2, EndIs DEF Closers
    <2>4. First(Closers(p)) \in Closers(p)
      BY <2>1, <2>3, FirstIs
    <2>5. First(Closers(p)) \in QuoteOf(p) + 1 .. Len(tag)
      BY <2>4 DEF Closers
    <2>6. a.value.to = First(Closers(p))
      BY <2>1 DEF AttrOf, At
    <2> HIDE DEF AttrOf
    <2>7. First(Closers(p)) + 1 \in p + 1 .. End
      BY <1>1, <2>2, <2>3, <2>5
    <2> QED
      BY <2>6, <2>7
  <1> QED
    BY <1>2, <1>3

LEMMA ReadsAhead ==
  ASSUME tag \in Seq(Char), NEW p \in 1 .. End, NEW f, NEW g,
         \A q \in p + 1 .. End : f[q] = g[q]
  PROVE  ReadAt(f, p) = ReadAt(g, p)
  <1>1. ASSUME StrictAt(p) # {}
        PROVE  LET a == CHOOSE a \in StrictAt(p) : TRUE IN f[a.value.to + 1] = g[a.value.to + 1]
    BY <1>1, Onward
  <1>2. ASSUME BareEnd(p) # {}
        PROVE  LET to == CHOOSE to \in BareEnd(p) : TRUE IN f[to] = g[to]
    BY <1>2, Onward
  <1> QED
    BY <1>1, <1>2, Zenon DEF ReadAt

(* There is a reading of every tag: from its end on, and from each position *)
(* on if from the next.                                                     *)
Reading(f) == f = [q \in 1 .. End |-> ReadAt(f, q)]

LEMMA StrictReads == tag \in Seq(Char) => Reading(StrictFrom)
  <1> SUFFICES ASSUME tag \in Seq(Char) PROVE Reading(StrictFrom)
    OBVIOUS
  <1> DEFINE Fits(f, k) == f = [q \in End + 1 - k .. End |-> ReadAt(f, q)]
             Off == {k \in 0 .. End : ~\E f : Fits(f, k)}
  <1>1. End \in Nat /\ 1 <= End
    BY EndIs
  <1>2. Off = {}
    <2>1. SUFFICES ASSUME Off # {} PROVE FALSE
      OBVIOUS
    <2>2. PICK k \in Off : \A l \in Off : k <= l
      <3>1. Off \subseteq Nat
        BY <1>1
      <3> HIDE DEF Off
      <3> QED
        BY <2>1, <3>1, Least
    <2>3. CASE k = 0
      <3> DEFINE f == [q \in {} |-> 0]
      <3>1. End + 1 - 0 .. End = {}
        BY <1>1
      <3>2. Fits(f, 0)
        BY <3>1
      <3> QED
        BY <2>2, <2>3, <3>2
    <2>4. CASE k # 0
      <3> DEFINE m == End + 1 - k
      <3>1. k - 1 \in 0 .. End /\ ~(k <= k - 1) /\ m \in 1 .. End
        BY <1>1, <2>2, <2>4
      <3>2. k - 1 \notin Off
        BY <2>2, <3>1
      <3>3. PICK g : Fits(g, k - 1)
        BY <3>1, <3>2
      <3>4. End + 1 - (k - 1) = m + 1
        BY <1>1, <3>1
      <3>5. g = [q \in m + 1 .. End |-> ReadAt(g, q)]
        BY <3>3, <3>4
      <3> DEFINE f == [q \in m .. End |-> IF q = m THEN ReadAt(g, m) ELSE g[q]]
      <3>6. ~\E h : h = [q \in m .. End |-> ReadAt(h, q)]
        BY <2>2
      <3> HIDE DEF m, Off, Fits
      <3>7. \A q \in m + 1 .. End : q \in m .. End /\ q # m
        BY <3>1
      <3>8. \A q \in m + 1 .. End : f[q] = g[q]
        BY <3>7
      <3>9. ASSUME NEW q \in m .. End PROVE f[q] = ReadAt(f, q)
        <4>1. q \in 1 .. End /\ \A l \in q + 1 .. End : l \in m + 1 .. End
          BY <1>1, <3>1
        <4>2. \A l \in q + 1 .. End : f[l] = g[l]
          BY <3>8, <4>1
        <4> HIDE DEF f
        <4>3. ReadAt(f, q) = ReadAt(g, q)
          BY <4>1, <4>2, ReadsAhead
        <4>4. CASE q = m
          BY <4>3, <4>4 DEF f
        <4>5. CASE q # m
          <5>1. q \in m + 1 .. End
            BY <1>1, <3>1, <4>5
          <5>2. f[q] = g[q]
            BY <3>8, <5>1
          <5>3. g[q] = ReadAt(g, q)
            BY <3>5, <5>1
          <5> QED
            BY <4>3, <5>2, <5>3
        <4> QED
          BY <4>4, <4>5
      <3>10. f = [q \in m .. End |-> ReadAt(f, q)]
        <4>1. f = [q \in m .. End |-> f[q]]
          OBVIOUS
        <4> HIDE DEF f
        <4> QED
          BY <3>9, <4>1
      <3> HIDE DEF f
      <3> QED
        BY <3>6, <3>10
    <2> QED
      BY <2>3, <2>4
  <1>3. PICK f : f = [q \in 1 .. End |-> ReadAt(f, q)]
    <2>1. End \in 0 .. End /\ End + 1 - End = 1
      BY <1>1
    <2>2. \E f : Fits(f, End)
      BY <1>2, <2>1
    <2> QED
      BY <2>1, <2>2
  <1>4. StrictFrom = CHOOSE g : g = [q \in 1 .. End |-> ReadAt(g, q)]
    BY DEF StrictFrom, ReadAt
  <1>5. StrictFrom = [q \in 1 .. End |-> ReadAt(StrictFrom, q)]
    BY <1>3, <1>4
  <1> QED
    BY <1>5 DEF Reading

LEMMA StrictFromIs ==
  ASSUME tag \in Seq(Char), NEW p \in 1 .. End
  PROVE  StrictFrom[p] = ReadAt(StrictFrom, p)
  <1>1. StrictFrom = [q \in 1 .. End |-> ReadAt(StrictFrom, q)]
    BY StrictReads DEF Reading
  <1> QED
    BY <1>1

(* There is only one.                                                       *)
LEMMA OneReading ==
  ASSUME tag \in Seq(Char), NEW f, NEW g, Reading(f), Reading(g)
  PROVE  f = g
  <1> DEFINE Off == {k \in 0 .. End - 1 : f[End - k] # g[End - k]}
  <1>1. End \in Nat /\ 1 <= End
    BY EndIs
  <1>2. \A q \in 1 .. End : f[q] = ReadAt(f, q) /\ g[q] = ReadAt(g, q)
    BY DEF Reading
  <1>3. Off = {}
    <2>1. SUFFICES ASSUME Off # {} PROVE FALSE
      OBVIOUS
    <2>2. PICK k \in Off : \A l \in Off : k <= l
      <3>1. Off \subseteq Nat
        BY <1>1
      <3> HIDE DEF Off
      <3> QED
        BY <2>1, <3>1, Least
    <2> DEFINE p == End - k
    <2>3. p \in 1 .. End /\ k \in Nat /\ f[p] # g[p] /\ \A q \in p + 1 .. End :
            End - q \in 0 .. End - 1 /\ ~(k <= End - q) /\ End - (End - q) = q
      BY <1>1, <2>2
    <2>4. \A q \in p + 1 .. End : End - q \notin Off
      BY <2>2, <2>3
    <2>5. \A q \in p + 1 .. End : f[q] = g[q]
      <3>1. SUFFICES ASSUME NEW q \in p + 1 .. End PROVE f[q] = g[q]
        OBVIOUS
      <3>2. ~(f[End - (End - q)] # g[End - (End - q)])
        BY <2>3, <2>4
      <3> QED
        BY <2>3, <3>2
    <2> HIDE DEF p, Off
    <2>6. ReadAt(f, p) = ReadAt(g, p)
      BY <2>3, <2>5, ReadsAhead
    <2> QED
      BY <1>2, <2>3, <2>6
  <1>4. \A q \in 1 .. End : f[q] = g[q]
    <2>1. SUFFICES ASSUME NEW q \in 1 .. End PROVE f[q] = g[q]
      OBVIOUS
    <2>2. End - q \in 0 .. End - 1 /\ End - (End - q) = q
      BY <1>1
    <2>3. ~(f[End - (End - q)] # g[End - (End - q)])
      BY <1>3, <2>2
    <2> QED
      BY <2>2, <2>3
  <1>5. f = [q \in 1 .. End |-> f[q]] /\ g = [q \in 1 .. End |-> g[q]]
    BY DEF Reading
  <1> QED
    BY <1>4, <1>5

LEMMA ReadsAttr ==
  ASSUME tag \in Seq(Char), NEW p \in 1 .. End, NEW a, StrictAt(p) = {a}
  PROVE  /\ StrictFrom[p].all = {a} \cup StrictFrom[a.value.to + 1].all
         /\ StrictFrom[p].to = StrictFrom[a.value.to + 1].to
  <1>1. (CHOOSE b \in StrictAt(p) : TRUE) = a
    OBVIOUS
  <1>2. ReadAt(StrictFrom, p)
          = [all |-> {a} \cup StrictFrom[a.value.to + 1].all, to |-> StrictFrom[a.value.to + 1].to]
    BY <1>1 DEF ReadAt
  <1> QED
    BY <1>2, StrictFromIs

LEMMA ReadsBare ==
  ASSUME tag \in Seq(Char), NEW p \in 1 .. End, NEW to, StrictAt(p) = {}, BareEnd(p) = {to}
  PROVE  StrictFrom[p] = StrictFrom[to]
  <1>1. (CHOOSE b \in BareEnd(p) : TRUE) = to /\ BareEnd(p) # {}
    OBVIOUS
  <1>2. ReadAt(StrictFrom, p) = StrictFrom[to]
    BY <1>1 DEF ReadAt
  <1> QED
    BY <1>2, StrictFromIs

LEMMA ReadsNothing ==
  ASSUME tag \in Seq(Char), NEW p \in 1 .. End, StrictAt(p) = {}, BareEnd(p) = {}
  PROVE  StrictFrom[p] = [all |-> {}, to |-> p]
  <1>1. ReadAt(StrictFrom, p) = [all |-> {}, to |-> p]
    BY DEF ReadAt
  <1> QED
    BY <1>1, StrictFromIs

(* The tag does not change, and so does nothing that is read in it.         *)
LEMMA TagStays ==
  ASSUME tag \in Seq(Char), UNCHANGED tag
  PROVE  /\ End' = End
         /\ \A p : StrictAt(p)' = StrictAt(p) /\ BareEnd(p)' = BareEnd(p)
         /\ \A p, S : After(p, S)' = After(p, S)
         /\ Strict' = Strict /\ StrictFrom' = StrictFrom
  <1>1. End' = End
    BY DEF End
  <1>2. \A p, S : After(p, S)' = After(p, S)
    BY <1>1 DEF After
  <1>3. \A k, S : Is(k, S)' <=> Is(k, S)
    BY <1>1 DEF Is
  <1>4. \A p : StrictAt(p)' = StrictAt(p)
    BY SMTT(30) DEF StrictAt, After, Is, First, At, End
  <1>5. \A p : BareEnd(p)' = BareEnd(p)
    BY SMTT(30) DEF BareEnd, After, Is, First, At, End
  <1>6. Begin' = Begin
    BY <1>2, <1>3 DEF Begin
  <1>7. StrictFrom' = StrictFrom
    <2>1. (tag \in Seq(Char) => Reading(StrictFrom))'
      BY StrictReads, PTL
    <2>2. Reading(StrictFrom)'
      BY <2>1
    <2>3. PICK g : g = StrictFrom'
      OBVIOUS
    <2>4. StrictFrom' = [q \in 1 .. End' |-> ReadAt(StrictFrom, q)']
      BY <2>2 DEF Reading
    <2>5. \A q : ReadAt(StrictFrom, q)' = ReadAt(g, q)
      BY <1>4, <1>5, <2>3 DEF ReadAt
    <2>6. \A q \in 1 .. End : g[q] = ReadAt(g, q)
      BY <1>1, <2>3, <2>4, <2>5
    <2>7. g = [q \in 1 .. End |-> g[q]]
      BY <1>1, <2>3, <2>4
    <2>8. Reading(g)
      BY <2>6, <2>7 DEF Reading
    <2> QED
      BY <2>3, <2>8, StrictReads, OneReading
  <1> QED
    BY <1>1, <1>2, <1>4, <1>5, <1>6, <1>7 DEF Strict
-----------------------------------------------------------------------------
(* The scanner and XML: how far XML has read where the scanner is.          *)

(* Nothing that is kept or reported stands at w or after it.                *)
NoneFrom(w) == (\A a \in KeptAttrs : a.name.from < w) /\ (\A s \in DoubledAt : s.from < w)

(* The scanner is in what XML reads at w,                                   *)
Along(w) ==
  /\ NoneFrom(w)
  /\ stage \in {"scan", "check"} => i \in w .. StartOf(w)
  /\ stage \in {"equals", "value"} =>
       /\ Named(w) /\ name = At(StartOf(w), NameEnd(w))
       /\ Is(NameEnd(w), Stop \cup {"=", " "}) \/ NameEnd(w) = End
  /\ stage = "equals" => i = name.to
  /\ stage = "value"  => Is(EqOf(w), {"="}) /\ i = QuoteOf(w)
  /\ stage # "done"

(* or XML reads nothing at w, and the tag ends there or the scanner goes on *)
(* with what is no XML.                                                     *)
Over(w) ==
  /\ StrictAt(w) = {} /\ BareEnd(w) = {}
  /\ Is(StartOf(w), Stop) => stage = "done" /\ NoneFrom(w)
  /\ w <= i /\ (stage \in {"equals", "value"} => w <= name.from)

(* Up to w, what is kept and reported is what is to be.                     *)
Matches(all, w) ==
  /\ all \subseteq Attr /\ \A a \in all : a.name.from < w
  /\ {a \in KeptAttrs : a.name.from < w} = Firsts(all)
  /\ {s \in DoubledAt : s.from < w} = Repeats(all)

ReadTo(w, all) ==
  /\ Strict.all = all \cup StrictFrom[w].all
  /\ Strict.to = StrictFrom[w].to
  /\ Matches(all, w)
  /\ Along(w) \/ Over(w)

(* What is reported stands behind the cursor.                               *)
DoubledInOrder ==
  /\ \A m, n \in Doubled : m < n => diags[m].at.to < diags[n].at.from
  /\ \A n \in Doubled : diags[n].at.to < i
  /\ stage \in {"equals", "value"} => \A n \in Doubled : diags[n].at.to < name.from

(* The inductive invariant: XML has read the tag up to w, and what it read  *)
(* before w is what the scanner has kept and reported there.                *)
WInv ==
  /\ stage = "name" => KeptAttrs = {} /\ diags = <<>>
  /\ stage # "name" => \E w \in 1 .. End : \E all : ReadTo(w, all)
  /\ DoubledInOrder

(* The invariant says what is read, at the end.                             *)
LEMMA KeptAtEnd == IInv /\ WInv => WellFormedIsKept
  <1> SUFFICES ASSUME IInv, WInv, stage = "done" PROVE WellFormedIsKept
    BY DEF WellFormedIsKept
  <1>1. PICK w \in 1 .. End : \E all : ReadTo(w, all)
    BY DEF WInv
  <1>2. PICK all : ReadTo(w, all)
    BY <1>1
  <1>3. Over(w)
    BY <1>2 DEF ReadTo, Along
  <1>4. StrictFrom[w] = [all |-> {}, to |-> w]
    BY <1>3, ReadsNothing DEF IInv, TypeOK, Over
  <1>5. Strict.all = all /\ Strict.to = w
    BY <1>2, <1>4 DEF ReadTo
  <1>6. Is(After(w, {" "}), Stop) => NoneFrom(w)
    BY <1>3, Zenon DEF Over, StartOf, Blank
  <1>7. ASSUME NoneFrom(w)
        PROVE  /\ {a \in KeptAttrs : a.name.from < w} = KeptAttrs
               /\ {s \in DoubledAt : s.from < w} = DoubledAt
    BY <1>7 DEF NoneFrom
  <1> QED
    BY <1>2, <1>5, <1>6, <1>7 DEF WellFormedIsKept, ReadTo, Matches, WInv, DoubledInOrder

(* What is said of a position of the tag is so after any step.              *)
LEMMA PlacesStay ==
  ASSUME tag \in Seq(Char), UNCHANGED tag
  PROVE  /\ \A p : StartOf(p)' = StartOf(p) /\ NameEnd(p)' = NameEnd(p)
                   /\ EqOf(p)' = EqOf(p) /\ QuoteOf(p)' = QuoteOf(p) /\ (Named(p)' <=> Named(p))
         /\ \A k, S : Is(k, S)' <=> Is(k, S)
         /\ \A all : Firsts(all)' = Firsts(all) /\ Repeats(all)' = Repeats(all)
         /\ \A s : TextOf(s)' = TextOf(s)
  <1>1. \A p, S : After(p, S)' = After(p, S)
    BY TagStays
  <1>2. \A k, S : Is(k, S)' <=> Is(k, S)
    BY TagStays DEF Is
  <1>3. \A p : StartOf(p)' = StartOf(p)
    BY <1>1 DEF StartOf
  <1>4. \A p : NameEnd(p)' = NameEnd(p)
    BY <1>1, <1>3 DEF NameEnd
  <1>5. \A p : EqOf(p)' = EqOf(p)
    BY <1>1, <1>4 DEF EqOf
  <1>6. \A p : QuoteOf(p)' = QuoteOf(p)
    BY <1>1, <1>5 DEF QuoteOf
  <1>7. \A p : Named(p)' <=> Named(p)
    BY <1>2, <1>3 DEF Named
  <1>8. \A s : TextOf(s)' = TextOf(s)
    BY DEF TextOf
  <1>9. \A all, a : Repeated(all, a)' <=> Repeated(all, a)
    BY <1>8 DEF Repeated
  <1>10. \A all : Firsts(all)' = Firsts(all) /\ Repeats(all)' = Repeats(all)
    BY <1>9 DEF Firsts, Repeats
  <1> QED
    BY <1>2, <1>3, <1>4, <1>5, <1>6, <1>7, <1>8, <1>10

(* What is kept and reported before w is so after the step: what is read up *)
(* to w is, too.                                                            *)
LEMMA ReadStays ==
  ASSUME tag \in Seq(Char), UNCHANGED tag, NEW w \in 1 .. End, NEW all, ReadTo(w, all),
         {a \in KeptAttrs' : a.name.from < w} = {a \in KeptAttrs : a.name.from < w},
         {s \in DoubledAt' : s.from < w} = {s \in DoubledAt : s.from < w},
         stage' # "name", DoubledInOrder', (Along(w) \/ Over(w))'
  PROVE  WInv'
  <1>1. Matches(all, w)'
    BY PlacesStay DEF ReadTo, Matches
  <1>2. Strict' = Strict /\ StrictFrom' = StrictFrom /\ End' = End
    BY TagStays
  <1>3. ReadTo(w, all)'
    BY <1>1, <1>2 DEF ReadTo
  <1> QED
    BY <1>2, <1>3 DEF WInv

(* Where XML has nothing to read, the scanner goes on without it.           *)
LEMMA GoesOver ==
  ASSUME tag \in Seq(Char), UNCHANGED tag, NEW w, StrictAt(w) = {}, BareEnd(w) = {},
         ~Is(StartOf(w), Stop), w <= i', stage' \in {"equals", "value"} => w <= name'.from
  PROVE  Over(w)'
  <1>1. StrictAt(w)' = {} /\ BareEnd(w)' = {}
    BY TagStays
  <1>2. ~Is(StartOf(w), Stop)'
    BY PlacesStay, TagStays DEF Is
  <1> QED
    BY <1>1, <1>2 DEF Over

(* A step that reports no duplicate.                                        *)
LEMMA NothingDoubled ==
  ASSUME IInv, UNCHANGED diags \/ \E d \in Diag : /\ d.code # "DuplicateAttribute"
                                                 /\ diags' = Append(diags, d)
  PROVE  /\ Doubled' = Doubled /\ DoubledAt' = DoubledAt
         /\ \A n \in Doubled : diags'[n] = diags[n]
  <1>1. CASE UNCHANGED diags
    BY <1>1 DEF Doubled, DoubledAt
  <1>2. CASE \E d \in Diag : d.code # "DuplicateAttribute" /\ diags' = Append(diags, d)
    <2>1. PICK d \in Diag : d.code # "DuplicateAttribute" /\ diags' = Append(diags, d)
      BY <1>2
    <2>2. /\ Len(diags) \in Nat /\ Len(diags') = Len(diags) + 1 /\ diags'[Len(diags) + 1] = d
          /\ \A n \in 1 .. Len(diags) : diags'[n] = diags[n]
      BY <2>1, AppendProperties DEF IInv, TypeOK
    <2>3. \A n : n \in 1 .. Len(diags') <=> n \in 1 .. Len(diags) \/ n = Len(diags) + 1
      BY <2>2
    <2>4. \A n : n \in Doubled' <=> n \in Doubled
      BY <2>1, <2>2, <2>3 DEF Doubled
    <2>5. \A n \in Doubled : diags'[n] = diags[n]
      BY <2>2 DEF Doubled
    <2> QED
      BY <2>4, <2>5 DEF DoubledAt
  <1> QED
    BY <1>1, <1>2

LEMMA DoubledFacts ==
  ASSUME IInv, NEW n \in Doubled
  PROVE  n \in Nat /\ diags[n].at.from \in Nat /\ diags[n].at.to \in Nat
  <1>1. n \in 1 .. Len(diags) /\ Len(diags) \in Nat
    BY DEF Doubled, IInv, TypeOK
  <1> QED
    BY <1>1, DiagFacts

LEMMA OrderStays ==
  ASSUME IInv, DoubledInOrder, i' \in Nat, i <= i', Doubled' = Doubled,
         \A n \in Doubled : diags'[n] = diags[n],
         stage' \in {"equals", "value"} =>
           \/ name'.from \in Nat /\ i <= name'.from
           \/ name' = name /\ stage \in {"equals", "value"}
  PROVE  DoubledInOrder'
  <1>1. i \in Nat
    BY DEF IInv, TypeOK, Pos
  <1>2. \A n \in Doubled : diags[n].at.to \in Nat /\ diags[n].at.to < i
    BY DoubledFacts DEF DoubledInOrder
  <1>3. \A n \in Doubled : diags[n].at.to < i'
    BY <1>1, <1>2
  <1>4. ASSUME stage' \in {"equals", "value"}, NEW n \in Doubled
        PROVE  diags[n].at.to < name'.from
    <2>1. CASE name'.from \in Nat /\ i <= name'.from
      BY <1>1, <1>2, <2>1
    <2>2. CASE name' = name /\ stage \in {"equals", "value"}
      BY <2>2 DEF DoubledInOrder
    <2> QED
      BY <1>4, <2>1, <2>2
  <1> QED
    BY <1>3, <1>4 DEF DoubledInOrder
-----------------------------------------------------------------------------
LEMMA SkipsToStart ==
  ASSUME tag \in Seq(Char), NEW w \in 1 .. End, NEW k \in w .. StartOf(w)
  PROVE  Skip(k) = StartOf(w)
  <1> DEFINE s == StartOf(w)
  <1>1. /\ s \in w .. End /\ (s < End => tag[s] \notin Blank) /\ \A l \in w .. s - 1 : tag[l] \in Blank
        /\ End \in Nat
    BY AfterIs, EndIs DEF StartOf
  <1> HIDE DEF s
  <1>2. k \in 1 .. End /\ s \in k .. End /\ \A l \in k .. s - 1 : l \in w .. s - 1
    BY <1>1 DEF s
  <1>3. After(k, Blank) = s
    BY <1>1, <1>2, AfterIsThis
  <1>4. After(k, {" "}) = s
    BY <1>3 DEF Blank
  <1> QED
    BY <1>2, <1>4, SkipIsAfter DEF s

(* Without a name XML reads nothing, nor with one that a name cannot be.    *)
LEMMA NoName ==
  ASSUME NEW w, ~Named(w)
  PROVE  StrictAt(w) = {} /\ BareEnd(w) = {}
  BY StrictAtIs, BareEndIs

LEMMA InTheTag ==
  ASSUME tag \in Seq(Char), NEW k \in 1 .. End
  PROVE  /\ k \in Nat /\ End \in Nat /\ k <= End
         /\ (k < End => k + 1 \in 1 .. End) /\ (k = End \/ k < End)
         /\ k \in k .. End /\ \A l \in k .. k - 1 : FALSE
  BY EndIs

LEMMA BadName ==
  ASSUME tag \in Seq(Char), NEW w \in 1 .. End, NameEnd(w) # End,
         ~Is(NameEnd(w), Stop \cup {"=", " "})
  PROVE  StrictAt(w) = {} /\ BareEnd(w) = {}
  <1> DEFINE e == NameEnd(w)
  <1>1. /\ e \in 1 .. End /\ e < End
        /\ e \in e .. End /\ \A l \in e .. e - 1 : FALSE
    <2>1. e \in 1 .. End /\ e # End
      BY PartsOf
    <2> QED
      BY <2>1, InTheTag, Zenon
  <1>2. tag[e] \notin Stop \cup {"=", " "}
    BY <1>1 DEF Is
  <1>3. tag[e] \notin Blank /\ tag[e] \notin {"="} /\ tag[e] \notin Blank \cup Stop
    BY <1>2 DEF Blank
  <1> HIDE DEF e
  <1>5. After(e, Blank) = e
    BY <1>1, <1>3, AfterIsThis
  <1>6. EqOf(w) = e
    BY <1>5 DEF EqOf, e
  <1>7. ~Is(EqOf(w), {"="})
    BY <1>3, <1>6 DEF Is
  <1>8. ~Is(NameEnd(w), Blank \cup Stop)
    BY <1>3 DEF Is, e
  <1> QED
    BY <1>7, <1>8, StrictAtIs, BareEndIs

(* No byte of a name ends a jump over it.                                   *)
LEMMA NameBytes ==
  /\ \A c \in NameChar : c \notin Stop /\ c \notin Stop \cup {" "} /\ c \notin Stop \cup {"=", " "}
                         /\ c \notin Blank
  /\ Stop \subseteq Char /\ NameChar \subseteq Char \ Stop
  /\ \A c \in Char : c \notin Char \ Stop => c \in Stop
  BY DEF NameChar, Stop, Blank, Char

LEMMA InitReads == Init => WInv
  <1> SUFFICES ASSUME Init PROVE WInv
    OBVIOUS
  <1>1. attrs = <<>> /\ diags = <<>> /\ stage = "name"
    BY DEF Init
  <1>2. 1 .. Len(attrs) = {} /\ 1 .. Len(diags) = {}
    BY <1>1
  <1>3. KeptAttrs = {} /\ Doubled = {}
    BY <1>2 DEF KeptAttrs, Doubled
  <1> QED
    BY <1>1, <1>3 DEF WInv, DoubledInOrder

LEMMA SkipTagNameReads == IInv /\ IInv' /\ WInv /\ SkipTagName => WInv'
  <1> SUFFICES ASSUME IInv, IInv', WInv, SkipTagName PROVE WInv'
    OBVIOUS
  <1> DEFINE b == IF Is(1, {"<"}) THEN 2 ELSE 1
             T == Stop \cup {" "}
  <1>0. PICK w : w = Begin
    OBVIOUS
  <1>1. tag \in Seq(Char) /\ UNCHANGED <<tag, attrs, diags>> /\ stage = "name" /\ stage' = "scan"
        /\ i' = Until(b, T)
    BY DEF SkipTagName, IInv, TypeOK
  <1>2. b \in 1 .. End /\ End \in Nat
    <2>1. End \in Nat /\ 1 <= End
      BY <1>1, EndIs
    <2>2. Is(1, {"<"}) => 1 < End
      BY DEF Is
    <2> QED
      BY <2>1, <2>2
  <1>3. w = After(b, NameChar)
    BY <1>0 DEF Begin
  <1> HIDE DEF b, T
  <1>4. /\ w \in b .. End /\ (w < End => tag[w] \notin NameChar)
        /\ \A l \in b .. w - 1 : tag[l] \in NameChar
    BY <1>1, <1>2, <1>3, AfterIs
  <1>5. w \in 1 .. End
    BY <1>2, <1>4
  <1>6. /\ i' \in b .. End /\ (i' < End => tag[i'] \in T)
    BY <1>1, <1>2, UntilStops
  <1>7. w <= i'
    <2>1. SUFFICES ASSUME i' < w PROVE FALSE
      BY <1>2, <1>5, <1>6
    <2>2. i' \in b .. w - 1 /\ i' < End
      BY <1>2, <1>4, <1>6, <2>1
    <2>3. tag[i'] \in NameChar /\ tag[i'] \in T
      BY <1>4, <1>6, <2>2
    <2> QED
      BY <2>3, NameBytes DEF T
  <1>8. KeptAttrs = {} /\ KeptAttrs' = {} /\ Doubled' = {} /\ DoubledAt = {} /\ DoubledAt' = {}
    <2>1. KeptAttrs = {} /\ diags = <<>>
      BY <1>1 DEF WInv
    <2>2. KeptAttrs' = {}
      BY <1>1, <2>1 DEF KeptAttrs
    <2>3. 1 .. Len(diags) = {}
      BY <2>1
    <2> QED
      BY <1>1, <2>1, <2>2, <2>3 DEF Doubled, DoubledAt
  <1>9. DoubledInOrder'
    BY <1>8 DEF DoubledInOrder
  <1>10. Matches({}, w)
    BY <1>8 DEF Matches, Firsts, Repeats
  <1>11. Strict.all = {} \cup StrictFrom[w].all /\ Strict.to = StrictFrom[w].to
    BY <1>0 DEF Strict
  <1>12. (Along(w) \/ Over(w))'
    <2>1. CASE w = End \/ tag[w] \in T
      <3>1. \A l \in b .. w - 1 : tag[l] \notin T
        BY <1>4, NameBytes DEF T
      <3>2. w < End => tag[w] \in T
        BY <1>2, <1>5, <2>1
      <3>3. Until(b, T) = w
        BY <1>1, <1>2, <1>4, <3>1, <3>2, UntilIsThis
      <3>4. i' = w
        BY <1>1, <3>3
      <3>5. StartOf(w)' = StartOf(w) /\ StartOf(w) \in w .. End
        BY <1>1, <1>5, PlacesStay, PartsOf
      <3>6. i' \in w .. StartOf(w)'
        BY <1>2, <1>5, <3>4, <3>5
      <3>7. NoneFrom(w)'
        BY <1>8 DEF NoneFrom
      <3> QED
        BY <1>1, <3>6, <3>7 DEF Along
    <2>2. CASE w # End /\ tag[w] \notin T
      <3>1. w < End /\ w \in w .. End /\ \A l \in w .. w - 1 : FALSE
        BY <1>2, <1>5, <2>2
      <3>2. tag[w] \notin Blank /\ tag[w] \notin Stop
        BY <2>2 DEF Blank, T
      <3>3. After(w, Blank) = w
        BY <1>1, <1>5, <3>1, <3>2, AfterIsThis
      <3>4. StartOf(w) = w
        BY <3>3 DEF StartOf
      <3>5. ~Named(w)
        BY <1>2, <1>5, <3>4 DEF Named
      <3>6. ~Is(StartOf(w), Stop)
        BY <3>2, <3>4 DEF Is
      <3> QED
        BY <1>1, <1>7, <3>5, <3>6, NoName, GoesOver
    <2> QED
      BY <2>1, <2>2
  <1> QED
    <2>1. \A p : Firsts({})' = Firsts({}) /\ Repeats({})' = Repeats({})
      BY <1>1, PlacesStay
    <2>2. Matches({}, w)'
      BY <1>8, <1>10, <2>1 DEF Matches
    <2>3. Strict' = Strict /\ StrictFrom' = StrictFrom /\ End' = End
      BY <1>1, TagStays
    <2>4. ReadTo(w, {})'
      BY <1>11, <1>12, <2>2, <2>3 DEF ReadTo
    <2>5. w \in 1 .. End'
      BY <1>5, <2>3
    <2> QED
      BY <1>1, <1>9, <2>4, <2>5 DEF WInv

(* A step of the scanner on a tag that XML has nothing more to read in.     *)
LEMMA StaysOver ==
  ASSUME IInv, UNCHANGED tag, NEW w \in 1 .. End, Over(w), stage # "done",
         i' \in Nat, i <= i',
         stage' \in {"equals", "value"} =>
           \/ name'.from \in Nat /\ i <= name'.from
           \/ name' = name /\ stage \in {"equals", "value"}
  PROVE  Over(w)'
  <1>1. i \in Nat /\ w \in Nat /\ w <= i
    BY DEF IInv, TypeOK, Pos, Over, End
  <1>2. w <= i'
    BY <1>1
  <1>3. ~Is(StartOf(w), Stop) /\ StrictAt(w) = {} /\ BareEnd(w) = {}
    BY DEF Over
  <1>4. ASSUME stage' \in {"equals", "value"} PROVE w <= name'.from
    <2>1. CASE name'.from \in Nat /\ i <= name'.from
      BY <1>1, <2>1
    <2>2. CASE name' = name /\ stage \in {"equals", "value"}
      BY <2>2 DEF Over
    <2> QED
      BY <1>4, <2>1, <2>2
  <1> QED
    BY <1>2, <1>3, <1>4, GoesOver DEF IInv, TypeOK

(* A step of the attribute loop that neither keeps nor reports.             *)
LEMMA LoopReads ==
  ASSUME IInv, IInv', WInv, UNCHANGED <<tag, attrs, diags>>, stage \notin {"name", "done"},
         stage' # "name", i <= i',
         stage' \in {"equals", "value"} =>
           \/ i <= name'.from
           \/ name' = name /\ stage \in {"equals", "value"},
         \A w \in 1 .. End : Along(w) =>
           \/ (Along(w) \/ Over(w))'
           \/ StrictAt(w) = {} /\ \E e \in BareEnd(w) : Along(e)'
  PROVE  WInv'
  <1>1. /\ tag \in Seq(Char) /\ i \in Nat /\ i' \in Nat /\ name'.from \in Nat
        /\ KeptAttrs' = KeptAttrs /\ Doubled' = Doubled /\ DoubledAt' = DoubledAt
        /\ \A n \in Doubled : diags'[n] = diags[n]
    <2>1. name' \in Span
      BY DEF IInv, TypeOK
    <2> QED
      BY <2>1, NothingDoubled DEF IInv, TypeOK, Pos, Span, KeptAttrs
  <1>2. DoubledInOrder'
    BY <1>1, OrderStays DEF WInv
  <1>3. PICK w \in 1 .. End : \E all : ReadTo(w, all)
    BY DEF WInv
  <1>4. PICK all : ReadTo(w, all)
    BY <1>3
  <1>5. CASE (Along(w) \/ Over(w))'
    BY <1>1, <1>2, <1>4, <1>5, ReadStays
  <1>6. CASE Over(w)
    <2>1. Over(w)'
      BY <1>1, <1>6, StaysOver
    <2> QED
      BY <1>5, <2>1
  <1>7. CASE Along(w) /\ StrictAt(w) = {} /\ \E e \in BareEnd(w) : Along(e)'
    <2>1. PICK e \in BareEnd(w) : Along(e)'
      BY <1>7
    <2>2. BareEnd(w) = {e} /\ e \in w + 1 .. End
      BY <1>1, <2>1, BareEndIs, Onward
    <2>3. e \in 1 .. End /\ w \in Nat /\ e \in Nat /\ w < e
      BY <1>1, <2>2, EndIs
    <2>4. StrictFrom[w] = StrictFrom[e]
      BY <1>1, <1>7, <2>2, ReadsBare
    <2>5. /\ \A a \in KeptAttrs : a.name.from < w
          /\ \A s \in DoubledAt : s.from < w
          /\ all \subseteq Attr /\ \A a \in all : a.name.from < w
      BY <1>4, <1>7 DEF Along, NoneFrom, ReadTo, Matches
    <2>6. (\A a \in KeptAttrs : a.name.from \in Nat) /\ (\A s \in DoubledAt : s.from \in Nat)
      <3>1. \A n \in Doubled : diags[n].at.from \in Nat
        BY DoubledFacts
      <3> QED
        BY <3>1, AttrFacts DEF KeptAttrs, DoubledAt
    <2>7. \A a \in Attr : a.name.from \in Nat
      BY DEF Attr, Span, Pos
    <2>8. /\ \A a \in KeptAttrs : a.name.from < e
          /\ \A s \in DoubledAt : s.from < e
          /\ \A a \in all : a.name.from < e
      <3>1. \A x \in Nat : x < w => x < e
        BY <2>3
      <3> QED
        BY <2>5, <2>6, <2>7, <3>1
    <2>9. /\ {a \in KeptAttrs : a.name.from < e} = {a \in KeptAttrs : a.name.from < w}
          /\ {s \in DoubledAt : s.from < e} = {s \in DoubledAt : s.from < w}
      BY <2>5, <2>8
    <2>10. Matches(all, e)
      BY <1>4, <2>5, <2>8, <2>9 DEF ReadTo, Matches
    <2>11. Matches(all, e)'
      BY <1>1, <2>10, PlacesStay DEF Matches
    <2>12. Strict' = Strict /\ StrictFrom' = StrictFrom /\ End' = End
      BY <1>1, TagStays
    <2>13. ReadTo(e, all)'
      BY <1>4, <2>1, <2>4, <2>11, <2>12 DEF ReadTo
    <2> QED
      BY <1>2, <2>3, <2>12, <2>13 DEF WInv
  <1> QED
    BY <1>4, <1>5, <1>6, <1>7 DEF ReadTo

LEMMA TagEndsReads == IInv /\ IInv' /\ WInv /\ TagEnds => WInv'
  <1> SUFFICES ASSUME IInv, IInv', WInv, TagEnds PROVE WInv'
    OBVIOUS
  <1>1. /\ tag \in Seq(Char) /\ stage = "scan" /\ stage' = "done" /\ UNCHANGED <<tag, i, attrs, diags>>
        /\ ~Is(Skip(i), Char \ Stop) /\ i \in Nat
    BY DEF TagEnds, IInv, TypeOK, Pos
  <1>2. ASSUME NEW w \in 1 .. End, Along(w) PROVE Over(w)'
    <2>1. i \in w .. StartOf(w) /\ NoneFrom(w)
      BY <1>1, <1>2 DEF Along
    <2>2. ~Is(StartOf(w), Char \ Stop)
      BY <1>1, <2>1, SkipsToStart
    <2>3. ~Named(w)
      BY <2>2, NameBytes DEF Named, Is
    <2>4. StrictAt(w)' = {} /\ BareEnd(w)' = {}
      BY <1>1, <2>3, NoName, TagStays
    <2>5. NoneFrom(w)'
      BY <1>1, <2>1 DEF NoneFrom, KeptAttrs, DoubledAt, Doubled
    <2>6. w <= i'
      BY <1>1, <2>1
    <2> QED
      BY <1>1, <2>4, <2>5, <2>6 DEF Over
  <1> QED
    BY <1>1, <1>2, LoopReads

LEMMA NameReadReads == IInv /\ IInv' /\ WInv /\ NameRead => WInv'
  <1> SUFFICES ASSUME IInv, IInv', WInv, NameRead PROVE WInv'
    OBVIOUS
  <1> DEFINE T == Stop \cup {"=", " "}
  <1>1. /\ tag \in Seq(Char) /\ stage = "scan" /\ stage' = "equals" /\ UNCHANGED <<tag, attrs, diags>>
        /\ Is(Skip(i), Char \ Stop) /\ i \in Pos /\ i <= End
        /\ name' = At(Skip(i), Until(Skip(i), T)) /\ i' = name'.to
    BY DEF NameRead, IInv, TypeOK, SpansApart
  <1> HIDE DEF T
  <1>2. /\ i \in Nat /\ Skip(i) \in Nat /\ i <= Skip(i) /\ Skip(i) \in 1 .. End
        /\ Until(Skip(i), T) \in Nat /\ Skip(i) <= Until(Skip(i), T)
        /\ name'.from = Skip(i) /\ name'.to = Until(Skip(i), T)
    <2>1. Skip(i) \in Pos /\ i <= Skip(i) /\ Skip(i) <= End
      BY <1>1, Jumps
    <2>2. Until(Skip(i), T) \in Pos /\ Skip(i) <= Until(Skip(i), T)
      BY <2>1, Jumps
    <2>3. name'.from = Skip(i) /\ name'.to = Until(Skip(i), T)
      BY <1>1 DEF At
    <2>4. End \in Nat
      BY <1>1, EndIs
    <2> QED
      BY <1>1, <2>1, <2>2, <2>3, <2>4 DEF Pos
  <1>3. i <= i' /\ i <= name'.from
    BY <1>1, <1>2
  <1>4. ASSUME NEW w \in 1 .. End, Along(w) PROVE (Along(w) \/ Over(w))'
    <2> DEFINE s == StartOf(w)
               e == NameEnd(w)
    <2>1. i \in w .. s /\ NoneFrom(w)
      BY <1>1, <1>4 DEF Along
    <2>2. Skip(i) = s /\ s \in 1 .. End /\ e \in s .. End /\ e \in 1 .. End /\ w <= s
      BY <1>1, <2>1, SkipsToStart, PartsOf
    <2>3. e = After(s, NameChar)
      BY DEF NameEnd
    <2>4. ~Is(s, Stop)
      BY <1>1, <2>2 DEF Is
    <2>5. CASE Named(w) /\ e = name'.to
      <3>1. name' = At(s, e)
        BY <1>1, <1>2, <2>2, <2>5
      <3>2. Is(e, T) \/ e = End
        <4>1. Until(s, T) \in s .. End /\ (Until(s, T) < End => tag[Until(s, T)] \in T)
          BY <1>1, <2>2, UntilStops
        <4>2. e < End => tag[e] \in T
          BY <1>2, <2>2, <2>5, <4>1
        <4>3. e = End \/ e < End
          BY <1>1, <2>2, InTheTag, Zenon
        <4> QED
          BY <4>2, <4>3 DEF Is
      <3>3. NoneFrom(w)'
        BY <1>1, <2>1 DEF NoneFrom, KeptAttrs, DoubledAt, Doubled
      <3>4. /\ Named(w)' /\ name' = At(StartOf(w)', NameEnd(w)')
            /\ (Is(NameEnd(w), T) \/ NameEnd(w) = End)'
        BY <1>1, <2>5, <3>1, <3>2, PlacesStay, TagStays DEF Is
      <3>5. Along(w)'
        BY <1>1, <3>3, <3>4 DEF Along, T
      <3> QED
        BY <3>5
    <2>6. CASE ~(Named(w) /\ e = name'.to)
      <3>1. StrictAt(w) = {} /\ BareEnd(w) = {}
        <4>1. CASE ~Named(w)
          BY <4>1, NoName
        <4>2. CASE e # name'.to
          <5>1. e # End /\ ~Is(e, T)
            <6>1. SUFFICES ASSUME e = End \/ Is(e, T) PROVE FALSE
              OBVIOUS
            <6>2. e < End => tag[e] \in T
              BY <1>1, <2>2, <6>1, InTheTag DEF Is
            <6>3. \A l \in s .. e - 1 : tag[l] \in NameChar
              BY <1>1, <2>2, <2>3, AfterIs
            <6>4. \A l \in s .. e - 1 : tag[l] \notin T
              BY <6>3, NameBytes DEF T
            <6>5. Until(s, T) = e
              BY <1>1, <2>2, <6>2, <6>4, UntilIsThis
            <6> QED
              BY <1>2, <2>2, <4>2, <6>5
          <5> QED
            BY <1>1, <5>1, BadName DEF T
        <4> QED
          BY <2>6, <4>1, <4>2
      <3>2. w <= i' /\ w <= name'.from
        BY <1>2, <1>3, <2>1, <2>2, <1>1
      <3> QED
        BY <1>1, <2>4, <3>1, <3>2, GoesOver
    <2> QED
      BY <2>5, <2>6
  <1> QED
    BY <1>1, <1>3, <1>4, LoopReads

(* In the attribute at w: what is skipped, and where that leads.            *)
LEMMA InAttribute ==
  ASSUME IInv, NEW w \in 1 .. End, Along(w), stage \in {"equals", "value"}
  PROVE  /\ Named(w) /\ name = At(StartOf(w), NameEnd(w)) /\ name.to = NameEnd(w)
         /\ name.from = StartOf(w)
         /\ Is(NameEnd(w), Stop \cup {"=", " "}) \/ NameEnd(w) = End
         /\ ~Is(StartOf(w), Stop) /\ tag \in Seq(Char) /\ NoneFrom(w)
         /\ stage = "equals" => i = NameEnd(w) /\ Skip(i) = EqOf(w)
         /\ stage = "equals" /\ Is(EqOf(w), {"="}) => Skip(Skip(i) + 1) = QuoteOf(w)
         /\ stage = "value" => Is(EqOf(w), {"="}) /\ i = QuoteOf(w)
  <1>1. /\ Named(w) /\ name = At(StartOf(w), NameEnd(w)) /\ NoneFrom(w)
        /\ Is(NameEnd(w), Stop \cup {"=", " "}) \/ NameEnd(w) = End
        /\ tag \in Seq(Char)
    BY DEF Along, IInv, TypeOK
  <1>2. name.to = NameEnd(w) /\ name.from = StartOf(w)
    BY <1>1 DEF At
  <1>3. ~Is(StartOf(w), Stop)
    BY <1>1, NameBytes DEF Named, Is
  <1>4. ASSUME stage = "equals" PROVE i = NameEnd(w) /\ Skip(i) = EqOf(w)
    <2>1. i = NameEnd(w) /\ NameEnd(w) \in 1 .. End
      BY <1>1, <1>2, <1>4, PartsOf DEF Along
    <2>2. Skip(i) = After(NameEnd(w), {" "})
      BY <1>1, <2>1, SkipIsAfter
    <2> QED
      BY <2>1, <2>2 DEF EqOf, Blank
  <1>5. ASSUME stage = "equals", Is(EqOf(w), {"="}) PROVE Skip(Skip(i) + 1) = QuoteOf(w)
    <2>1. EqOf(w) \in 1 .. End /\ EqOf(w) < End
      BY <1>1, <1>5, PartsOf DEF Is
    <2>2. EqOf(w) + 1 \in 1 .. End
      BY <1>1, <2>1, InTheTag, Zenon
    <2>3. Skip(EqOf(w) + 1) = After(EqOf(w) + 1, {" "})
      BY <1>1, <2>2, SkipIsAfter
    <2> QED
      BY <1>4, <1>5, <2>3 DEF QuoteOf, Blank
  <1>6. stage = "value" => Is(EqOf(w), {"="}) /\ i = QuoteOf(w)
    BY DEF Along
  <1> QED
    BY <1>1, <1>2, <1>3, <1>4, <1>5, <1>6

(* From the end of its name on, the cursor is behind where XML reads.       *)
LEMMA StartIsBefore ==
  ASSUME IInv, NEW w \in 1 .. End, Along(w), stage \in {"equals", "value"}
  PROVE  w <= i /\ i \in Nat /\ w \in Nat /\ w <= name.from /\ name.from \in Nat
  <1>1. name.from <= name.to /\ name.to <= i /\ i \in Nat /\ name.from \in Nat /\ name.to \in Nat
    BY DEF IInv, TypeOK, NameBefore, Pos, Span
  <1>2. name.from = StartOf(w) /\ StartOf(w) \in w .. End /\ End \in Nat
    BY InAttribute, PartsOf DEF IInv, TypeOK
  <1> QED
    BY <1>1, <1>2

LEMMA BareAttributeReads == IInv /\ IInv' /\ WInv /\ BareAttribute => WInv'
  <1> SUFFICES ASSUME IInv, IInv', WInv, BareAttribute PROVE WInv'
    OBVIOUS
  <1>1. /\ tag \in Seq(Char) /\ stage = "equals" /\ stage' = "scan" /\ UNCHANGED <<tag, attrs, diags>>
        /\ ~Is(Skip(i), {"="}) /\ i' = Skip(i) /\ i \in Pos /\ i <= End
    BY DEF BareAttribute, IInv, TypeOK, SpansApart
  <1>2. i <= i'
    BY <1>1, Jumps
  <1>3. ASSUME NEW w \in 1 .. End, Along(w)
        PROVE  \/ (Along(w) \/ Over(w))'
               \/ StrictAt(w) = {} /\ \E e \in BareEnd(w) : Along(e)'
    <2>0. PICK e : e = NameEnd(w)
      OBVIOUS
    <2>1. /\ Named(w)
          /\ Is(e, Stop \cup {"=", " "}) \/ e = End
          /\ ~Is(StartOf(w), Stop) /\ NoneFrom(w)
          /\ i = e /\ Skip(i) = EqOf(w) /\ ~Is(EqOf(w), {"="})
      BY <1>1, <1>3, <2>0, InAttribute
    <2>2. StrictAt(w) = {}
      BY <2>1, StrictAtIs
    <2>3. e \in 1 .. End /\ w \in Nat /\ e \in Nat /\ w <= e /\ w <= i'
      <3>1. e \in 1 .. End
        BY <1>1, <2>0, PartsOf
      <3>2. w <= i /\ w \in Nat /\ i \in Nat /\ i' \in Nat
        BY <1>1, <1>3, StartIsBefore DEF IInv, TypeOK, Pos
      <3>3. w <= i'
        BY <1>2, <3>2
      <3> QED
        BY <2>1, <3>1, <3>2, <3>3
    <2>4. i' = StartOf(e) /\ i' \in e .. StartOf(e)
      <3>1. Skip(i) = After(e, {" "})
        BY <1>1, <2>1, <2>3, SkipIsAfter
      <3>2. i' = StartOf(e)
        BY <1>1, <3>1 DEF StartOf, Blank
      <3>3. StartOf(e) \in e .. End /\ StartOf(e) \in Nat /\ e \in Nat
        BY <1>1, <2>3, PartsOf, InTheTag
      <3> QED
        BY <3>2, <3>3
    <2>5. CASE Is(e, Blank \cup Stop)
      <3>1. BareEnd(w) = {e}
        <4>1. Is(NameEnd(w), Blank \cup Stop) /\ ~Is(EqOf(w), {"="}) /\ Named(w)
          BY <2>0, <2>1, <2>5
        <4> QED
          BY <2>0, <4>1, BareEndIs, Zenon
      <3>2. StartOf(e)' = StartOf(e)
        BY <1>1, PlacesStay
      <3>3. NoneFrom(e)'
        <4>1. (\A a \in KeptAttrs : a.name.from < w) /\ (\A s \in DoubledAt : s.from < w)
          BY <2>1 DEF NoneFrom
        <4>2. (\A a \in KeptAttrs : a.name.from \in Nat) /\ (\A s \in DoubledAt : s.from \in Nat)
          <5>1. \A n \in Doubled : diags[n].at.from \in Nat
            BY DoubledFacts
          <5> QED
            BY <5>1, AttrFacts DEF KeptAttrs, DoubledAt
        <4>3. \A x \in Nat : x < w => x < e
          BY <2>3
        <4>4. NoneFrom(e)
          BY <4>1, <4>2, <4>3 DEF NoneFrom
        <4> QED
          BY <1>1, <4>4 DEF NoneFrom, KeptAttrs, DoubledAt, Doubled
      <3>4. Along(e)'
        BY <1>1, <2>4, <3>2, <3>3 DEF Along
      <3> QED
        BY <2>2, <3>1, <3>4
    <2>6. CASE ~Is(e, Blank \cup Stop)
      <3>1. BareEnd(w) = {}
        BY <2>0, <2>6, BareEndIs
      <3> QED
        BY <1>1, <2>1, <2>2, <2>3, <3>1, GoesOver
    <2> QED
      BY <2>5, <2>6
  <1> QED
    BY <1>1, <1>2, <1>3, LoopReads

LEMMA UnquotedReads == IInv /\ IInv' /\ WInv /\ Unquoted => WInv'
  <1> SUFFICES ASSUME IInv, IInv', WInv, Unquoted PROVE WInv'
    OBVIOUS
  <1>1. /\ tag \in Seq(Char) /\ stage = "equals" /\ stage' = "done" /\ UNCHANGED <<tag, i, attrs, diags>>
        /\ Is(Skip(i), {"="}) /\ ~Is(Skip(Skip(i) + 1), Quote) /\ i <= i'
    BY DEF Unquoted, IInv, TypeOK, Pos
  <1>2. ASSUME NEW w \in 1 .. End, Along(w) PROVE Over(w)'
    <2>1. /\ ~Is(StartOf(w), Stop) /\ Is(EqOf(w), {"="}) /\ ~Is(QuoteOf(w), Quote) /\ w <= i
      BY <1>1, <1>2, InAttribute, StartIsBefore
    <2>2. StrictAt(w) = {} /\ BareEnd(w) = {}
      BY <2>1, StrictAtIs, BareEndIs
    <2> QED
      BY <1>1, <2>1, <2>2, GoesOver
  <1> QED
    BY <1>1, <1>2, LoopReads

LEMMA QuoteReadReads == IInv /\ IInv' /\ WInv /\ QuoteRead => WInv'
  <1> SUFFICES ASSUME IInv, IInv', WInv, QuoteRead PROVE WInv'
    OBVIOUS
  <1>1. /\ tag \in Seq(Char) /\ stage = "equals" /\ stage' = "value"
        /\ UNCHANGED <<tag, name, attrs, diags>>
        /\ Is(Skip(i), {"="}) /\ i' = Skip(Skip(i) + 1) /\ i \in Pos /\ i <= End
    BY DEF QuoteRead, IInv, TypeOK, SpansApart
  <1>2. i <= i'
    <2>1. Skip(i) \in Pos /\ i <= Skip(i) /\ Skip(i) < End /\ End \in Nat
      BY <1>1, Jumps, EndIs DEF Is
    <2>2. Skip(i) + 1 \in Pos /\ Skip(i) + 1 <= End /\ i \in Nat /\ Skip(i) \in Nat
      BY <1>1, <2>1 DEF Pos
    <2>3. Skip(i) + 1 <= i' /\ i' \in Pos
      BY <1>1, <2>2, Jumps
    <2> QED
      BY <2>1, <2>2, <2>3 DEF Pos
  <1>3. ASSUME NEW w \in 1 .. End, Along(w) PROVE Along(w)'
    <2>1. /\ Named(w) /\ name = At(StartOf(w), NameEnd(w)) /\ NoneFrom(w)
          /\ Is(NameEnd(w), Stop \cup {"=", " "}) \/ NameEnd(w) = End
          /\ Is(EqOf(w), {"="}) /\ i' = QuoteOf(w)
      BY <1>1, <1>3, InAttribute
    <2>2. NoneFrom(w)'
      BY <1>1, <2>1 DEF NoneFrom, KeptAttrs, DoubledAt, Doubled
    <2>3. /\ Named(w)' /\ (name = At(StartOf(w), NameEnd(w)))'
          /\ (Is(NameEnd(w), Stop \cup {"=", " "}) \/ NameEnd(w) = End)'
          /\ Is(EqOf(w), {"="})' /\ (i = QuoteOf(w))'
      BY <1>1, <2>1, PlacesStay, TagStays DEF Is
    <2> QED
      BY <1>1, <2>2, <2>3 DEF Along
  <1> QED
    BY <1>1, <1>2, <1>3, LoopReads

(* The quotes that close the value at w, and the first of them.             *)
LEMMA CloserIs ==
  ASSUME IInv, NEW w \in 1 .. End, Along(w), stage = "value"
  PROVE  /\ CloseAt = End => Closers(w) = {}
         /\ CloseAt < End => Closers(w) # {} /\ First(Closers(w)) = CloseAt
         /\ i = QuoteOf(w) /\ Is(i, Quote)
  <1> DEFINE c == CloseAt
             q == tag[i]
  <1>1. i = QuoteOf(w)
    BY InAttribute
  <1>2. i \in Nat /\ i + 1 \in 1 .. End /\ End \in Nat /\ tag[i] \in Quote /\ i < End
        /\ Len(tag) \in Nat /\ End = Len(tag) + 1 /\ tag \in Seq(Char)
    <2>1. i \in Nat /\ i < End /\ tag[i] \in Quote /\ tag \in Seq(Char)
      BY DEF IInv, TypeOK, NameBefore, Pos
    <2>2. Len(tag) \in Nat /\ End = Len(tag) + 1
      BY <2>1, EndIs
    <2> QED
      BY <2>1, <2>2
  <1>3. Closers(w) = {k \in i + 1 .. Len(tag) : tag[k] = q}
    BY <1>1 DEF Closers
  <1>4. /\ c \in i + 1 .. End /\ (c < End => tag[c] = q)
        /\ \A l \in i + 1 .. c - 1 : tag[l] # q
    <2>1. /\ c \in i + 1 .. End /\ (c < End => tag[c] \in {q})
          /\ \A l \in i + 1 .. c - 1 : tag[l] \notin {q}
      BY <1>2, UntilStops DEF CloseAt
    <2> QED
      BY <2>1
  <1> HIDE DEF c, q
  <1>5. ASSUME c = End PROVE Closers(w) = {}
    <2>1. i + 1 .. Len(tag) = i + 1 .. c - 1
      BY <1>2, <1>5
    <2> QED
      BY <1>3, <1>4, <2>1
  <1>6. ASSUME c < End PROVE Closers(w) # {} /\ First(Closers(w)) = c
    <2>1. c \in Closers(w)
      BY <1>2, <1>3, <1>4, <1>6
    <2>2. ASSUME NEW l \in Closers(w) PROVE c <= l
      <3>1. l \in i + 1 .. Len(tag) /\ tag[l] = q
        BY <1>3
      <3>2. l \notin i + 1 .. c - 1
        BY <1>4, <3>1
      <3> QED
        BY <1>2, <1>4, <3>1, <3>2
    <2>3. Closers(w) \subseteq Nat
      BY <1>2, <1>3
    <2> QED
      BY <2>1, <2>2, <2>3, FirstIsThis
  <1> QED
    BY <1>1, <1>2, <1>5, <1>6 DEF c, Is

LEMMA CutOffReads == IInv /\ IInv' /\ WInv /\ CutOff => WInv'
  <1> SUFFICES ASSUME IInv, IInv', WInv, CutOff PROVE WInv'
    OBVIOUS
  <1>1. /\ tag \in Seq(Char) /\ stage = "value" /\ stage' = "done" /\ UNCHANGED <<tag, i, attrs, diags>>
        /\ CloseAt = End /\ i <= i'
    BY DEF CutOff, IInv, TypeOK, Pos
  <1>2. ASSUME NEW w \in 1 .. End, Along(w) PROVE Over(w)'
    <2>1. ~Is(StartOf(w), Stop) /\ Is(EqOf(w), {"="}) /\ Closers(w) = {} /\ w <= i
      BY <1>1, <1>2, InAttribute, StartIsBefore, CloserIs
    <2>2. StrictAt(w) = {} /\ BareEnd(w) = {}
      BY <2>1, StrictAtIs, BareEndIs
    <2> QED
      BY <1>1, <2>1, <2>2, GoesOver
  <1> QED
    BY <1>1, <1>2, LoopReads
-----------------------------------------------------------------------------
(* One attribute more is a repetition if the scanner has seen its name.     *)
LEMMA OneMore ==
  ASSUME IInv, NEW w \in 1 .. End, NEW all, Matches(all, w), NoneFrom(w), NEW a,
         a.name = name, \A b \in all : b.name.from < name.from
  PROVE  /\ Seen => /\ Firsts({a} \cup all) = Firsts(all)
                    /\ Repeats({a} \cup all) = Repeats(all) \cup {name}
         /\ ~Seen => /\ Firsts({a} \cup all) = Firsts(all) \cup {a}
                     /\ Repeats({a} \cup all) = Repeats(all)
  <1>1. KeptAttrs = Firsts(all)
    BY DEF Matches, NoneFrom
  <1>2. \A b \in all : b.name.from \in Nat
    BY DEF Matches, Attr, Span, Pos
  <1>3. name.from \in Nat
    BY DEF IInv, TypeOK, Span, Pos
  <1>4. \A b \in all : ~(name.from < b.name.from) /\ ~(name.from < name.from) /\ b # a
    <2>1. ~(name.from < name.from)
      BY <1>3
    <2>2. ASSUME NEW b \in all PROVE ~(name.from < b.name.from) /\ b # a
      <3>1. b.name.from < name.from /\ b.name.from \in Nat
        BY <1>2
      <3> QED
        BY <1>3, <2>1, <3>1
    <2> QED
      BY <2>1, <2>2
  <1>5. \A b \in all : Repeated({a} \cup all, b) <=> Repeated(all, b)
    BY <1>4 DEF Repeated
  <1>6. Repeated({a} \cup all, a) <=> \E b \in all : TextOf(b.name) = TextOf(name)
    <2>1. ~(a.name.from < a.name.from)
      BY <1>3
    <2> QED
      BY <2>1 DEF Repeated
  <1>7. (\E b \in all : TextOf(b.name) = TextOf(name)) <=> Seen
    <2>1. ASSUME Seen PROVE \E b \in all : TextOf(b.name) = TextOf(name)
      <3>1. PICK k \in 1 .. Len(attrs) : TextOf(attrs[k].name) = TextOf(name)
        BY <2>1 DEF Seen
      <3>2. attrs[k] \in all
        BY <1>1 DEF KeptAttrs, Firsts
      <3> QED
        BY <3>1, <3>2
    <2>2. ASSUME NEW c \in all, TextOf(c.name) = TextOf(name) PROVE Seen
      <3> DEFINE Alike == {b \in all : TextOf(b.name) = TextOf(name)}
                 T == {b.name.from : b \in Alike}
      <3>1. T \subseteq Nat /\ T # {}
        BY <1>2, <2>2
      <3>2. PICK x \in T : \A y \in T : x <= y
        BY <3>1, Least
      <3>3. PICK b \in Alike : b.name.from = x
        BY <3>2
      <3>4. \A d \in Alike : x <= d.name.from /\ d.name.from \in Nat /\ x \in Nat
        BY <3>1, <3>2
      <3>5. \A d \in Alike : ~(d.name.from < x)
        BY <3>4
      <3>6. ~Repeated(all, b)
        BY <3>3, <3>5 DEF Repeated
      <3>7. b \in KeptAttrs /\ TextOf(b.name) = TextOf(name)
        BY <1>1, <3>6 DEF Firsts
      <3> QED
        BY <3>7 DEF KeptAttrs, Seen
    <2> QED
      BY <2>1, <2>2
  <1>8. ASSUME Seen
        PROVE  /\ Firsts({a} \cup all) = Firsts(all)
               /\ Repeats({a} \cup all) = Repeats(all) \cup {name}
    <2>1. \A b : b \in {a} \cup all /\ Repeated({a} \cup all, b)
                   <=> (b \in all /\ Repeated(all, b)) \/ b = a
      BY <1>4, <1>5, <1>6, <1>7, <1>8
    <2>2. \A b : b \in Firsts({a} \cup all) <=> b \in Firsts(all)
      BY <1>4, <2>1 DEF Firsts
    <2>3. \A s : s \in Repeats({a} \cup all) <=> s \in Repeats(all) \cup {name}
      BY <2>1 DEF Repeats
    <2> QED
      BY <2>2, <2>3
  <1>9. ASSUME ~Seen
        PROVE  /\ Firsts({a} \cup all) = Firsts(all) \cup {a}
               /\ Repeats({a} \cup all) = Repeats(all)
    <2>1. \A b : b \in {a} \cup all /\ Repeated({a} \cup all, b) <=> b \in all /\ Repeated(all, b)
      BY <1>4, <1>5, <1>6, <1>7, <1>9
    <2>2. \A b : b \in Firsts({a} \cup all) <=> b \in Firsts(all) \cup {a}
      BY <1>4, <2>1 DEF Firsts
    <2>3. \A s : s \in Repeats({a} \cup all) <=> s \in Repeats(all)
      BY <2>1 DEF Repeats
    <2> QED
      BY <2>2, <2>3
  <1> QED
    BY <1>8, <1>9

(* What XML reads at w is the value that is read there, if there is no < in *)
(* it; with one it is nothing.                                              *)
LEMMA ValueReads ==
  ASSUME IInv, HasValue, NEW w \in 1 .. End, Along(w)
  PROVE  \/ StrictAt(w) = {[name |-> name, value |-> At(i + 1, CloseAt)]}
         \/ StrictAt(w) = {} /\ BareEnd(w) = {} /\ ~Is(StartOf(w), Stop)
  <1>1. stage = "value" /\ CloseAt < End
    BY DEF HasValue
  <1>2. /\ Named(w) /\ name = At(StartOf(w), NameEnd(w)) /\ ~Is(StartOf(w), Stop)
        /\ Is(EqOf(w), {"="})
    BY <1>1, InAttribute
  <1>3. Closers(w) # {} /\ First(Closers(w)) = CloseAt /\ i = QuoteOf(w) /\ Is(i, Quote)
    BY <1>1, CloserIs
  <1>4. CASE Plain(w)
    <2>1. AttrOf(w) = [name |-> name, value |-> At(i + 1, CloseAt)]
      BY <1>2, <1>3, Zenon DEF AttrOf
    <2>2. StrictAt(w) = {AttrOf(w)}
      BY <1>2, <1>3, <1>4, StrictAtIs
    <2> QED
      BY <2>1, <2>2
  <1>5. CASE ~Plain(w)
    BY <1>2, <1>5, StrictAtIs, BareEndIs
  <1> QED
    BY <1>4, <1>5

(* The attribute that ends at the cursor is kept, or reported.              *)
LEMMA ValueStep ==
  ASSUME IInv, WInv, HasValue, UNCHANGED tag, stage' \in {"scan", "check"}, i' = CloseAt + 1,
         \/ /\ Seen /\ KeptAttrs' = KeptAttrs /\ DoubledAt' = DoubledAt \cup {name}
         \/ /\ ~Seen /\ DoubledAt' = DoubledAt
            /\ KeptAttrs' = KeptAttrs \cup {[name |-> name, value |-> At(i + 1, CloseAt)]},
         DoubledInOrder'
  PROVE  WInv'
  <1> DEFINE a == [name |-> name, value |-> At(i + 1, CloseAt)]
  <1>1. stage = "value" /\ tag \in Seq(Char) /\ i \in Nat /\ a \in Attr
        /\ CloseAt \in Nat /\ i + 1 <= CloseAt /\ CloseAt < End /\ End \in Nat
        /\ i' = CloseAt + 1
    <2>1. stage = "value" /\ tag \in Seq(Char) /\ i \in Nat /\ name \in Span
      BY DEF HasValue, IInv, TypeOK, Pos
    <2>2. CloseAt \in Nat /\ i + 1 <= CloseAt /\ CloseAt < End /\ End \in Nat
      BY CloseFacts
    <2>3. At(i + 1, CloseAt) \in Span
      BY <2>1, <2>2 DEF At, Span, Pos
    <2> QED
      BY <2>1, <2>2, <2>3 DEF Attr
  <1>2. a.name = name /\ a.value.to = CloseAt
    BY DEF At
  <1>3. PICK w \in 1 .. End : \E all : ReadTo(w, all)
    BY <1>1 DEF WInv
  <1>4. PICK all : ReadTo(w, all)
    BY <1>3
  <1> HIDE DEF a
  <1>5. \/ KeptAttrs' = KeptAttrs /\ DoubledAt' = DoubledAt \cup {name}
        \/ DoubledAt' = DoubledAt /\ KeptAttrs' = KeptAttrs \cup {a}
    BY DEF a
  <1>6. ASSUME w <= name.from, name.from \in Nat, w \in Nat
        PROVE  /\ {b \in KeptAttrs' : b.name.from < w} = {b \in KeptAttrs : b.name.from < w}
               /\ {s \in DoubledAt' : s.from < w} = {s \in DoubledAt : s.from < w}
    <2>1. ~(name.from < w)
      BY <1>6
    <2> QED
      BY <1>2, <1>5, <2>1
  <1>7. CASE Over(w)
    <2>1. w <= name.from /\ w <= i
      BY <1>1, <1>7 DEF Over
    <2>2. name.from \in Nat /\ w \in Nat
      BY DEF IInv, TypeOK, Span, Pos, End
    <2>3. Over(w)'
      <3>1. i' \in Nat /\ i <= i'
        BY <1>1
      <3> QED
        BY <1>1, <1>7, <3>1, StaysOver
    <2> QED
      BY <1>1, <1>4, <1>6, <2>1, <2>2, <2>3, ReadStays
  <1>8. CASE Along(w) /\ StrictAt(w) = {} /\ BareEnd(w) = {} /\ ~Is(StartOf(w), Stop)
    <2>1. w <= i /\ w <= name.from /\ w \in Nat /\ name.from \in Nat
      BY <1>1, <1>8, StartIsBefore
    <2>2. w <= i'
      BY <1>1, <2>1
    <2>3. Over(w)'
      BY <1>1, <1>8, <2>2, GoesOver
    <2> QED
      BY <1>1, <1>4, <1>6, <2>1, <2>3, ReadStays
  <1>9. CASE Along(w) /\ StrictAt(w) = {a}
    <2>0. PICK e : e = CloseAt + 1
      OBVIOUS
    <2>1. w <= i /\ w <= name.from /\ w \in Nat /\ name.from \in Nat /\ NoneFrom(w)
      BY <1>1, <1>9, StartIsBefore DEF Along
    <2>2. e \in 1 .. End /\ e \in Nat /\ i < e /\ w < e
      BY <1>1, <2>0, <2>1
    <2>3. name.from < e
      <3>1. name.to \in Nat /\ name.from <= name.to /\ name.to < i
        BY <1>1 DEF IInv, TypeOK, NameBefore, Span, Pos
      <3> QED
        BY <1>1, <2>1, <2>2, <3>1
    <2>4. /\ StrictFrom[w].all = {a} \cup StrictFrom[e].all
          /\ StrictFrom[w].to = StrictFrom[e].to
      BY <1>1, <1>2, <1>9, <2>0, ReadsAttr
    <2> PICK more : more = {a} \cup all
      OBVIOUS
    <2>5. Strict.all = more \cup StrictFrom[e].all /\ Strict.to = StrictFrom[e].to
      BY <1>4, <2>4 DEF ReadTo
    <2>6. /\ all \subseteq Attr /\ \A b \in all : b.name.from < w /\ b.name.from \in Nat
          /\ KeptAttrs = Firsts(all) /\ DoubledAt = Repeats(all) /\ Matches(all, w)
      BY <1>4, <2>1 DEF ReadTo, Matches, NoneFrom, Attr, Span, Pos
    <2>7. \A x \in Nat : x < w => x < e /\ x < name.from
      BY <2>1, <2>2
    <2>8. \A b \in all : b.name.from < name.from
      BY <2>6, <2>7
    <2>9. KeptAttrs' = Firsts(more) /\ DoubledAt' = Repeats(more)
      <3>1. PICK new : new = a
        OBVIOUS
      <3>2. w \in 1 .. End /\ Matches(all, w) /\ NoneFrom(w) /\ new.name = name
        BY <1>1, <1>9, <2>1, <2>6, <3>1 DEF a
      <3>3. /\ Seen => /\ Firsts({new} \cup all) = Firsts(all)
                       /\ Repeats({new} \cup all) = Repeats(all) \cup {name}
            /\ ~Seen => /\ Firsts({new} \cup all) = Firsts(all) \cup {new}
                        /\ Repeats({new} \cup all) = Repeats(all)
        BY <2>8, <3>2, OneMore
      <3>4. more = {new} \cup all /\ KeptAttrs = Firsts(all) /\ DoubledAt = Repeats(all)
        BY <2>6, <3>1
      <3>5. CASE Seen
        <4>1. KeptAttrs' = KeptAttrs /\ DoubledAt' = DoubledAt \cup {name}
          BY <3>5
        <4> QED
          BY <3>3, <3>4, <3>5, <4>1
      <3>6. CASE ~Seen
        <4>1. KeptAttrs' = KeptAttrs \cup {new} /\ DoubledAt' = DoubledAt
          BY <3>1, <3>6 DEF a
        <4> QED
          BY <3>3, <3>4, <3>6, <4>1
      <3> QED
        BY <3>5, <3>6
    <2>10. more \subseteq Attr /\ \A b \in more : b.name.from < e
      BY <1>1, <1>2, <2>3, <2>6, <2>7
    <2>11. (\A b \in KeptAttrs' : b.name.from < e) /\ (\A s \in DoubledAt' : s.from < e)
      BY <2>9, <2>10 DEF Firsts, Repeats
    <2>12. Matches(more, e)'
      <3>1. Firsts(more)' = Firsts(more) /\ Repeats(more)' = Repeats(more)
        BY <1>1, PlacesStay
      <3>2. /\ {b \in KeptAttrs' : b.name.from < e} = KeptAttrs'
            /\ {s \in DoubledAt' : s.from < e} = DoubledAt'
        BY <2>11
      <3> QED
        BY <2>9, <2>10, <3>1, <3>2 DEF Matches
    <2>13. Along(e)'
      <3>1. StartOf(e)' = StartOf(e) /\ StartOf(e) \in e .. End
        BY <1>1, <2>2, PlacesStay, PartsOf
      <3>2. i' \in e .. StartOf(e)'
        BY <1>1, <2>0, <2>2, <3>1
      <3>3. NoneFrom(e)'
        BY <2>11 DEF NoneFrom
      <3> QED
        BY <3>2, <3>3 DEF Along
    <2>14. Strict' = Strict /\ StrictFrom' = StrictFrom /\ End' = End
      BY <1>1, TagStays
    <2>15. ReadTo(e, more)'
      BY <2>5, <2>12, <2>13, <2>14 DEF ReadTo
    <2> QED
      BY <2>2, <2>14, <2>15 DEF WInv
  <1> QED
    BY <1>4, <1>7, <1>8, <1>9, ValueReads DEF ReadTo, a

LEMMA DuplicateReads == IInv /\ IInv' /\ WInv /\ Duplicate => WInv'
  <1> SUFFICES ASSUME IInv, IInv', WInv, Duplicate PROVE WInv'
    OBVIOUS
  <1> DEFINE d == [code |-> "DuplicateAttribute", at |-> name]
             n == Len(diags)
  <1>1. /\ HasValue /\ Seen /\ UNCHANGED <<tag, attrs>> /\ diags' = Append(diags, d)
        /\ i' = CloseAt + 1 /\ stage' = "scan" /\ d \in Diag
    BY DEF Duplicate, Diagnose, Diag, Code, IInv, TypeOK
  <1>2. d.code = "DuplicateAttribute" /\ d.at = name
    OBVIOUS
  <1> HIDE DEF d
  <1>3. /\ n \in Nat /\ Len(diags') = n + 1 /\ diags'[n + 1] = d
        /\ \A k \in 1 .. n : diags'[k] = diags[k]
    BY <1>1, AppendProperties DEF IInv, TypeOK
  <1> HIDE DEF n
  <1>4. \A k : k \in 1 .. Len(diags') <=> k \in 1 .. n \/ k = n + 1
    BY <1>3
  <1>5. \A k : k \in Doubled' <=> k \in Doubled \/ k = n + 1
    BY <1>2, <1>3, <1>4 DEF Doubled, n
  <1>6. \A k \in Doubled : k \in 1 .. n /\ diags'[k] = diags[k]
    BY <1>3 DEF Doubled, n
  <1>7. DoubledAt' = DoubledAt \cup {name}
    <2>1. \A s : s \in DoubledAt' <=> s \in DoubledAt \/ s = name
      BY <1>2, <1>3, <1>5, <1>6 DEF DoubledAt
    <2> QED
      BY <2>1
  <1>8. \A k \in Doubled : diags[k].at.to < name.from /\ diags[k].at.to < i /\ diags[k].at.to \in Nat
    BY <1>1, DoubledFacts DEF WInv, DoubledInOrder, HasValue
  <1>9. i \in Nat /\ i' \in Nat /\ i < i' /\ name.to \in Nat /\ name.to < i
    <2>1. CloseAt \in Nat /\ i + 1 <= CloseAt /\ i \in Nat
      BY <1>1, CloseFacts DEF IInv, TypeOK, Pos
    <2>2. name.to \in Nat /\ name.to < i
      BY <1>1 DEF HasValue, IInv, TypeOK, NameBefore, Span, Pos
    <2> QED
      BY <1>1, <2>1, <2>2
  <1>10. DoubledInOrder'
    <2>1. ASSUME NEW k \in Doubled', NEW l \in Doubled', k < l
          PROVE  diags'[k].at.to < diags'[l].at.from
      <3>1. k \in Doubled
        <4>1. SUFFICES ASSUME k = n + 1 PROVE FALSE
          BY <1>5
        <4>2. l \in 1 .. n \/ l = n + 1
          BY <1>5, <1>6
        <4> QED
          BY <1>3, <2>1, <4>1, <4>2
      <3>2. CASE l \in Doubled
        BY <1>6, <2>1, <3>1, <3>2 DEF WInv, DoubledInOrder
      <3>3. CASE l = n + 1
        BY <1>2, <1>3, <1>6, <1>8, <3>1, <3>3
      <3> QED
        BY <1>5, <3>2, <3>3
    <2>2. ASSUME NEW k \in Doubled' PROVE diags'[k].at.to < i'
      <3>1. CASE k \in Doubled
        <4>1. diags'[k] = diags[k]
          BY <1>6, <3>1
        <4>2. diags[k].at.to < i /\ diags[k].at.to \in Nat
          BY <1>8, <3>1
        <4> QED
          BY <1>9, <4>1, <4>2
      <3>2. CASE k = n + 1
        BY <1>2, <1>3, <1>9, <3>2
      <3> QED
        BY <1>5, <3>1, <3>2
    <2> QED
      BY <1>1, <2>1, <2>2 DEF DoubledInOrder
  <1>11. KeptAttrs' = KeptAttrs
    BY <1>1 DEF KeptAttrs
  <1> QED
    BY <1>1, <1>7, <1>10, <1>11, ValueStep

LEMMA AttributeReads == IInv /\ IInv' /\ WInv /\ Attribute => WInv'
  <1> SUFFICES ASSUME IInv, IInv', WInv, Attribute PROVE WInv'
    OBVIOUS
  <1> DEFINE a == [name |-> name, value |-> At(i + 1, CloseAt)]
             n == Len(attrs)
  <1>1. /\ HasValue /\ ~Seen /\ UNCHANGED <<tag, name, diags>> /\ attrs' = Append(attrs, a)
        /\ i' = CloseAt + 1 /\ stage' = "check"
    BY DEF Attribute
  <1>2. i \in Nat /\ i' \in Nat /\ i <= i'
    BY <1>1, CloseFacts
  <1>3. /\ Doubled' = Doubled /\ DoubledAt' = DoubledAt /\ \A k \in Doubled : diags'[k] = diags[k]
    BY <1>1, NothingDoubled
  <1>4. DoubledInOrder'
    BY <1>1, <1>2, <1>3, OrderStays DEF WInv
  <1>5. a \in Attr
    <2>1. At(i + 1, CloseAt) \in Span /\ name \in Span
      BY <1>1, CloseFacts DEF At, Span, Pos, IInv, TypeOK
    <2> QED
      BY <2>1 DEF Attr
  <1> HIDE DEF a
  <1>6. /\ n \in Nat /\ Len(attrs') = n + 1 /\ attrs'[n + 1] = a
        /\ \A k \in 1 .. n : attrs'[k] = attrs[k]
    BY <1>1, <1>5, AppendProperties DEF IInv, TypeOK
  <1> HIDE DEF n
  <1>7. \A k : k \in 1 .. Len(attrs') <=> k \in 1 .. n \/ k = n + 1
    BY <1>6
  <1>8. KeptAttrs' = KeptAttrs \cup {a}
    <2>1. \A b : b \in KeptAttrs' <=> b \in KeptAttrs \/ b = a
      BY <1>6, <1>7 DEF KeptAttrs, n
    <2> QED
      BY <2>1
  <1>9. KeptAttrs' = KeptAttrs \cup {[name |-> name, value |-> At(i + 1, CloseAt)]}
    BY <1>8 DEF a
  <1> QED
    BY <1>1, <1>3, <1>4, <1>9, ValueStep

(* The checks of a value move neither the cursor nor what is kept.          *)
LEMMA CheckReads ==
  ASSUME IInv, IInv', WInv, UNCHANGED <<tag, i, attrs>>, stage = "check",
         stage' \in {"scan", "check"},
         UNCHANGED diags \/ \E d \in Diag : /\ d.code # "DuplicateAttribute"
                                            /\ diags' = Append(diags, d)
  PROVE  WInv'
  <1>1. /\ Doubled' = Doubled /\ DoubledAt' = DoubledAt /\ KeptAttrs' = KeptAttrs
        /\ \A k \in Doubled : diags'[k] = diags[k]
    BY NothingDoubled DEF KeptAttrs
  <1>2. tag \in Seq(Char) /\ i' \in Nat /\ i <= i'
    BY DEF IInv, TypeOK, Pos
  <1>3. DoubledInOrder'
    BY <1>1, <1>2, OrderStays DEF WInv
  <1>4. PICK w \in 1 .. End : \E all : ReadTo(w, all)
    BY DEF WInv
  <1>5. PICK all : ReadTo(w, all)
    BY <1>4
  <1>6. CASE Along(w)
    <2>1. i \in w .. StartOf(w) /\ NoneFrom(w)
      BY <1>6 DEF Along
    <2>2. NoneFrom(w)'
      BY <1>1, <2>1 DEF NoneFrom
    <2>3. i' \in w .. StartOf(w)'
      BY <1>2, <2>1, PlacesStay
    <2>4. Along(w)'
      BY <2>2, <2>3 DEF Along
    <2> QED
      BY <1>1, <1>2, <1>3, <1>5, <2>4, ReadStays
  <1>7. CASE Over(w)
    <2>1. Over(w)'
      BY <1>2, <1>7, StaysOver
    <2> QED
      BY <1>1, <1>2, <1>3, <1>5, <2>1, ReadStays
  <1> QED
    BY <1>5, <1>6, <1>7 DEF ReadTo

LEMMA ReferenceReads == IInv /\ IInv' /\ WInv /\ Reference => WInv'
  <1> SUFFICES ASSUME IInv, IInv', WInv, Reference PROVE WInv'
    OBVIOUS
  <1>1. UNCHANGED <<tag, i, attrs>> /\ stage = "check" /\ stage' = stage
    BY DEF Reference, Checking
  <1>2. PICK semi \in SemiAt :
           IF SubSeq(tag, j + 1, semi - 1) \in Resolvable
           THEN UNCHANGED diags
           ELSE Diagnose("InvalidEntity", At(j, semi + 1))
    BY DEF Reference
  <1> DEFINE d == [code |-> "InvalidEntity", at |-> At(j, semi + 1)]
  <1>3. semi + 1 \in Pos /\ j \in Pos
    <2>1. semi \in Nat
      BY SemiFacts DEF Reference
    <2> QED
      BY <2>1 DEF IInv, TypeOK, Pos
  <1>4. d \in Diag /\ d.code # "DuplicateAttribute"
    BY <1>3 DEF Diag, Code, At, Span
  <1>5. UNCHANGED diags \/ diags' = Append(diags, d)
    BY <1>2 DEF Diagnose
  <1> HIDE DEF d
  <1> QED
    BY <1>1, <1>4, <1>5, CheckReads

LEMMA OtherChecksRead == IInv /\ IInv' /\ WInv /\ (PlainByte \/ Dangling \/ Checked) => WInv'
  <1> SUFFICES ASSUME IInv, IInv', WInv, PlainByte \/ Dangling \/ Checked PROVE WInv'
    OBVIOUS
  <1>1. CASE PlainByte
    BY <1>1, CheckReads DEF PlainByte, Checking
  <1>2. CASE Dangling
    <2> DEFINE d == [code |-> "InvalidEntity", at |-> At(j, j + 1)]
    <2>1. j \in Pos /\ j + 1 \in Pos
      BY DEF IInv, TypeOK, Pos
    <2>2. d \in Diag /\ d.code # "DuplicateAttribute"
      BY <2>1 DEF Diag, Code, At, Span
    <2>3. UNCHANGED <<tag, i, attrs>> /\ stage = "check" /\ stage' = stage /\ diags' = Append(diags, d)
      BY <1>2 DEF Dangling, Checking, Diagnose
    <2> HIDE DEF d
    <2> QED
      BY <2>2, <2>3, CheckReads
  <1>3. CASE Checked
    <2>1. UNCHANGED <<tag, i, attrs>> /\ stage = "check" /\ stage' = "scan"
      BY <1>3 DEF Checked
    <2>2. UNCHANGED diags \/ \E p : diags' = Append(diags, [code |-> "UnterminatedPlaceholder", at |-> p])
      BY <1>3 DEF Checked, Diagnose
    <2>3. CASE UNCHANGED diags
      BY <2>1, <2>3, CheckReads
    <2>4. CASE \E p : diags' = Append(diags, [code |-> "UnterminatedPlaceholder", at |-> p])
      <3>1. PICK p : diags' = Append(diags, [code |-> "UnterminatedPlaceholder", at |-> p])
        BY <2>4
      <3> DEFINE d == [code |-> "UnterminatedPlaceholder", at |-> p]
      <3>2. diags' = Append(diags, d) /\ d.code # "DuplicateAttribute"
        BY <3>1
      <3> HIDE DEF d
      <3>3. Len(diags) \in Nat /\ Len(diags') = Len(diags) + 1 /\ diags'[Len(diags) + 1] = d
            /\ diags' \in Seq(Diag)
        BY <3>2 DEF IInv, TypeOK
      <3>4. Len(diags) + 1 \in 1 .. Len(diags')
        BY <3>3
      <3>5. d \in Diag
        BY <3>3, <3>4, ElementOfSeq
      <3> QED
        BY <2>1, <3>2, <3>5, CheckReads
    <2> QED
      BY <2>2, <2>3, <2>4
  <1> QED
    BY <1>1, <1>2, <1>3

LEMMA NextReads == IInv /\ IInv' /\ WInv /\ [Next]_vars => WInv'
  <1> SUFFICES ASSUME IInv, IInv', WInv, [Next]_vars PROVE WInv'
    OBVIOUS
  <1>1. CASE UNCHANGED vars
    <2>1. UNCHANGED <<tag, stage, i, name, attrs, diags>>
      BY <1>1 DEF vars
    <2>2. tag \in Seq(Char) /\ i' \in Nat /\ i <= i'
      BY <2>1 DEF IInv, TypeOK, Pos
    <2>3. /\ KeptAttrs' = KeptAttrs /\ Doubled' = Doubled /\ DoubledAt' = DoubledAt
          /\ \A k \in Doubled : diags'[k] = diags[k]
      BY <2>1, NothingDoubled DEF KeptAttrs
    <2>4. DoubledInOrder'
      BY <2>1, <2>2, <2>3 DEF WInv, DoubledInOrder
    <2>5. CASE stage = "name"
      BY <2>1, <2>3, <2>4, <2>5 DEF WInv
    <2>6. CASE stage # "name"
      <3>1. PICK w \in 1 .. End : \E all : ReadTo(w, all)
        BY <2>6 DEF WInv
      <3>2. PICK all : ReadTo(w, all)
        BY <3>1
      <3>3. NoneFrom(w)' <=> NoneFrom(w)
        BY <2>3 DEF NoneFrom
      <3>4. Along(w)' <=> Along(w)
        BY <2>1, <2>2, <3>3, PlacesStay, TagStays DEF Along, Is
      <3>5. Over(w)' <=> Over(w)
        BY <2>1, <2>2, <3>3, PlacesStay, TagStays DEF Over, Is
      <3> QED
        BY <2>1, <2>2, <2>3, <2>4, <2>6, <3>2, <3>4, <3>5, ReadStays DEF ReadTo
    <2> QED
      BY <2>5, <2>6
  <1> QED
    BY <1>1, SkipTagNameReads, TagEndsReads, NameReadReads, BareAttributeReads, UnquotedReads,
       QuoteReadReads, CutOffReads, DuplicateReads, AttributeReads, ReferenceReads, OtherChecksRead
       DEF Next

(* A fault in a tag, whatever it is, loses no attribute before it, and a    *)
(* tag without one is read as XML reads it: for every tag.                  *)
THEOREM WellFormedIsAlwaysKept == Spec => []WellFormedIsKept
  <1>1. Init => IInv /\ WInv
    BY InitKeeps, InitReads
  <1>2. IInv /\ WInv /\ [Next]_vars => IInv' /\ WInv'
    BY NextKeeps, NextReads
  <1>3. IInv /\ WInv => WellFormedIsKept
    BY KeptAtEnd
  <1> QED
    BY <1>1, <1>2, <1>3, PTL DEF Spec
==============================================================================
