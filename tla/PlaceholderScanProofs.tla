------------------------ MODULE PlaceholderScanProofs ------------------------
(* Theorems about the two passes, for every text and depth limit.           *)
EXTENDS PlaceholderScan, StackLemmas

(* Every call is told where its slice begins.                               *)
BasesAreStarts == \A k \in 1 .. Len(walks) : walks[k].base = walks[k].from

(* The inductive invariant, and its parts: the calls, the scan of the       *)
(* innermost one, the entries, and where the passes are.                    *)
IInv == TypeOK /\ DepthBounded /\ SlicesNest /\ BasesAreStarts

Fits(s) ==
  /\ s \in Seq(Walk)
  /\ Len(s) <= DepthLimit + 1
  /\ \A k \in 1 .. Len(s) : s[k].i <= s[k].to /\ s[k].to <= Len(text) + 1
  /\ \A k, l \in 1 .. Len(s) : k < l => s[l].to < s[k].i
  /\ \A k \in 1 .. Len(s) : s[k].base = s[k].from

StackOK == Fits(walks)

InSlice(s) == /\ s \in Scan
              /\ Len(s.parents) <= DepthLimit
              /\ walks # <<>> /\ Top.i + 2 <= s.j /\ s.j <= Top.to

ScanOK == IsOption(scan, Scan) /\ \A s \in scan : InSlice(s)

FoundOK ==
  /\ found \in Seq(Found)
  /\ \A k \in 1 .. Len(found) : found[k].from < found[k].to /\ found[k].to <= Len(text)

StageOK ==
  /\ text \in Seq(Char)
  /\ stage \in {"diagnose", "harvest", "done"}
  /\ IsOption(open, Pos) /\ IsOption(stopped, Pos)
  /\ stage = "done" <=> walks = <<>>
  /\ stage = "done" => scan = {}
  /\ stage = "diagnose" => Len(walks) = 1

LEMMA Parts == IInv <=> StackOK /\ ScanOK /\ FoundOK /\ StageOK
  BY DEF IInv, TypeOK, DepthBounded, SlicesNest, BasesAreStarts, StackOK, Fits, ScanOK, FoundOK,
         StageOK, InSlice, IsOption

LEMMA PartsAgain == StackOK' /\ ScanOK' /\ FoundOK' /\ StageOK' => IInv'
  BY DEF IInv, TypeOK, DepthBounded, SlicesNest, BasesAreStarts, StackOK, Fits, ScanOK, FoundOK,
         StageOK, InSlice, IsOption
-----------------------------------------------------------------------------
(* Lemmas about the operators of PlaceholderScan.                           *)

(* The innermost call.                                                      *)
LEMMA TopType ==
  ASSUME StackOK, walks # <<>>
  PROVE  /\ Len(walks) \in Nat /\ Len(walks) >= 1
         /\ Top \in Walk
         /\ Top.i \in Pos /\ Top.to \in Pos /\ Top.i <= Top.to /\ Top.to <= Len(text) + 1
         /\ Top.quote \in Option(Quote)
         /\ Top.from \in Pos /\ Top.base = Top.from
  <1>1. Len(walks) \in Nat /\ Len(walks) >= 1
    BY EmptySeq DEF StackOK, Fits
  <1>2. Top \in Walk
    BY <1>1, ElementOfSeq DEF StackOK, Fits, Top
  <1> QED
    BY <1>1, <1>2 DEF StackOK, Fits, Top, Walk

(* The scan at hand.                                                        *)
LEMMA CurType ==
  ASSUME ScanOK, scan # {}
  PROVE  /\ InSlice(Cur)
         /\ Cur.j \in Pos /\ Cur.parents \in Seq(Level)
         /\ Cur.level \in Level /\ Cur.level.depth \in Pos /\ Cur.level.quote \in Option(Quote)
  <1>1. Cur \in scan
    BY DEF Cur
  <1> QED
    BY <1>1 DEF ScanOK, InSlice, Scan, Level

(* A quoted text goes on, or is over.                                       *)
LEMMA UnquoteType ==
  ASSUME NEW q \in Option(Quote), NEW c
  PROVE  q \ {c} \in Option(Quote)
  BY DEF Option

(* The next call is told where its slice begins.                            *)
LEMMA InnerType ==
  ASSUME StackOK, walks # <<>>, NEW opener \in Pos, NEW to \in Pos
  PROVE  /\ Inner(opener, to) \in Walk
         /\ Inner(opener, to).i = opener + 2 /\ Inner(opener, to).to = to
         /\ Inner(opener, to).quote = {}
         /\ Inner(opener, to).base = Inner(opener, to).from
  <1>1. Top.from \in Nat /\ Top.base = Top.from
    BY TopType DEF Pos
  <1>2. Absolute(opener + 2) = opener + 2 /\ opener + 2 \in Pos
    BY <1>1 DEF Absolute, Pos
  <1> QED
    BY <1>2 DEF Inner, Slice, Walk, Option

(* An entry is placed where it is.                                          *)
LEMMA PlacedIsSame ==
  ASSUME StackOK, walks # <<>>, NEW e \in Found
  PROVE  Placed(e) = e
  <1>1. Top.from \in Nat /\ Top.base = Top.from
    BY TopType DEF Pos
  <1>2. e.from \in Nat /\ e.to \in Nat
    BY DEF Found, Pos
  <1>3. Absolute(e.from) = e.from /\ Absolute(e.to) = e.to
    BY <1>1, <1>2 DEF Absolute
  <1> QED
    BY <1>3 DEF Placed, Found

(* The whole text is a slice.                                               *)
LEMMA WholeTextOK ==
  ASSUME text \in Seq(Char), UNCHANGED text, walks' = WholeText
  PROVE  StackOK' /\ Len(walks') = 1 /\ walks' # <<>>
  <1> DEFINE w == Slice(1, 1, Len(text) + 1, FALSE)
  <1>1. Len(text) \in Nat
    OBVIOUS
  <1>2. w \in Walk /\ w.i = 1 /\ w.to = Len(text) + 1 /\ w.base = w.from
    BY <1>1 DEF Slice, Walk, Option, Pos
  <1>3. walks' = <<w>>
    BY DEF WholeText
  <1> HIDE DEF w
  <1>4. walks' \in Seq(Walk) /\ Len(walks') = 1 /\ walks'[1] = w /\ walks' # <<>>
    BY <1>2, <1>3
  <1> QED
    BY <1>1, <1>2, <1>4, ConstantsOK DEF StackOK, Fits

(* What fits is a stack of calls.                                           *)
LEMMA StackAgain ==
  ASSUME NEW s, Fits(s), UNCHANGED text, walks' = s
  PROVE  StackOK'
  BY DEF Fits, StackOK

(* The innermost call goes on in its slice.                                 *)
LEMMA OnwardFits ==
  ASSUME StackOK, walks # <<>>,
         NEW w \in Walk, w.to = Top.to, w.from = Top.from, w.base = Top.base,
         Top.i <= w.i, w.i <= w.to
  PROVE  /\ Fits(WithTop(w)) /\ WithTop(w) # <<>>
         /\ Len(WithTop(w)) = Len(walks) /\ WithTop(w)[Len(walks)] = w
  <1> DEFINE s == WithTop(w)
  <1>1. /\ s \in Seq(Walk) /\ Len(s) = Len(walks)
        /\ \A k \in 1 .. Len(walks) : s[k] = IF k = Len(walks) THEN w ELSE walks[k]
    BY ReplaceLast DEF StackOK, Fits, WithTop
  <1>2. Len(walks) \in Nat /\ Len(walks) >= 1 /\ Top.to <= Len(text) + 1
    BY TopType
  <1> HIDE DEF s
  <1>3. s # <<>> /\ s[Len(walks)] = w
    BY <1>1, <1>2, EmptySeq
  <1>4. \A k \in 1 .. Len(walks) : s[k].i <= s[k].to /\ s[k].to <= Len(text) + 1
    BY <1>1, <1>2 DEF StackOK, Fits
  <1>5. ASSUME NEW k \in 1 .. Len(walks), NEW l \in 1 .. Len(walks), k < l
        PROVE  s[l].to < s[k].i
    <2>1. s[k] = walks[k] /\ walks[l].to < walks[k].i
      BY <1>1, <1>2, <1>5 DEF StackOK, Fits
    <2>2. s[l].to = walks[l].to
      BY <1>1, <1>2 DEF Top
    <2> QED
      BY <2>1, <2>2
  <1>6. \A k \in 1 .. Len(walks) : s[k].base = s[k].from
    BY <1>1, TopType DEF StackOK, Fits
  <1>7. Fits(s)
    BY <1>1, <1>4, <1>5, <1>6 DEF StackOK, Fits
  <1> QED
    BY <1>1, <1>3, <1>7 DEF s

(* The innermost call moves to a position in its slice.                     *)
LEMMA MovedFits ==
  ASSUME StackOK, walks # <<>>, NEW i \in Pos, Top.i <= i, i <= Top.to
  PROVE  /\ Fits(Moved(i)) /\ Moved(i) # <<>>
         /\ Len(Moved(i)) = Len(walks) /\ Moved(i)[Len(walks)].i = i
  <1> DEFINE w == [Top EXCEPT !.i = i]
  <1>1. w \in Walk /\ w.to = Top.to /\ w.i = i /\ w.from = Top.from /\ w.base = Top.base
    BY TopType DEF Walk
  <1>2. Moved(i) = WithTop(w)
    BY DEF Moved
  <1> HIDE DEF w
  <1> QED
    BY <1>1, <1>2, OnwardFits

(* A call that the limit allows is put on top, with a slice behind which    *)
(* its caller goes on.                                                      *)
LEMMA CallFits ==
  ASSUME NEW s, Fits(s), s # <<>>, Len(s) <= DepthLimit,
         NEW w \in Walk, w.i <= w.to, w.to < s[Len(s)].i, w.base = w.from
  PROVE  Fits(Append(s, w)) /\ Len(Append(s, w)) = Len(s) + 1
  <1> DEFINE t == Append(s, w)
  <1>1. s \in Seq(Walk) /\ Len(s) \in Nat /\ Len(s) >= 1
    BY EmptySeq DEF Fits
  <1>2. /\ t \in Seq(Walk) /\ Len(t) = Len(s) + 1
        /\ \A k \in 1 .. Len(s) : t[k] = s[k]
        /\ t[Len(s) + 1] = w
    BY <1>1, AppendProperties
  <1> HIDE DEF t
  <1>3. w.to <= Len(text) + 1
    <2>1. s[Len(s)].i <= s[Len(s)].to /\ s[Len(s)].to <= Len(text) + 1
      BY <1>1 DEF Fits
    <2>2. w.to \in Nat /\ s[Len(s)] \in Walk
      <3>1. Len(s) \in 1 .. Len(s)
        BY <1>1
      <3>2. s[Len(s)] \in Walk
        BY <1>1, <3>1, ElementOfSeq
      <3> QED
        BY <3>2 DEF Walk, Pos
    <2>3. s[Len(s)].i \in Nat /\ s[Len(s)].to \in Nat
      BY <2>2 DEF Walk, Pos
    <2> QED
      BY <2>1, <2>2, <2>3
  <1>4. \A k \in 1 .. Len(t) : t[k].i <= t[k].to /\ t[k].to <= Len(text) + 1
    BY <1>1, <1>2, <1>3 DEF Fits
  <1>5. ASSUME NEW k \in 1 .. Len(t), NEW l \in 1 .. Len(t), k < l
        PROVE  t[l].to < t[k].i
    <2>1. k \in 1 .. Len(s) /\ t[k] = s[k] /\ s[k] \in Walk
      <3>1. k \in 1 .. Len(s)
        BY <1>1, <1>2, <1>5
      <3> QED
        BY <1>1, <1>2, <3>1, ElementOfSeq
    <2>2. CASE l \in 1 .. Len(s)
      BY <1>2, <1>5, <2>1, <2>2 DEF Fits
    <2>3. CASE l = Len(s) + 1
      <3>1. t[l] = w /\ w.to < s[Len(s)].i
        BY <1>2, <2>3
      <3>2. CASE k = Len(s)
        BY <2>1, <3>1, <3>2
      <3>3. CASE k # Len(s)
        <4>1. Len(s) \in 1 .. Len(s) /\ k < Len(s)
          BY <1>1, <2>1, <3>3
        <4>2. s[Len(s)].to < s[k].i /\ s[Len(s)].i <= s[Len(s)].to /\ s[Len(s)] \in Walk
          BY <1>1, <2>1, <4>1, ElementOfSeq DEF Fits
        <4>3. /\ w.to \in Nat /\ s[k].i \in Nat
              /\ s[Len(s)].i \in Nat /\ s[Len(s)].to \in Nat
          BY <2>1, <4>2 DEF Walk, Pos
        <4> QED
          BY <2>1, <3>1, <4>2, <4>3
      <3> QED
        BY <3>2, <3>3
    <2> QED
      BY <1>1, <1>2, <2>2, <2>3
  <1>6. Len(t) <= DepthLimit + 1
    BY <1>1, <1>2, ConstantsOK
  <1>7. \A k \in 1 .. Len(t) : t[k].base = t[k].from
    BY <1>1, <1>2 DEF Fits
  <1>8. Fits(t)
    BY <1>2, <1>4, <1>5, <1>6, <1>7 DEF Fits
  <1> QED
    BY <1>2, <1>8 DEF t

(* The innermost call returns.                                              *)
LEMMA ReturnOK ==
  ASSUME StackOK, StageOK, stage = "harvest", UNCHANGED <<text, open>>, scan' = {},
         IsOption(stopped', Pos), Return
  PROVE  StackOK' /\ StageOK'
  <1>1. walks # <<>>
    BY DEF StageOK
  <1>2. /\ walks' \in Seq(Walk) /\ Len(walks') = Len(walks) - 1
        /\ \A k \in 1 .. Len(walks) - 1 : walks'[k] = walks[k]
        /\ walks' = <<>> <=> Len(walks) = 1
    BY <1>1, RemoveLast DEF StackOK, Fits, Return, Rest
  <1>3. Len(walks) \in Nat /\ Len(walks) >= 1
    BY <1>1, TopType
  <1>4. StackOK'
    <2>1. Len(walks') <= DepthLimit + 1
      BY <1>2, <1>3, ConstantsOK DEF StackOK, Fits
    <2>2. \A k \in 1 .. Len(walks') : walks'[k].i <= walks'[k].to /\ walks'[k].to <= Len(text) + 1
      BY <1>2, <1>3 DEF StackOK, Fits
    <2>3. ASSUME NEW k \in 1 .. Len(walks'), NEW l \in 1 .. Len(walks'), k < l
          PROVE  walks'[l].to < walks'[k].i
      <3>1. /\ k \in 1 .. Len(walks) /\ l \in 1 .. Len(walks)
            /\ walks'[k] = walks[k] /\ walks'[l] = walks[l]
        BY <1>2, <1>3
      <3> QED
        BY <2>3, <3>1 DEF StackOK, Fits
    <2>4. \A k \in 1 .. Len(walks') : walks'[k].base = walks'[k].from
      BY <1>2, <1>3 DEF StackOK, Fits
    <2> QED
      BY <1>2, <2>1, <2>2, <2>3, <2>4 DEF StackOK, Fits
  <1>5. StageOK'
    BY <1>2 DEF StageOK, Return
  <1> QED
    BY <1>4, <1>5
-----------------------------------------------------------------------------
(* The actions.                                                             *)

(* At the start, the whole text is walked.                                  *)
LEMMA InitOK == Init => IInv
  <1> SUFFICES ASSUME Init PROVE IInv
    OBVIOUS
  <1> DEFINE w == Slice(1, 1, Len(text) + 1, FALSE)
  <1>1. text \in Seq(Char) /\ Len(text) \in Nat
    BY ConstantsOK DEF Init
  <1>2. w \in Walk /\ w.i = 1 /\ w.to = Len(text) + 1 /\ w.base = w.from
    BY <1>1 DEF Slice, Walk, Option, Pos
  <1>3. walks = <<w>>
    BY DEF Init
  <1> HIDE DEF w
  <1>4. walks \in Seq(Walk) /\ Len(walks) = 1 /\ walks[1] = w /\ walks # <<>>
    BY <1>2, <1>3
  <1>5. StackOK
    BY <1>1, <1>2, <1>4, ConstantsOK DEF StackOK, Fits
  <1>6. ScanOK /\ FoundOK
    BY DEF Init, ScanOK, FoundOK, IsOption
  <1>7. StageOK
    BY <1>1, <1>4 DEF StageOK, Init, IsOption
  <1> QED
    BY <1>5, <1>6, <1>7, Parts

(* A walk that reads one byte goes on behind it.                            *)
LEMMA WalkByteOK == IInv /\ WalkByte => IInv'
  <1> SUFFICES ASSUME IInv, WalkByte PROVE IInv'
    OBVIOUS
  <1>1. StackOK /\ ScanOK /\ FoundOK /\ StageOK
    BY Parts
  <1>2. walks # <<>> /\ Top.i < Top.to
    <2>1. walks # <<>>
      BY <1>1 DEF WalkByte, StageOK
    <2> QED
      BY <1>1, <2>1, TopType DEF WalkByte, Ended, Pos
  <1>3. Top.i + 1 \in Pos /\ Top.i <= Top.i + 1 /\ Top.i + 1 <= Top.to
    BY <1>1, <1>2, TopType DEF Pos
  <1>4. StackOK' /\ Len(walks') = Len(walks) /\ walks' # <<>>
    BY <1>1, <1>2, <1>3, MovedFits, StackAgain DEF WalkByte
  <1>5. ScanOK' /\ FoundOK' /\ StageOK'
    BY <1>1, <1>2, <1>4 DEF WalkByte, ScanOK, FoundOK, StageOK, IsOption
  <1> QED
    BY <1>4, <1>5, PartsAgain

(* scan_braced_expr is called for an opener, which is two bytes.            *)
LEMMA WalkOpenerOK == IInv /\ WalkOpener => IInv'
  <1> SUFFICES ASSUME IInv, WalkOpener PROVE IInv'
    OBVIOUS
  <1>1. StackOK /\ ScanOK /\ FoundOK /\ StageOK
    BY Parts
  <1>2. walks # <<>>
    BY <1>1 DEF WalkOpener, StageOK
  <1> DEFINE s == ScanFrom(Top.i)
  <1>3. Top.i \in Pos /\ Top.to \in Pos /\ Top.i + 1 < Top.to
    BY <1>1, <1>2, TopType DEF WalkOpener, OpenerAt
  <1>4. s \in Scan /\ s.parents = <<>> /\ s.j = Top.i + 2
    BY <1>3 DEF ScanFrom, Scan, LevelFor, Level, Pos, Option
  <1>5. scan' = {s} /\ UNCHANGED <<text, stage, walks, open, stopped, found>>
    BY DEF WalkOpener
  <1> HIDE DEF s
  <1>6. InSlice(s)
    BY <1>2, <1>3, <1>4, ConstantsOK DEF InSlice, Pos
  <1>7. StackOK' /\ FoundOK' /\ StageOK'
    BY <1>1, <1>5 DEF StackOK, Fits, FoundOK, StageOK, IsOption, WalkOpener
  <1>8. ScanOK'
    BY <1>5, <1>6 DEF ScanOK, IsOption, InSlice, Top
  <1> QED
    BY <1>7, <1>8, PartsAgain

(* A walk meets a quote, or goes on in the quoted text.                     *)
LEMMA WalkQuoteOK == IInv /\ (WalkQuote \/ WalkQuoted) => IInv'
  <1> SUFFICES ASSUME IInv, WalkQuote \/ WalkQuoted PROVE IInv'
    OBVIOUS
  <1>1. StackOK /\ ScanOK /\ FoundOK /\ StageOK
    BY Parts
  <1>2. scan = {} /\ ~Ended /\ stage = "harvest" /\ UNCHANGED <<text, stage, scan, open, stopped, found>>
    BY DEF WalkQuote, WalkQuoted, Walking
  <1>3. walks # <<>>
    BY <1>1, <1>2 DEF StageOK
  <1>4. Top \in Walk /\ Top.i \in Pos /\ Top.to \in Pos /\ Top.i < Top.to /\ Top.quote \in Option(Quote)
    BY <1>1, <1>2, <1>3, TopType DEF Ended, Pos
  <1>5. PICK q \in Option(Quote) : walks' = WithTop([Top EXCEPT !.i = @ + 1, !.quote = q])
    <2>1. CASE WalkQuote
      <3>1. {text[Top.i]} \in Option(Quote)
        BY <2>1 DEF WalkQuote, Option
      <3> QED
        BY <2>1, <3>1 DEF WalkQuote
    <2>2. CASE WalkQuoted
      <3>1. Top.quote \ {text[Top.i]} \in Option(Quote)
        BY <1>4, UnquoteType
      <3> QED
        BY <2>2, <3>1 DEF WalkQuoted
    <2> QED
      BY <2>1, <2>2
  <1> DEFINE w == [Top EXCEPT !.i = @ + 1, !.quote = q]
  <1>6. w \in Walk /\ w.to = Top.to /\ w.i = Top.i + 1 /\ w.from = Top.from /\ w.base = Top.base
    <2>1. Top.i + 1 \in Pos
      BY <1>4 DEF Pos
    <2> QED
      BY <1>4, <2>1 DEF Walk
  <1>7. walks' = WithTop(w)
    BY <1>5
  <1> HIDE DEF w
  <1>8. Top.i <= w.i /\ w.i <= w.to
    BY <1>4, <1>6 DEF Pos
  <1>9. StackOK' /\ Len(walks') = Len(walks) /\ walks' # <<>>
    BY <1>1, <1>2, <1>3, <1>6, <1>7, <1>8, OnwardFits, StackAgain
  <1>10. ScanOK' /\ FoundOK' /\ StageOK'
    BY <1>1, <1>2, <1>3, <1>9 DEF ScanOK, FoundOK, StageOK, IsOption
  <1> QED
    BY <1>9, <1>10, PartsAgain

(* The diagnosis hands the whole text over to the harvest.                  *)
LEMMA DiagnoseEndOK == IInv /\ DiagnoseEnd => IInv'
  <1> SUFFICES ASSUME IInv, DiagnoseEnd PROVE IInv'
    OBVIOUS
  <1>1. ScanOK /\ FoundOK /\ StageOK
    BY Parts
  <1>2. StackOK' /\ Len(walks') = 1 /\ walks' # <<>>
    BY <1>1, WholeTextOK DEF StageOK, DiagnoseEnd
  <1>3. ScanOK' /\ FoundOK' /\ StageOK'
    BY <1>1, <1>2 DEF DiagnoseEnd, Walking, ScanOK, FoundOK, StageOK, IsOption
  <1> QED
    BY <1>2, <1>3, PartsAgain

(* A call of the harvest has read its slice.                                *)
LEMMA HarvestEndOK == IInv /\ HarvestEnd => IInv'
  <1> SUFFICES ASSUME IInv, HarvestEnd PROVE IInv'
    OBVIOUS
  <1>1. StackOK /\ ScanOK /\ FoundOK /\ StageOK
    BY Parts
  <1>2. StackOK' /\ StageOK'
    BY <1>1, ReturnOK DEF HarvestEnd, Walking, StageOK, IsOption
  <1>3. ScanOK' /\ FoundOK'
    BY <1>1 DEF HarvestEnd, Walking, ScanOK, FoundOK, IsOption
  <1> QED
    BY <1>2, <1>3, PartsAgain

(* A step of scan_braced_expr leaves it inside the slice.                   *)
LEMMA ScanStepOK ==
  ASSUME IInv, Scanning, NEW s, InSlice(s), scan' = {s}
  PROVE  IInv'
  <1>1. StackOK /\ ScanOK /\ FoundOK /\ StageOK
    BY Parts
  <1>2. scan # {} /\ UNCHANGED <<text, stage, walks, open, stopped, found>>
    BY DEF Scanning
  <1>3. StackOK' /\ FoundOK' /\ StageOK'
    BY <1>1, <1>2 DEF StackOK, Fits, FoundOK, StageOK, IsOption
  <1>4. ScanOK'
    BY <1>2 DEF ScanOK, IsOption, InSlice, Top
  <1> QED
    BY <1>3, <1>4, PartsAgain

(* scan_braced_expr has more to read.                                       *)
LEMMA ScanningType ==
  ASSUME IInv, Scanning
  PROVE  /\ InSlice(Cur) /\ Cur \in Scan /\ Cur.level \in Level /\ Cur.parents \in Seq(Level)
         /\ Len(Cur.parents) \in Nat /\ Len(Cur.parents) <= DepthLimit
         /\ Cur.level.depth \in Pos /\ Cur.level.quote \in Option(Quote)
         /\ walks # <<>>
         /\ Cur.j \in Pos /\ Top.i \in Pos /\ Top.to \in Pos
         /\ Top.i + 2 <= Cur.j /\ Cur.j < Top.to
  <1>1. StackOK /\ ScanOK /\ StageOK
    BY Parts
  <1>2. InSlice(Cur) /\ Cur.j \in Pos /\ Cur.parents \in Seq(Level)
    BY <1>1, CurType DEF Scanning
  <1>3. walks # <<>> /\ Cur \in Scan /\ Len(Cur.parents) <= DepthLimit /\ Top.i + 2 <= Cur.j
    BY <1>2 DEF InSlice
  <1>4. Top.i \in Pos /\ Top.to \in Pos
    BY <1>1, <1>3, TopType
  <1>5. Cur.j < Top.to
    BY DEF Scanning
  <1>6. /\ Cur.level \in Level /\ Cur.level.depth \in Pos
        /\ Cur.level.quote \in Option(Quote)
    BY <1>1, CurType DEF Scanning
  <1> QED
    BY <1>2, <1>3, <1>4, <1>5, <1>6

(* It reads one byte.                                                       *)
LEMMA ReadsOK ==
  ASSUME IInv, Scanning, NEW level \in Level, Reads(Cur, level)
  PROVE  IInv'
  <1> DEFINE s == [Cur EXCEPT !.j = @ + 1, !.level = level]
  <1>1. Cur.j + 1 \in Pos /\ Top.i + 2 <= Cur.j + 1 /\ Cur.j + 1 <= Top.to
    BY ScanningType DEF Pos
  <1>2. s \in Scan /\ s.j = Cur.j + 1 /\ s.parents = Cur.parents
    BY <1>1, ScanningType DEF Scan
  <1>3. scan' = {s}
    BY DEF Reads
  <1> HIDE DEF s
  <1>4. InSlice(s)
    BY <1>1, <1>2, ScanningType DEF InSlice
  <1> QED
    BY <1>3, <1>4, ScanStepOK

(* It reads a byte that does not open or close a level.                     *)
LEMMA ScanByteOK ==
  IInv /\ (ScanQuoted \/ ScanQuote \/ ScanBrace \/ ScanCloseBrace \/ ScanByte) => IInv'
  <1> SUFFICES ASSUME IInv, ScanQuoted \/ ScanQuote \/ ScanBrace \/ ScanCloseBrace \/ ScanByte
               PROVE  IInv'
    OBVIOUS
  <1>1. Scanning
    BY DEF ScanQuoted, ScanQuote, ScanBrace, ScanCloseBrace, ScanByte, OneByte
  <1>2. Cur.level \in Level /\ Cur.level.depth \in Pos /\ Cur.level.quote \in Option(Quote)
    BY <1>1, ScanningType
  <1>3. CASE ScanQuoted
    <2> DEFINE q == Cur.level.quote \ {text[Cur.j]}
               l == [Cur.level EXCEPT !.quote = q]
    <2>1. q \in Option(Quote)
      BY <1>2, UnquoteType
    <2>2. Reads(Cur, l)
      BY <1>3 DEF ScanQuoted
    <2> HIDE DEF q
    <2>3. l \in Level
      BY <1>2, <2>1 DEF Level
    <2> HIDE DEF l
    <2> QED
      BY <1>1, <2>2, <2>3, ReadsOK
  <1>4. CASE ScanQuote
    <2> DEFINE q == {text[Cur.j]}
               l == [Cur.level EXCEPT !.quote = q]
    <2>1. q \in Option(Quote)
      BY <1>4 DEF ScanQuote, Option
    <2>2. Reads(Cur, l)
      BY <1>4 DEF ScanQuote
    <2> HIDE DEF q
    <2>3. l \in Level
      BY <1>2, <2>1 DEF Level
    <2> HIDE DEF l
    <2> QED
      BY <1>1, <2>2, <2>3, ReadsOK
  <1>5. CASE ScanBrace \/ ScanCloseBrace
    <2>1. PICK d \in Pos : Reads(Cur, [Cur.level EXCEPT !.depth = d])
      <3>1. CASE ScanBrace
        <4>1. Cur.level.depth + 1 \in Pos
          BY <1>2 DEF Pos
        <4> QED
          BY <3>1, <4>1 DEF ScanBrace
      <3>2. CASE ScanCloseBrace
        <4>1. Cur.level.depth - 1 \in Pos
          <5>1. Cur.level.depth > 1
            BY <3>2 DEF ScanCloseBrace
          <5> QED
            BY <1>2, <5>1 DEF Pos
        <4> QED
          BY <3>2, <4>1 DEF ScanCloseBrace
      <3> QED
        BY <1>5, <3>1, <3>2
    <2>2. [Cur.level EXCEPT !.depth = d] \in Level
      BY <1>2 DEF Level
    <2> QED
      BY <1>1, <2>1, <2>2, ReadsOK
  <1>6. CASE ScanByte
    BY <1>1, <1>2, <1>6, ReadsOK DEF ScanByte
  <1> QED
    BY <1>3, <1>4, <1>5, <1>6

(* It opens a level, which the limit allows.                                *)
LEMMA ScanNestedOK == IInv /\ ScanNested => IInv'
  <1> SUFFICES ASSUME IInv, ScanNested PROVE IInv'
    OBVIOUS
  <1> DEFINE l  == LevelFor(Cur.j)
             ps == Append(Cur.parents, Cur.level)
             s  == [j |-> Cur.j + 2, level |-> l, parents |-> ps]
  <1>1. Scanning /\ OpenerAt(Cur.j) /\ Len(Cur.parents) < DepthLimit /\ scan' = {s}
    BY DEF ScanNested
  <1>2. l \in Level
    BY DEF LevelFor, Level, Pos, Option
  <1>3. ps \in Seq(Level) /\ Len(ps) = Len(Cur.parents) + 1
    BY <1>1, ScanningType, AppendProperties
  <1>4. Cur.j + 2 \in Pos /\ Top.i + 2 <= Cur.j + 2 /\ Cur.j + 2 <= Top.to
    <2>1. Cur.j + 1 < Top.to
      BY <1>1 DEF OpenerAt
    <2>2. Cur.j \in Pos /\ Top.i \in Pos /\ Top.to \in Pos /\ Top.i + 2 <= Cur.j
      BY <1>1, ScanningType
    <2> QED
      BY <2>1, <2>2 DEF Pos
  <1>5. Len(ps) <= DepthLimit
    BY <1>1, <1>3, ScanningType, ConstantsOK
  <1> HIDE DEF l, ps
  <1>6. s \in Scan /\ s.j = Cur.j + 2 /\ s.parents = ps
    BY <1>2, <1>3, <1>4 DEF Scan
  <1> HIDE DEF s
  <1>7. InSlice(s)
    BY <1>1, <1>4, <1>5, <1>6, ScanningType DEF InSlice
  <1> QED
    BY <1>1, <1>7, ScanStepOK

(* It closes a nested level.                                                *)
LEMMA ScanCloseNestedOK == IInv /\ ScanCloseNested => IInv'
  <1> SUFFICES ASSUME IInv, ScanCloseNested PROVE IInv'
    OBVIOUS
  <1> DEFINE ps == SubSeq(Cur.parents, 1, Len(Cur.parents) - 1)
             l  == Cur.parents[Len(Cur.parents)]
             s  == [j |-> Cur.j + 1, level |-> l, parents |-> ps]
  <1>1. Scanning /\ Cur.parents # <<>> /\ scan' = {s}
    BY DEF ScanCloseNested, OneByte
  <1>2. ps \in Seq(Level) /\ Len(ps) = Len(Cur.parents) - 1
    BY <1>1, ScanningType, RemoveLast
  <1>3. l \in Level
    <2>1. Cur.parents \in Seq(Level) /\ Len(Cur.parents) \in 1 .. Len(Cur.parents)
      BY <1>1, ScanningType, EmptySeq
    <2> QED
      BY <2>1, ElementOfSeq
  <1>4. Cur.j + 1 \in Pos /\ Top.i + 2 <= Cur.j + 1 /\ Cur.j + 1 <= Top.to
    BY <1>1, ScanningType DEF Pos
  <1>5. Len(ps) <= DepthLimit
    BY <1>1, <1>2, ScanningType, ConstantsOK
  <1> HIDE DEF l, ps
  <1>6. s \in Scan /\ s.j = Cur.j + 1 /\ s.parents = ps
    BY <1>2, <1>3, <1>4 DEF Scan
  <1> HIDE DEF s
  <1>7. InSlice(s)
    BY <1>1, <1>4, <1>5, <1>6, ScanningType DEF InSlice
  <1> QED
    BY <1>1, <1>7, ScanStepOK

(* The diagnosis goes on behind a closed expression.                        *)
LEMMA DiagnoseClosedOK == IInv /\ DiagnoseClosed => IInv'
  <1> SUFFICES ASSUME IInv, DiagnoseClosed PROVE IInv'
    OBVIOUS
  <1>1. StackOK /\ ScanOK /\ FoundOK /\ StageOK
    BY Parts
  <1>2. scan # {} /\ Cur.j < Top.to
    BY DEF DiagnoseClosed, Closes
  <1>3. InSlice(Cur) /\ Cur.j \in Pos
    BY <1>1, <1>2, CurType
  <1>4. walks # <<>> /\ Cur.j + 1 \in Pos /\ Top.i <= Cur.j + 1 /\ Cur.j + 1 <= Top.to
    <2>1. walks # <<>> /\ Top.i + 2 <= Cur.j
      BY <1>3 DEF InSlice
    <2> QED
      BY <1>1, <1>2, <1>3, <2>1, TopType DEF Pos
  <1>5. Fits(Moved(Cur.j + 1)) /\ Moved(Cur.j + 1) # <<>> /\ Len(Moved(Cur.j + 1)) = Len(walks)
    BY <1>1, <1>4, MovedFits
  <1>6. walks' = Moved(Cur.j + 1) /\ scan' = {} /\ UNCHANGED <<text, stage, open, stopped, found>>
    BY DEF DiagnoseClosed
  <1>7. StackOK'
    BY <1>5, <1>6, StackAgain
  <1>8. ScanOK' /\ FoundOK' /\ StageOK'
    BY <1>1, <1>4, <1>5, <1>6 DEF ScanOK, FoundOK, StageOK, IsOption
  <1> QED
    BY <1>7, <1>8, PartsAgain

(* The diagnosis stops at an opener.                                        *)
LEMMA DiagnoseOpenOK == IInv /\ DiagnoseOpen => IInv'
  <1> SUFFICES ASSUME IInv, DiagnoseOpen PROVE IInv'
    OBVIOUS
  <1>1. StackOK /\ ScanOK /\ FoundOK /\ StageOK
    BY Parts
  <1>2. Top.i \in Pos
    <2>1. InSlice(Cur)
      BY <1>1, CurType DEF DiagnoseOpen, Fails
    <2> QED
      BY <1>1, <2>1, TopType DEF InSlice
  <1>3. StackOK' /\ Len(walks') = 1 /\ walks' # <<>>
    BY <1>1, WholeTextOK DEF StageOK, DiagnoseOpen
  <1>4. ScanOK' /\ FoundOK' /\ StageOK'
    BY <1>1, <1>2, <1>3 DEF DiagnoseOpen, ScanOK, FoundOK, StageOK, IsOption
  <1> QED
    BY <1>3, <1>4, PartsAgain

(* What an expression adds is inside its braces.                            *)
LEMMA EntryType ==
  ASSUME NEW opener \in Pos, NEW to \in Pos, opener + 2 <= to, NEW e \in Entry(opener, to)
  PROVE  e \in Found /\ e.from < e.to /\ e.to <= to
  <1>1. opener + 2 \in Pos /\ opener + 2 \in Nat /\ to \in Nat
    BY DEF Pos
  <1>2. CASE e \in Candidate(opener + 2, to)
    <2>1. e \in [kind : {"spel_ref"}, from : opener + 2 .. to, to : opener + 2 .. to]
          /\ e.from < e.to
      BY <1>2 DEF Candidate
    <2>2. \A k \in opener + 2 .. to : k \in Pos /\ k <= to
      BY <1>1 DEF Pos
    <2> QED
      BY <2>1, <2>2 DEF Found
  <1>3. CASE e \in Key(opener + 2, to)
    <2>1. e \in [kind : {"placeholder"}, from : {opener + 2}, to : {to}] /\ opener + 2 < to
      BY <1>3 DEF Key
    <2> QED
      BY <1>1, <2>1 DEF Found
  <1> QED
    BY <1>2, <1>3 DEF Entry

(* The harvest adds what the expression gives, and descends into it.        *)
LEMMA HarvestClosedOK == IInv /\ HarvestClosed => IInv'
  <1> SUFFICES ASSUME IInv, HarvestClosed PROVE IInv'
    OBVIOUS
  <1> DEFINE s == Moved(Cur.j + 1)
             w == Inner(Top.i, Cur.j)
  <1>1. StackOK /\ ScanOK /\ FoundOK /\ StageOK
    BY Parts
  <1>2. /\ stage = "harvest" /\ scan # {} /\ Cur.j < Top.to
        /\ scan' = {} /\ UNCHANGED <<text, stage, open, stopped>>
        /\ walks' = IF Descends THEN Append(s, w) ELSE s
        /\ \/ UNCHANGED found
           \/ \E e \in Entry(Top.i, Cur.j) : found' = Append(found, Placed(e))
    BY DEF HarvestClosed, Closes
  <1>3. InSlice(Cur) /\ Cur.j \in Pos
    BY <1>1, <1>2, CurType
  <1>4. walks # <<>> /\ Top.i + 2 <= Cur.j
    BY <1>3 DEF InSlice
  <1>5. /\ Top.i \in Pos /\ Top.to \in Pos /\ Top.to <= Len(text) + 1
        /\ Len(walks) \in Nat /\ Len(walks) >= 1
    BY <1>1, <1>4, TopType
  <1>6. Len(text) \in Nat /\ Cur.j <= Len(text)
    <2>1. Len(text) \in Nat
      BY <1>1 DEF StageOK
    <2> QED
      BY <1>2, <1>3, <1>5, <2>1 DEF Pos
  <1>7. /\ Fits(s) /\ s # <<>> /\ Len(s) = Len(walks) /\ s[Len(walks)].i = Cur.j + 1
    <2>1. Cur.j \in Pos /\ Cur.j < Top.to /\ Top.i + 2 <= Cur.j /\ Top.i \in Pos /\ Top.to \in Pos
      BY <1>2, <1>3, <1>4, <1>5
    <2>2. Cur.j + 1 \in Pos /\ Top.i <= Cur.j + 1 /\ Cur.j + 1 <= Top.to
      BY <2>1 DEF Pos
    <2> QED
      BY <1>1, <1>4, <2>2, MovedFits
  <1>8. w \in Walk /\ w.i = Top.i + 2 /\ w.to = Cur.j /\ w.base = w.from
    BY <1>1, <1>3, <1>4, <1>5, InnerType
  <1> HIDE DEF s, w
  <1>9. StackOK' /\ walks' # <<>>
    <2>1. CASE Descends
      <3>1. Len(s) <= DepthLimit
        BY <1>5, <1>7, <2>1, ConstantsOK DEF Descends
      <3>2. w.i <= w.to /\ w.to < s[Len(s)].i
        BY <1>3, <1>4, <1>7, <1>8 DEF Pos
      <3>3. Fits(Append(s, w)) /\ Len(Append(s, w)) = Len(s) + 1
        BY <1>7, <1>8, <3>1, <3>2, CallFits
      <3>4. walks' = Append(s, w)
        BY <1>2, <2>1
      <3>5. StackOK'
        BY <1>2, <3>3, <3>4, StackAgain
      <3>6. walks' # <<>>
        <4>1. Len(walks') # 0
          BY <1>5, <1>7, <3>3, <3>4
        <4>2. Len(<<>>) = 0
          OBVIOUS
        <4> QED
          BY <4>1, <4>2
      <3> QED
        BY <3>5, <3>6
    <2>2. CASE ~Descends
      BY <1>2, <1>7, <2>2, StackAgain
    <2> QED
      BY <2>1, <2>2
  <1>10. FoundOK'
    <2>1. CASE UNCHANGED found
      BY <1>1, <1>2, <2>1 DEF FoundOK
    <2>2. ASSUME NEW e \in Entry(Top.i, Cur.j), found' = Append(found, Placed(e))
          PROVE  FoundOK'
      <3>1. e \in Found /\ e.from < e.to /\ e.to <= Len(text)
        <4>1. e \in Found /\ e.from < e.to /\ e.to <= Cur.j
          BY <1>3, <1>4, <1>5, EntryType
        <4> QED
          BY <1>3, <1>6, <4>1 DEF Pos, Found
      <3>2. /\ found' \in Seq(Found) /\ Len(found') = Len(found) + 1
            /\ \A k \in 1 .. Len(found) : found'[k] = found[k]
            /\ found'[Len(found) + 1] = e
        <4>1. found' = Append(found, e)
          BY <1>1, <1>4, <2>2, <3>1, PlacedIsSame
        <4> QED
          BY <1>1, <3>1, <4>1, AppendProperties DEF FoundOK
      <3>3. \A k \in 1 .. Len(found') : found'[k].from < found'[k].to /\ found'[k].to <= Len(text)
        BY <1>1, <3>1, <3>2 DEF FoundOK
      <3> QED
        BY <1>2, <3>2, <3>3 DEF FoundOK
    <2> QED
      BY <1>2, <2>1, <2>2
  <1>11. ScanOK' /\ StageOK'
    BY <1>1, <1>2, <1>9 DEF ScanOK, StageOK, IsOption
  <1> QED
    BY <1>9, <1>10, <1>11, PartsAgain

(* The harvest leaves a slice at an opener that does not close.             *)
LEMMA HarvestStopsOK == IInv /\ HarvestStops => IInv'
  <1> SUFFICES ASSUME IInv, HarvestStops PROVE IInv'
    OBVIOUS
  <1>1. StackOK /\ ScanOK /\ FoundOK /\ StageOK
    BY Parts
  <1>2. Top.i \in Pos
    <2>1. InSlice(Cur)
      BY <1>1, CurType DEF HarvestStops, Fails
    <2> QED
      BY <1>1, <2>1, TopType DEF InSlice
  <1>3. IsOption(stopped', Pos)
    BY <1>1, <1>2 DEF HarvestStops, StageOK, IsOption
  <1>4. StackOK' /\ StageOK'
    BY <1>1, <1>3, ReturnOK DEF HarvestStops
  <1>5. ScanOK' /\ FoundOK'
    BY <1>1 DEF HarvestStops, ScanOK, FoundOK, IsOption
  <1> QED
    BY <1>4, <1>5, PartsAgain
-----------------------------------------------------------------------------
(* The order of the entries.  FoundInOrder says nothing of what is still to *)
(* come; its strengthening says that every opener a call has yet to meet    *)
(* is behind the start of every entry, and either behind its end, or in a   *)
(* slice that the entry encloses.                                           *)
OpensAt(t, p) == t[p] \in Sigil /\ t[p + 1] = "{"

Clears(e, w, p) == e.from < p + 2 /\ (e.to <= p + 2 \/ w.to <= e.to)

Ahead(w, t, f) ==
  \A p \in Nat : w.i <= p /\ p + 1 < w.to /\ OpensAt(t, p) =>
    \A k \in 1 .. Len(f) : Clears(f[k], w, p)

Apart(e, d) == e.from < d.from /\ (d.from >= e.to \/ d.to <= e.to)

InOrder(f) == \A k, l \in 1 .. Len(f) : k < l => Apart(f[k], f[l])

Orderly ==
  /\ InOrder(found)
  /\ stage = "diagnose" => found = <<>>
  /\ \A k \in 1 .. Len(walks) : Ahead(walks[k], text, found)
  /\ scan # {} => OpensAt(text, Top.i)

(* The positions of slices and entries are numbers.                         *)
LEMMA WalkType ==
  ASSUME NEW w \in Walk
  PROVE  w.i \in Nat /\ w.to \in Nat
  BY DEF Walk, Pos

LEMMA FoundType ==
  ASSUME NEW e \in Found
  PROVE  e.from \in Nat /\ e.to \in Nat
  BY DEF Found, Pos

(* A later part of a slice has no other openers.                            *)
LEMMA AheadMore ==
  ASSUME NEW t, NEW f \in Seq(Found), NEW w \in Walk, NEW v \in Walk,
         w.i <= v.i, v.to <= w.to, Ahead(w, t, f)
  PROVE  Ahead(v, t, f)
  <1>1. w.i \in Nat /\ v.i \in Nat /\ w.to \in Nat /\ v.to \in Nat
    BY WalkType
  <1>2. SUFFICES ASSUME NEW p \in Nat, v.i <= p, p + 1 < v.to, OpensAt(t, p),
                        NEW k \in 1 .. Len(f)
                 PROVE  Clears(f[k], v, p)
    BY DEF Ahead
  <1>3. w.i <= p /\ p + 1 < w.to
    BY <1>1, <1>2
  <1>4. Clears(f[k], w, p)
    BY <1>2, <1>3 DEF Ahead
  <1>5. f[k].to \in Nat
    BY FoundType, ElementOfSeq
  <1> QED
    BY <1>1, <1>4, <1>5 DEF Clears

(* One more entry.                                                          *)
LEMMA AheadAppend ==
  ASSUME NEW t, NEW f \in Seq(Found), NEW e \in Found, NEW w, Ahead(w, t, f),
         \A p \in Nat : w.i <= p /\ p + 1 < w.to /\ OpensAt(t, p) => Clears(e, w, p)
  PROVE  Ahead(w, t, Append(f, e))
  <1>1. /\ Len(f) \in Nat /\ Len(Append(f, e)) = Len(f) + 1
        /\ \A k \in 1 .. Len(f) : Append(f, e)[k] = f[k]
        /\ Append(f, e)[Len(f) + 1] = e
    BY AppendProperties
  <1>2. SUFFICES ASSUME NEW p \in Nat, w.i <= p, p + 1 < w.to, OpensAt(t, p),
                        NEW k \in 1 .. Len(f) + 1
                 PROVE  Clears(Append(f, e)[k], w, p)
    BY <1>1 DEF Ahead
  <1>3. CASE k = Len(f) + 1
    BY <1>1, <1>2, <1>3
  <1>4. CASE k # Len(f) + 1
    <2>1. k \in 1 .. Len(f)
      BY <1>1, <1>4
    <2> QED
      BY <1>1, <1>2, <2>1 DEF Ahead
  <1> QED
    BY <1>3, <1>4

LEMMA OrderAppend ==
  ASSUME NEW f \in Seq(Found), NEW e \in Found, InOrder(f),
         \A k \in 1 .. Len(f) : Apart(f[k], e)
  PROVE  InOrder(Append(f, e))
  <1>1. /\ Len(f) \in Nat /\ Len(Append(f, e)) = Len(f) + 1
        /\ \A k \in 1 .. Len(f) : Append(f, e)[k] = f[k]
        /\ Append(f, e)[Len(f) + 1] = e
    BY AppendProperties
  <1>2. SUFFICES ASSUME NEW k \in 1 .. Len(f) + 1, NEW l \in 1 .. Len(f) + 1, k < l
                 PROVE  Apart(Append(f, e)[k], Append(f, e)[l])
    BY <1>1 DEF InOrder
  <1>3. k \in 1 .. Len(f) /\ Append(f, e)[k] = f[k]
    BY <1>1, <1>2
  <1>4. CASE l = Len(f) + 1
    BY <1>1, <1>3, <1>4
  <1>5. CASE l # Len(f) + 1
    <2>1. l \in 1 .. Len(f) /\ Append(f, e)[l] = f[l]
      BY <1>1, <1>5
    <2> QED
      BY <1>2, <1>3, <2>1 DEF InOrder
  <1> QED
    BY <1>4, <1>5

(* The openers in an expression are behind its identifier or inside its     *)
(* placeholder.                                                             *)
LEMMA EntryAhead ==
  ASSUME NEW o \in Pos, NEW j \in Pos, o + 2 <= j, NEW e \in Entry(o, j),
         NEW w, w.to = j, NEW p \in Nat, o + 2 <= p, p + 1 < j, OpensAt(text, p)
  PROVE  Clears(e, w, p)
  <1>1. o \in Nat /\ j \in Nat
    BY DEF Pos
  <1>2. CASE e \in Candidate(o + 2, j)
    <2>1. e \in [kind : {"spel_ref"}, from : o + 2 .. j, to : o + 2 .. j]
      BY <1>2 DEF Candidate
    <2>2. e.from \in o + 2 .. j /\ e.to \in o + 2 .. j
      BY <2>1
    <2>3. \A k \in o + 2 .. e.from - 1 : text[k] = " "
      BY <1>2 DEF Candidate
    <2>4. \A k \in e.from .. e.to - 1 : text[k] \in Ident
      BY <1>2 DEF Candidate
    <2>5. e.from <= p
      <3>1. text[p] # " "
        BY DEF OpensAt, Sigil
      <3>2. ~(p \in o + 2 .. e.from - 1)
        BY <2>3, <3>1
      <3> QED
        BY <1>1, <2>2, <3>2
    <2>6. e.to <= p + 1
      <3>1. text[p + 1] \notin Ident
        BY DEF OpensAt, Ident, Start
      <3>2. ~(p + 1 \in e.from .. e.to - 1)
        BY <2>4, <3>1
      <3> QED
        BY <1>1, <2>2, <2>5, <3>2
    <2> QED
      BY <1>1, <2>2, <2>5, <2>6 DEF Clears
  <1>3. CASE e \in Key(o + 2, j)
    <2>1. e.from = o + 2 /\ e.to = j
      BY <1>3 DEF Key
    <2> QED
      BY <1>1, <2>1 DEF Clears
  <1> QED
    BY <1>2, <1>3 DEF Entry

(* The calls are where they were, or further on.                            *)
Later(s) ==
  \A k \in 1 .. Len(s) : \E l \in 1 .. Len(walks) :
    s[k].to = walks[l].to /\ walks[l].i <= s[k].i

LEMMA OrderlyOnward ==
  ASSUME IInv, IInv', Orderly, UNCHANGED <<text, found>>, Later(walks'),
         stage' = "diagnose" => stage = "diagnose",
         scan' # {} => OpensAt(text', Top'.i)
  PROVE  Orderly'
  <1>1. walks \in Seq(Walk) /\ walks' \in Seq(Walk) /\ found \in Seq(Found)
    BY DEF IInv, TypeOK
  <1>2. ASSUME NEW k \in 1 .. Len(walks')
        PROVE  Ahead(walks'[k], text, found)
    <2>1. PICK l \in 1 .. Len(walks) : walks'[k].to = walks[l].to /\ walks[l].i <= walks'[k].i
      BY DEF Later
    <2>2. walks[l] \in Walk /\ walks'[k] \in Walk
      BY <1>1, ElementOfSeq
    <2>3. walks'[k].to <= walks[l].to
      BY <2>1, <2>2, WalkType
    <2>4. Ahead(walks[l], text, found)
      BY DEF Orderly
    <2> QED
      BY <1>1, <2>1, <2>2, <2>3, <2>4, AheadMore
  <1> QED
    BY <1>2 DEF Orderly

(* A walk goes on, a call returns, a scan goes on.                          *)
LEMMA OnwardLater ==
  ASSUME StackOK, walks # <<>>, NEW w, w.to = Top.to, Top.i <= w.i
  PROVE  Later(WithTop(w))
  <1>1. Len(walks) \in 1 .. Len(walks)
    BY TopType
  <1>2. walks \in Seq(Walk)
    BY DEF StackOK, Fits
  <1>3. /\ Len(WithTop(w)) = Len(walks)
        /\ \A k \in 1 .. Len(walks) : WithTop(w)[k] = IF k = Len(walks) THEN w ELSE walks[k]
    BY <1>1, <1>2 DEF WithTop
  <1> SUFFICES ASSUME NEW k \in 1 .. Len(walks)
               PROVE  \E l \in 1 .. Len(walks) :
                        WithTop(w)[k].to = walks[l].to /\ walks[l].i <= WithTop(w)[k].i
    BY <1>3 DEF Later
  <1>4. CASE k = Len(walks)
    BY <1>1, <1>3, <1>4 DEF Top
  <1>5. CASE k # Len(walks)
    <2>1. walks[k] \in Walk
      BY <1>2, ElementOfSeq
    <2>2. walks[k].i <= walks[k].i
      BY <2>1, WalkType
    <2> QED
      BY <1>3, <1>5, <2>2
  <1> QED
    BY <1>4, <1>5

LEMMA RestLater ==
  ASSUME StackOK, walks # <<>>
  PROVE  Later(Rest)
  <1>1. walks \in Seq(Walk) /\ Len(walks) \in Nat
    BY DEF StackOK, Fits
  <1>2. Len(Rest) = Len(walks) - 1 /\ \A k \in 1 .. Len(walks) - 1 : Rest[k] = walks[k]
    BY <1>1, RemoveLast DEF Rest
  <1> SUFFICES ASSUME NEW k \in 1 .. Len(walks) - 1
               PROVE  \E l \in 1 .. Len(walks) :
                        Rest[k].to = walks[l].to /\ walks[l].i <= Rest[k].i
    BY <1>2 DEF Later
  <1>3. k \in 1 .. Len(walks)
    BY <1>1
  <1>4. walks[k].i <= walks[k].i
    BY <1>1, <1>3, ElementOfSeq, WalkType
  <1> QED
    BY <1>2, <1>3, <1>4

LEMMA SameLater ==
  ASSUME StackOK
  PROVE  Later(walks)
  <1>1. walks \in Seq(Walk)
    BY DEF StackOK, Fits
  <1>2. \A k \in 1 .. Len(walks) : walks[k].i <= walks[k].i
    BY <1>1, ElementOfSeq, WalkType
  <1> QED
    BY <1>2 DEF Later

LEMMA WalksOrderly == IInv /\ IInv' /\ Orderly /\ Walks => Orderly'
  <1> SUFFICES ASSUME IInv, IInv', Orderly, Walks PROVE Orderly'
    OBVIOUS
  <1>1. StackOK /\ StageOK
    BY Parts
  <1>2. CASE WalkByte
    <2> DEFINE w == [Top EXCEPT !.i = Top.i + 1]
    <2>1. walks # <<>>
      BY <1>1, <1>2 DEF WalkByte, StageOK
    <2>2. w.to = Top.to /\ w.i = Top.i + 1 /\ Top.i \in Nat
      BY <1>1, <2>1, TopType DEF Walk, Pos
    <2>3. walks' = WithTop(w) /\ UNCHANGED <<text, found, stage>> /\ scan' = {}
      BY <1>2 DEF WalkByte, Moved
    <2> HIDE DEF w
    <2>4. Later(walks')
      BY <1>1, <2>1, <2>2, <2>3, OnwardLater
    <2> QED
      BY <2>3, <2>4, OrderlyOnward
  <1>3. CASE WalkQuote \/ WalkQuoted
    <2>1. walks # <<>> /\ UNCHANGED <<text, found, stage>> /\ scan' = {}
      BY <1>1, <1>3 DEF WalkQuote, WalkQuoted, Walking, StageOK
    <2>2. PICK q : walks' = WithTop([Top EXCEPT !.i = @ + 1, !.quote = q])
      BY <1>3 DEF WalkQuote, WalkQuoted
    <2> DEFINE w == [Top EXCEPT !.i = @ + 1, !.quote = q]
    <2>3. w.to = Top.to /\ w.i = Top.i + 1 /\ Top.i \in Nat
      BY <1>1, <2>1, TopType DEF Walk, Pos
    <2>4. walks' = WithTop(w)
      BY <2>2
    <2> HIDE DEF w
    <2>5. Later(walks')
      BY <1>1, <2>1, <2>3, <2>4, OnwardLater
    <2> QED
      BY <2>1, <2>5, OrderlyOnward
  <1>4. CASE WalkOpener
    <2>1. UNCHANGED <<text, found, stage, walks>>
      BY <1>4 DEF WalkOpener
    <2>2. Later(walks')
      BY <1>1, <2>1, SameLater
    <2>3. OpensAt(text', Top'.i)
      BY <1>4, <2>1 DEF WalkOpener, OpenerAt, OpensAt, Top
    <2> QED
      BY <2>1, <2>2, <2>3, OrderlyOnward
  <1>5. CASE DiagnoseEnd
    <2>1. found' = <<>> /\ stage' = "harvest" /\ scan' = {}
      BY <1>5 DEF DiagnoseEnd, Walking, Orderly
    <2> QED
      BY <2>1 DEF Orderly, InOrder, Ahead
  <1>6. CASE HarvestEnd
    <2>1. /\ UNCHANGED <<text, found>> /\ walks # <<>> /\ walks' = Rest /\ scan' = {}
          /\ stage' = "diagnose" => stage = "diagnose"
      BY <1>1, <1>6 DEF HarvestEnd, Walking, Return, StageOK
    <2>2. Later(walks')
      BY <1>1, <2>1, RestLater
    <2> QED
      BY <2>1, <2>2, OrderlyOnward
  <1> QED
    BY <1>2, <1>3, <1>4, <1>5, <1>6 DEF Walks

LEMMA ScansOrderly == IInv /\ IInv' /\ Orderly /\ Scans => Orderly'
  <1> SUFFICES ASSUME IInv, IInv', Orderly, Scans PROVE Orderly'
    OBVIOUS
  <1>1. UNCHANGED <<text, found, stage, walks>>
    BY DEF Scans, ScanQuoted, ScanNested, ScanQuote, ScanBrace, ScanCloseBrace,
           ScanCloseNested, ScanByte, OneByte, Scanning
  <1>2. Later(walks')
    BY <1>1, Parts, SameLater
  <1>3. scan # {}
    BY DEF Scans, ScanQuoted, ScanNested, ScanQuote, ScanBrace, ScanCloseBrace,
           ScanCloseNested, ScanByte, OneByte, Scanning
  <1>4. OpensAt(text', Top'.i)
    BY <1>1, <1>3 DEF Orderly, Top
  <1> QED
    BY <1>1, <1>2, <1>4, OrderlyOnward

(* What is behind an entry it does not hinder.                              *)
LEMMA BehindClears ==
  ASSUME NEW e \in Found, e.from < e.to, NEW w \in Walk, e.to <= w.i,
         NEW p \in Nat, w.i <= p
  PROVE  Clears(e, w, p)
  <1>1. e.from \in Nat /\ e.to \in Nat /\ w.i \in Nat
    BY FoundType, WalkType
  <1> QED
    BY <1>1 DEF Clears

LEMMA ReturnsOrderly == IInv /\ IInv' /\ Orderly /\ Returns => Orderly'
  <1> SUFFICES ASSUME IInv, IInv', Orderly, Returns PROVE Orderly'
    OBVIOUS
  <1>1. /\ StackOK /\ ScanOK /\ StageOK
        /\ walks \in Seq(Walk) /\ walks' \in Seq(Walk) /\ found \in Seq(Found)
    BY Parts DEF IInv, TypeOK
  <1> DEFINE o == Top.i
             j == Cur.j
  <1>2. scan # {} /\ scan' = {} /\ UNCHANGED text
    BY DEF Returns, DiagnoseClosed, DiagnoseOpen, HarvestClosed, HarvestStops, Closes, Fails
  <1>3. /\ walks # <<>> /\ o \in Pos /\ j \in Pos /\ Top.to \in Pos /\ Top \in Walk
        /\ o + 2 <= j /\ j <= Top.to
    <2>1. InSlice(Cur) /\ j \in Pos
      BY <1>1, <1>2, CurType
    <2> QED
      BY <1>1, <2>1, TopType DEF InSlice
  <1>4. o \in Nat /\ j \in Nat /\ Top.to \in Nat
    BY <1>3 DEF Pos
  <1>5. CASE DiagnoseClosed \/ DiagnoseOpen
    <2>1. found' = <<>>
      BY <1>5 DEF DiagnoseClosed, DiagnoseOpen, Orderly
    <2> QED
      BY <1>2, <2>1 DEF Orderly, InOrder, Ahead
  <1>6. CASE HarvestStops
    <2>1. /\ UNCHANGED found /\ walks' = Rest
          /\ stage' = "diagnose" => stage = "diagnose"
      BY <1>6 DEF HarvestStops, Return
    <2>2. Later(walks')
      BY <1>1, <1>3, <2>1, RestLater
    <2> QED
      BY <1>2, <2>1, <2>2, OrderlyOnward
  <1>7. CASE HarvestClosed
    <2> DEFINE s == Moved(j + 1)
               v == Inner(o, j)
    <2>1. /\ j < Top.to /\ stage' = "harvest"
          /\ walks' = IF Descends THEN Append(s, v) ELSE s
          /\ \/ UNCHANGED found
             \/ \E e \in Entry(o, j) : found' = Append(found, Placed(e))
      BY <1>7 DEF HarvestClosed, Closes
    <2>2. v \in Walk /\ v.i = o + 2 /\ v.to = j
      BY <1>1, <1>3, InnerType
    <2>3. /\ s \in Seq(Walk) /\ s # <<>> /\ Len(s) = Len(walks)
          /\ s[Len(walks)].i = j + 1 /\ Len(walks) \in Nat /\ Len(walks) >= 1
      <3>1. j + 1 \in Pos /\ o <= j + 1 /\ j + 1 <= Top.to
        BY <1>3, <1>4, <2>1 DEF Pos
      <3> QED
        BY <1>1, <1>3, <3>1, MovedFits, TopType DEF Fits
    <2>4. \A k \in 1 .. Len(walks) : k # Len(walks) => s[k] = walks[k]
      BY <1>1, <2>3 DEF Moved, WithTop
    <2>5. Later(s)
      <3> DEFINE w == [Top EXCEPT !.i = j + 1]
      <3>1. w.to = Top.to /\ Top.i <= w.i /\ s = WithTop(w)
        BY <1>3, <1>4 DEF Moved, Walk
      <3> HIDE DEF s, w
      <3> QED
        BY <1>1, <1>3, <3>1, OnwardLater
    <2> HIDE DEF s, v
    (* The calls of walks' are the old ones, further on, and the new one.   *)
    <2>6. \A k \in 1 .. Len(walks') : walks'[k] = v \/ \E l \in 1 .. Len(s) : walks'[k] = s[l]
      <3>1. CASE Descends
        <4>1. /\ Len(walks') = Len(s) + 1
              /\ \A k \in 1 .. Len(s) : walks'[k] = s[k]
              /\ walks'[Len(s) + 1] = v
          BY <2>1, <2>2, <2>3, <3>1, AppendProperties
        <4> QED
          BY <2>3, <4>1
      <3>2. CASE ~Descends
        BY <2>1, <3>2
      <3> QED
        BY <3>1, <3>2
    <2>7. Ahead(Top, text, found)
      <3>1. Len(walks) \in 1 .. Len(walks)
        BY <2>3
      <3> QED
        BY <3>1 DEF Orderly, Top
    <2>8. Ahead(v, text, found)
      <3>1. Top.i <= v.i /\ v.to <= Top.to
        BY <1>3, <1>4, <2>2
      <3> QED
        BY <1>1, <1>3, <2>2, <2>7, <3>1, AheadMore
    <2>9. ASSUME NEW k \in 1 .. Len(s)
          PROVE  Ahead(s[k], text, found)
      <3>1. PICK l \in 1 .. Len(walks) : s[k].to = walks[l].to /\ walks[l].i <= s[k].i
        BY <2>5 DEF Later
      <3>2. walks[l] \in Walk /\ s[k] \in Walk
        BY <1>1, <2>3, ElementOfSeq
      <3>3. s[k].to <= walks[l].to
        BY <3>1, <3>2, WalkType
      <3>4. Ahead(walks[l], text, found)
        BY DEF Orderly
      <3> QED
        BY <1>1, <3>1, <3>2, <3>3, <3>4, AheadMore
    <2>10. \A k \in 1 .. Len(walks') : Ahead(walks'[k], text, found)
      BY <2>6, <2>8, <2>9
    <2>11. CASE UNCHANGED found
      BY <1>2, <2>1, <2>10, <2>11 DEF Orderly
    <2>12. ASSUME NEW e \in Entry(o, j), found' = Append(found, Placed(e))
           PROVE  Orderly'
      <3>1. e \in Found /\ e.from < e.to /\ e.to <= j /\ o + 2 <= e.from
        <4>1. e \in Found /\ e.from < e.to /\ e.to <= j
          BY <1>3, EntryType
        <4>2. o + 2 <= e.from
          <5>1. CASE e \in Candidate(o + 2, j)
            <6>1. e \in [kind : {"spel_ref"}, from : o + 2 .. j, to : o + 2 .. j]
              BY <5>1 DEF Candidate
            <6>2. e.from \in o + 2 .. j
              BY <6>1
            <6> QED
              BY <1>4, <6>2
          <5>2. CASE e \in Key(o + 2, j)
            <6>1. e.from = o + 2
              BY <5>2 DEF Key
            <6> QED
              BY <1>4, <6>1
          <5> QED
            BY <5>1, <5>2 DEF Entry
        <4> QED
          BY <4>1, <4>2
      <3>2. e.from \in Nat /\ e.to \in Nat
        BY <3>1, FoundType
      <3>3. found' = Append(found, e)
        BY <1>1, <1>3, <2>12, <3>1, PlacedIsSame
      <3>4. ASSUME NEW k \in 1 .. Len(found)
            PROVE  Apart(found[k], e)
        <4>1. OpensAt(text, o)
          BY <1>2 DEF Orderly
        <4>2. Top.i <= o /\ o + 1 < Top.to
          BY <1>3, <1>4, <2>1
        <4>3. Clears(found[k], Top, o)
          BY <1>4, <2>7, <4>1, <4>2 DEF Ahead
        <4>4. found[k].from \in Nat /\ found[k].to \in Nat
          BY <1>1, ElementOfSeq, FoundType
        <4>5. found[k].from < o + 2 /\ (found[k].to <= o + 2 \/ Top.to <= found[k].to)
          BY <4>3 DEF Clears
        <4>6. e.to <= j /\ o + 2 <= e.from /\ j < Top.to
          BY <2>1, <3>1
        <4> HIDE DEF o, j
        <4>7. found[k].from < e.from
          BY <1>4, <3>2, <4>4, <4>5, <4>6
        <4>8. e.from >= found[k].to \/ e.to <= found[k].to
          BY <1>4, <3>2, <4>4, <4>5, <4>6
        <4> QED
          BY <4>7, <4>8 DEF Apart
      <3>5. InOrder(found')
        BY <1>1, <3>1, <3>4, <3>3, OrderAppend DEF Orderly
      <3>6. ASSUME NEW p \in Nat, v.i <= p, p + 1 < v.to, OpensAt(text, p)
            PROVE  Clears(e, v, p)
        BY <1>3, <2>2, <2>12, <3>6, EntryAhead
      <3>7. ASSUME NEW k \in 1 .. Len(s), NEW p \in Nat, s[k].i <= p
            PROVE  Clears(e, s[k], p)
        <4>1. s[k] \in Walk /\ s[k].i \in Nat
          BY <2>3, ElementOfSeq, WalkType
        <4>2. CASE k = Len(walks)
          <5>1. e.to <= s[k].i
            BY <1>4, <2>3, <3>1, <3>2, <4>2
          <5> QED
            BY <3>1, <3>7, <4>1, <5>1, BehindClears
        <4>3. CASE k # Len(walks)
          <5>1. k \in 1 .. Len(walks) /\ k < Len(walks) /\ Len(walks) \in 1 .. Len(walks)
            BY <2>3, <4>3
          <5>2. s[k] = walks[k] /\ Top.to < walks[k].i
            BY <1>1, <2>4, <5>1 DEF StackOK, Fits, Top
          <5>3. e.to <= s[k].i
            <6>1. e.to <= j /\ j < Top.to /\ Top.to < s[k].i
              BY <2>1, <3>1, <5>2
            <6> HIDE DEF j
            <6> QED
              BY <1>4, <3>2, <4>1, <6>1
          <5> QED
            BY <3>1, <3>7, <4>1, <5>3, BehindClears
        <4> QED
          BY <4>2, <4>3
      <3>8. ASSUME NEW k \in 1 .. Len(walks')
            PROVE  Ahead(walks'[k], text, found')
        <4>1. \A p \in Nat : walks'[k].i <= p /\ p + 1 < walks'[k].to /\ OpensAt(text, p)
                => Clears(e, walks'[k], p)
          BY <2>6, <3>6, <3>7
        <4> QED
          BY <1>1, <2>10, <3>1, <3>3, <4>1, AheadAppend
      <3> QED
        BY <1>2, <2>1, <3>5, <3>8 DEF Orderly
    <2> QED
      BY <2>1, <2>11, <2>12
  <1> QED
    BY <1>5, <1>6, <1>7 DEF Returns
-----------------------------------------------------------------------------
(* The two passes keep the invariant, whatever the text is.                 *)
THEOREM Invariance == Spec => []IInv
  <1>1. Init => IInv
    BY InitOK
  <1>2. IInv /\ [Next]_vars => IInv'
    <2> SUFFICES ASSUME IInv, [Next]_vars PROVE IInv'
      OBVIOUS
    <2>1. CASE Walks
      BY <2>1, WalkByteOK, WalkOpenerOK, WalkQuoteOK, DiagnoseEndOK, HarvestEndOK DEF Walks
    <2>2. CASE Scans
      BY <2>2, ScanByteOK, ScanNestedOK, ScanCloseNestedOK DEF Scans
    <2>3. CASE Returns
      BY <2>3, DiagnoseClosedOK, DiagnoseOpenOK, HarvestClosedOK, HarvestStopsOK DEF Returns
    <2>4. CASE UNCHANGED vars
      <3>1. StackOK /\ ScanOK /\ FoundOK /\ StageOK
        BY Parts
      <3>2. UNCHANGED <<text, stage, walks, scan, open, stopped, found>>
        BY <2>4 DEF vars
      <3>3. StackOK' /\ ScanOK' /\ FoundOK' /\ StageOK'
        BY <3>1, <3>2 DEF StackOK, Fits, ScanOK, FoundOK, StageOK, IsOption, InSlice, Top
      <3> QED
        BY <3>3, PartsAgain
    <2> QED
      BY <2>1, <2>2, <2>3, <2>4 DEF Next
  <1> QED
    BY <1>1, <1>2, PTL DEF Spec

(* Every state of the passes is well typed.                                 *)
THEOREM TypeCorrect == Spec => []TypeOK
  <1>1. IInv => TypeOK
    BY DEF IInv
  <1> QED
    BY <1>1, Invariance, PTL

(* The levels one scan keeps and the calls of the recursive harvest are     *)
(* bounded by the limit, for every text: pathological nesting grows neither *)
(* the heap nor the stack.                                                  *)
THEOREM DepthIsBounded == Spec => []DepthBounded
  <1>1. IInv => DepthBounded
    BY DEF IInv
  <1> QED
    BY <1>1, Invariance, PTL

(* No cursor leaves its slice, no slice its caller's, and no entry the      *)
(* text: no index of the two functions is out of bounds.                    *)
THEOREM SlicesAlwaysNest == Spec => []SlicesNest
  <1>1. IInv => SlicesNest
    BY DEF IInv
  <1> QED
    BY <1>1, Invariance, PTL

(* The entries are found in the order of the text, and those of nested      *)
(* expressions lie inside what encloses them, for every text.               *)
THEOREM FoundAlwaysInOrder == Spec => []FoundInOrder
  <1>1. Init => Orderly
    BY DEF Init, Orderly, InOrder, Ahead
  <1>2. IInv /\ IInv' /\ Orderly /\ [Next]_vars => Orderly'
    <2> SUFFICES ASSUME IInv, IInv', Orderly, [Next]_vars PROVE Orderly'
      OBVIOUS
    <2>1. CASE UNCHANGED vars
      BY <2>1 DEF vars, Orderly, Top
    <2> QED
      BY <2>1, WalksOrderly, ScansOrderly, ReturnsOrderly DEF Next
  <1>3. Orderly => FoundInOrder
    BY DEF Orderly, InOrder, Apart, FoundInOrder
  <1> QED
    BY <1>1, <1>2, <1>3, Invariance, PTL DEF Spec
-----------------------------------------------------------------------------
(* One scan, as a function: where it goes from a state in the text x, in a  *)
(* slice that ends at to.                                                   *)
OpensIn(x, p, to) == p + 1 < to /\ OpensAt(x, p)
LevelAt(x, o)     == [aware |-> x[o] = "#", depth |-> 1, quote |-> {}]
From(x, o)        == [j |-> o + 2, level |-> LevelAt(x, o), parents |-> <<>>]

Reading(s, l) == [j |-> s.j + 1, level |-> l, parents |-> s.parents]
Nested(x, s)  == [j |-> s.j + 2, level |-> LevelAt(x, s.j), parents |-> Append(s.parents, s.level)]
Back(s)       == [j |-> s.j + 1, level |-> s.parents[Len(s.parents)],
                  parents |-> SubSeq(s.parents, 1, Len(s.parents) - 1)]

Opening == "{"
Closing == "}"

(* What the level at hand is after a byte that neither opens nor closes one.*)
LevelAfter(l, c) ==
  IF l.quote # {} THEN [l EXCEPT !.quote = @ \ {c}]
  ELSE IF l.aware /\ c \in Quote THEN [l EXCEPT !.quote = {c}]
  ELSE IF c = Opening THEN [l EXCEPT !.depth = @ + 1]
  ELSE IF c = Closing THEN [l EXCEPT !.depth = @ - 1]
  ELSE l

Unquoted(s)     == s.level.quote = {}
Nests(x, s, to) == Unquoted(s) /\ OpensIn(x, s.j, to)
Leaves(x, s)    == Unquoted(s) /\ ~OpensAt(x, s.j) /\ x[s.j] = Closing /\ ~(s.level.depth > 1)

StepOf(x, s, to) ==
  IF Nests(x, s, to) THEN Nested(x, s)
  ELSE IF Leaves(x, s) THEN Back(s)
  ELSE Reading(s, LevelAfter(s.level, x[s.j]))

FailsAt(x, s, to)  == s.j >= to \/ (Nests(x, s, to) /\ Len(s.parents) >= DepthLimit)
ClosesAt(x, s, to) == s.j < to /\ Leaves(x, s) /\ s.parents = <<>>

(* A set of states is the run of a scan up to the state z.                  *)
Runs(R, x, o, to, z) ==
  /\ R \subseteq Scan /\ z \in R /\ From(x, o) \in R
  /\ \A s \in R : s = z \/ /\ s.j < z.j /\ ~FailsAt(x, s, to) /\ ~ClosesAt(x, s, to)
                           /\ StepOf(x, s, to) \in R

(* A run that has found its closing brace.                                  *)
Whole(R, x, o, to, z) == Runs(R, x, o, to, z) /\ ClosesAt(x, z, to)

(* A brace is neither a quote nor a sigil, and a sigil is no quote.         *)
LEMMA CharFacts ==
  /\ Opening # Closing /\ Opening \notin Quote /\ Closing \notin Quote
  /\ Opening \notin Sigil /\ Closing \notin Sigil
  /\ \A c \in Sigil : c \notin Quote
  BY DEF Opening, Closing, Quote, Sigil

(* An opener does not close.                                                *)
LEMMA OpenerFacts ==
  ASSUME NEW x, NEW p, OpensAt(x, p)
  PROVE  x[p] \in Sigil /\ x[p + 1] = Opening /\ x[p] # Closing /\ x[p] # Opening /\ x[p] \notin Quote
  <1>1. x[p] \in Sigil /\ x[p + 1] = Opening
    BY DEF OpensAt, Opening
  <1> QED
    BY <1>1, CharFacts

(* The fields of a state of a scan.                                         *)
LEMMA ScanFields ==
  ASSUME NEW s \in Scan
  PROVE  /\ s.j \in Nat /\ s.j \in Pos /\ s.level \in Level /\ s.parents \in Seq(Level)
         /\ Len(s.parents) \in Nat /\ s.level.depth \in Nat /\ s.level.depth >= 1
         /\ s = [j |-> s.j, level |-> s.level, parents |-> s.parents]
  BY DEF Scan, Level, Pos

(* A scan goes on behind what it has read.                                  *)
LEMMA StepMoves ==
  ASSUME NEW x, NEW s \in Scan, NEW to
  PROVE  StepOf(x, s, to).j = s.j + 1 \/ StepOf(x, s, to).j = s.j + 2
  BY DEF StepOf, Nested, Back, Reading

(* A scan is a run of one state when it begins ...                          *)
LEMMA RunStarts ==
  ASSUME NEW x, NEW o, NEW to, From(x, o) \in Scan
  PROVE  \E R : Runs(R, x, o, to, From(x, o))
  <1>1. Runs({From(x, o)}, x, o, to, From(x, o))
    BY DEF Runs
  <1> QED
    BY <1>1

(* ... and every step adds one.                                             *)
LEMMA RunGrows ==
  ASSUME NEW x, NEW o, NEW to, NEW z, NEW R, Runs(R, x, o, to, z),
         ~FailsAt(x, z, to), ~ClosesAt(x, z, to), StepOf(x, z, to) \in Scan
  PROVE  \E T : Runs(T, x, o, to, StepOf(x, z, to))
  <1> DEFINE u == StepOf(x, z, to)
             T == R \cup {u}
  <1>1. z \in Scan /\ u \in Scan
    BY DEF Runs
  <1>2. z.j \in Nat /\ u.j \in Nat
    BY <1>1, ScanFields
  <1>3. z.j < u.j
    BY <1>1, <1>2, StepMoves
  <1> HIDE DEF u
  <1>4. ASSUME NEW s \in T, s # u
        PROVE  s.j < u.j /\ ~FailsAt(x, s, to) /\ ~ClosesAt(x, s, to) /\ StepOf(x, s, to) \in T
    <2>1. s \in R
      BY <1>4
    <2>2. CASE s = z
      BY <1>3, <2>2 DEF u
    <2>3. CASE s # z
      <3>1. s.j < z.j /\ ~FailsAt(x, s, to) /\ ~ClosesAt(x, s, to) /\ StepOf(x, s, to) \in R
        BY <2>1, <2>3 DEF Runs
      <3>2. s.j \in Nat
        BY <2>1, ScanFields DEF Runs
      <3>3. s.j < u.j
        BY <1>2, <1>3, <3>1, <3>2
      <3> QED
        BY <3>1, <3>3
    <2> QED
      BY <2>2, <2>3
  <1>5. Runs(T, x, o, to, u)
    BY <1>1, <1>4 DEF Runs
  <1> QED
    BY <1>5 DEF u

(* A run does not go on from its end, and goes on from everywhere else.     *)
LEMMA RunGoesOn ==
  ASSUME NEW x, NEW o, NEW to, NEW z, NEW R, Runs(R, x, o, to, z), NEW s \in R,
         ~(FailsAt(x, s, to) /\ s = z), ~(ClosesAt(x, s, to) /\ s = z),
         FailsAt(x, z, to) \/ ClosesAt(x, z, to)
  PROVE  /\ s # z /\ s.j < z.j /\ ~FailsAt(x, s, to) /\ ~ClosesAt(x, s, to)
         /\ StepOf(x, s, to) \in R
  BY DEF Runs
-----------------------------------------------------------------------------
(* A walk inside a closed expression follows the run that has closed it: it *)
(* is where the run was at the expression's own level, and its scans are    *)
(* what the run was one level further in.                                   *)
At(w, s) == /\ s.j = w.i /\ s.parents = <<>>
            /\ s.level.aware = w.aware /\ s.level.quote = w.quote

Put(l, ps)  == <<l>> \o ps
Under(s, l) == [j |-> s.j, level |-> s.level, parents |-> Put(l, s.parents)]

(* The walk w, with the scan it has called if it has called one, follows    *)
(* the run R of the expression at o.                                        *)
Follows(R, x, o, to, z, w, c) ==
  /\ Whole(R, x, o, to, z) /\ to \in Nat /\ w.to = z.j
  /\ c = {} => \E s \in R : At(w, s)
  /\ \A u \in c : /\ w.quote = {}
                  /\ \E l \in Level : l.quote = {} /\ l.aware = w.aware /\ Under(u, l) \in R

Inside(x, w, c) == \E R, o, to, z : Follows(R, x, o, to, z, w, c)

(* The parents of a run, without the outermost.                             *)
LEMMA UnderParents ==
  ASSUME NEW l \in Level, NEW ps \in Seq(Level), NEW k \in Level
  PROVE  /\ Put(l, ps) # <<>>
         /\ Append(Put(l, ps), k) = Put(l, Append(ps, k))
         /\ ps = <<>> => /\ Put(l, ps)[Len(Put(l, ps))] = l
                         /\ SubSeq(Put(l, ps), 1, Len(Put(l, ps)) - 1) = <<>>
         /\ ps # <<>> => /\ Put(l, ps)[Len(Put(l, ps))] = ps[Len(ps)]
                         /\ SubSeq(Put(l, ps), 1, Len(Put(l, ps)) - 1)
                              = Put(l, SubSeq(ps, 1, Len(ps) - 1))
  <1> DEFINE t == <<l>> \o ps
             n == Len(ps)
  <1>1. /\ t \in Seq(Level) /\ n \in Nat /\ Len(t) = n + 1
        /\ t[1] = l /\ \A i \in 1 .. n : t[i + 1] = ps[i]
    OBVIOUS
  <1>2. t # <<>>
    BY <1>1, EmptySeq
  <1>3. Append(t, k) = <<l>> \o Append(ps, k)
    OBVIOUS
  <1>4. ASSUME ps = <<>>
        PROVE  t[Len(t)] = l /\ SubSeq(t, 1, Len(t) - 1) = <<>>
    BY <1>1, <1>4
  <1>5. ASSUME ps # <<>>
        PROVE  t[Len(t)] = ps[n] /\ SubSeq(t, 1, Len(t) - 1) = <<l>> \o SubSeq(ps, 1, n - 1)
    <2>1. n >= 1 /\ n \in 1 .. n
      BY <1>1, <1>5, EmptySeq
    <2>2. t[Len(t)] = ps[n]
      BY <1>1, <2>1
    <2> DEFINE a == SubSeq(t, 1, n)
               b == SubSeq(ps, 1, n - 1)
    <2>3. a \in Seq(Level) /\ Len(a) = n /\ \A i \in 1 .. n : a[i] = t[i]
      BY <1>1, <2>1
    <2>4. b \in Seq(Level) /\ Len(b) = n - 1 /\ \A i \in 1 .. n - 1 : b[i] = ps[i]
      BY <1>1, <2>1
    <2>5. /\ <<l>> \o b \in Seq(Level) /\ Len(<<l>> \o b) = n
          /\ (<<l>> \o b)[1] = l /\ \A i \in 1 .. n - 1 : (<<l>> \o b)[i + 1] = b[i]
      BY <2>1, <2>4
    <2>6. \A i \in 1 .. n : a[i] = (<<l>> \o b)[i]
      <3>1. \A i \in 1 .. n : i = 1 \/ (i - 1 \in 1 .. n - 1 /\ i - 1 \in 1 .. n /\ i = (i - 1) + 1)
        BY <2>1, <1>1
      <3> HIDE DEF t, a, b, n
      <3> SUFFICES ASSUME NEW i \in 1 .. n PROVE a[i] = (<<l>> \o b)[i]
        OBVIOUS
      <3>2. CASE i = 1
        BY <1>1, <2>1, <2>3, <2>5, <3>2
      <3>3. CASE i # 1
        <4>1. i - 1 \in 1 .. n - 1 /\ i - 1 \in 1 .. n /\ i = (i - 1) + 1
          BY <3>1, <3>3
        <4>2. a[i] = ps[i - 1] /\ (<<l>> \o b)[(i - 1) + 1] = ps[i - 1]
          BY <1>1, <2>3, <2>4, <2>5, <4>1
        <4> QED
          BY <4>1, <4>2
      <3> QED
        BY <3>2, <3>3
    <2>7. a = <<l>> \o b
      <3> HIDE DEF a, b, n
      <3> QED
        BY <2>3, <2>5, <2>6, SeqEqual
    <2>8. Len(t) - 1 = n
      BY <1>1
    <2> QED
      BY <2>2, <2>7, <2>8
  <1> QED
    BY <1>2, <1>3, <1>4, <1>5 DEF Put

(* What a byte does to a level's quote, and to a walk's.                    *)
QuoteAfter(q, aware, c) ==
  IF q # {} THEN q \ {c} ELSE IF aware /\ c \in Quote THEN {c} ELSE {}

(* A byte does to a level's quote what it does to a walk's.                 *)
LEMMA LevelAfterFacts ==
  ASSUME NEW l \in Level, NEW c
  PROVE  /\ LevelAfter(l, c).aware = l.aware
         /\ LevelAfter(l, c).quote = QuoteAfter(l.quote, l.aware, c)
  BY DEF LevelAfter, Level, QuoteAfter

(* Before the closing brace, an opener opens in the slice if it does in the *)
(* text: the brace it needs is not the closing one.                         *)
LEMMA OpensSame ==
  ASSUME NEW x, NEW z \in Nat, NEW to \in Nat, z < to, x[z] = Closing,
         NEW p \in Nat, p < z
  PROVE  /\ OpensAt(x, p) => OpensIn(x, p, to) /\ OpensIn(x, p, z)
         /\ OpensIn(x, p, to) => OpensAt(x, p)
         /\ OpensIn(x, p, z) => OpensAt(x, p)
  <1>1. ASSUME OpensAt(x, p)
        PROVE  p + 1 < z /\ p + 1 < to
    <2>1. p + 1 # z
      BY <1>1, OpenerFacts, CharFacts
    <2> QED
      BY <2>1
  <1> QED
    BY <1>1 DEF OpensIn

(* What is known of a run and one of its states before the last.            *)
Passes(R, x, s, z, to) ==
  /\ s \in Scan /\ s.j \in Nat /\ z.j \in Nat /\ s.j < z.j /\ z.j < to
  /\ ~FailsAt(x, s, to) /\ ~ClosesAt(x, s, to) /\ StepOf(x, s, to) \in R
  /\ OpensIn(x, s.j, to) <=> OpensIn(x, s.j, z.j)

(* It is known of every state that is not at the closing brace.             *)
LEMMA WholeFacts ==
  ASSUME NEW R, NEW x, NEW o, NEW to \in Nat, NEW z, Whole(R, x, o, to, z),
         NEW s \in R, s.parents # <<>> \/ s.j < z.j
  PROVE  Passes(R, x, s, z, to)
  <1>1. s \in Scan /\ z \in Scan
    BY DEF Whole, Runs
  <1>2. s.j \in Nat /\ z.j \in Nat
    BY <1>1, ScanFields
  <1>3. z.j < to /\ x[z.j] = Closing /\ z.parents = <<>>
    BY DEF Whole, ClosesAt, Leaves
  <1>4. s # z
    BY <1>2, <1>3
  <1>5. s.j < z.j /\ ~FailsAt(x, s, to) /\ ~ClosesAt(x, s, to) /\ StepOf(x, s, to) \in R
    BY <1>4 DEF Whole, Runs
  <1>6. OpensIn(x, s.j, to) <=> OpensIn(x, s.j, z.j)
    BY <1>2, <1>3, <1>5, OpensSame
  <1> QED
    BY <1>1, <1>2, <1>3, <1>5, <1>6 DEF Passes

(* One level further in, a scan takes the same step ...                     *)
LEMMA UnderStep ==
  ASSUME NEW x, NEW u \in Scan, NEW l \in Level, NEW to, NEW end,
         OpensIn(x, u.j, to) <=> OpensIn(x, u.j, end),
         ~(Leaves(x, u) /\ u.parents = <<>>)
  PROVE  StepOf(x, Under(u, l), to) = Under(StepOf(x, u, end), l)
  <1> DEFINE s == Under(u, l)
  <1>1. s.j = u.j /\ s.level = u.level /\ s.parents = Put(l, u.parents)
    BY DEF Under
  <1>2. u.level \in Level /\ u.parents \in Seq(Level)
    BY ScanFields
  <1> HIDE DEF s
  <1> DEFINE ps == u.parents
             t  == Put(l, ps)
  <1>3. /\ t # <<>> /\ Append(t, u.level) = Put(l, Append(ps, u.level))
        /\ ps # <<>> => /\ t[Len(t)] = ps[Len(ps)]
                        /\ SubSeq(t, 1, Len(t) - 1) = Put(l, SubSeq(ps, 1, Len(ps) - 1))
    <2>1. Append(t, u.level) = Put(l, Append(ps, u.level))
      BY <1>2 DEF Put
    <2>2. t # <<>>
      BY <1>2, UnderParents
    <2>3. ASSUME ps # <<>>
          PROVE  /\ t[Len(t)] = ps[Len(ps)]
                 /\ SubSeq(t, 1, Len(t) - 1) = Put(l, SubSeq(ps, 1, Len(ps) - 1))
      BY <1>2, <2>3, UnderParents
    <2> QED
      BY <2>1, <2>2, <2>3
  <1>4. s.parents = t
    BY <1>1
  <1> HIDE DEF t
  <1>5. (Nests(x, s, to) <=> Nests(x, u, end)) /\ (Leaves(x, s) <=> Leaves(x, u))
    BY <1>1 DEF Nests, Leaves, Unquoted
  <1>6. CASE Nests(x, u, end)
    <2>1. StepOf(x, s, to) = Nested(x, s) /\ StepOf(x, u, end) = Nested(x, u)
      BY <1>5, <1>6 DEF StepOf
    <2>2. Nested(x, s) = Under(Nested(x, u), l)
      BY <1>1, <1>3, <1>4 DEF Nested, Under
    <2> QED
      BY <2>1, <2>2 DEF s
  <1>7. CASE ~Nests(x, u, end) /\ Leaves(x, u)
    <2>1. StepOf(x, s, to) = Back(s) /\ StepOf(x, u, end) = Back(u)
      BY <1>5, <1>7 DEF StepOf
    <2>2. Back(s) = Under(Back(u), l)
      BY <1>1, <1>3, <1>4, <1>7 DEF Back, Under
    <2> QED
      BY <2>1, <2>2 DEF s
  <1>8. CASE ~Nests(x, u, end) /\ ~Leaves(x, u)
    <2> DEFINE k == LevelAfter(u.level, x[u.j])
    <2>1. StepOf(x, s, to) = Reading(s, k) /\ StepOf(x, u, end) = Reading(u, k)
      BY <1>1, <1>5, <1>8 DEF StepOf
    <2> HIDE DEF k
    <2>2. Reading(s, k) = Under(Reading(u, k), l)
      BY <1>1 DEF Reading, Under
    <2> QED
      BY <2>1, <2>2 DEF s
  <1> QED
    BY <1>6, <1>7, <1>8

(* ... and where it closes, it is back at the level around it.              *)
LEMMA UnderCloses ==
  ASSUME NEW x, NEW u \in Scan, NEW l \in Level, NEW to, Leaves(x, u), u.parents = <<>>
  PROVE  StepOf(x, Under(u, l), to) = [j |-> u.j + 1, level |-> l, parents |-> <<>>]
  <1> DEFINE s == Under(u, l)
  <1>1. s.j = u.j /\ s.level = u.level /\ s.parents = Put(l, u.parents)
    BY DEF Under
  <1>2. u.level \in Level /\ u.parents \in Seq(Level)
    BY ScanFields
  <1> DEFINE t == Put(l, u.parents)
  <1>3. t[Len(t)] = l /\ SubSeq(t, 1, Len(t) - 1) = <<>>
    BY <1>2, UnderParents
  <1>4. s.parents = t
    BY <1>1
  <1> HIDE DEF t
  <1>5. s.parents[Len(s.parents)] = l /\ SubSeq(s.parents, 1, Len(s.parents) - 1) = <<>>
    BY <1>3, <1>4
  <1>6. ~Nests(x, s, to) /\ Leaves(x, s)
    BY <1>1 DEF Nests, Leaves, Unquoted, OpensIn
  <1> HIDE DEF s
  <1>7. StepOf(x, s, to) = Back(s)
    BY <1>6 DEF StepOf
  <1>8. Back(s) = [j |-> u.j + 1, level |-> l, parents |-> <<>>]
    BY <1>1, <1>5 DEF Back
  <1> QED
    BY <1>7, <1>8 DEF s
-----------------------------------------------------------------------------
(* A walk inside a closed expression, and the scans it calls, step by step. *)

(* It reads a byte.                                                         *)
LEMMA InsideReads ==
  ASSUME NEW x, NEW w \in Walk, Inside(x, w, {}), w.i < w.to,
         w.quote # {} \/ ~OpensIn(x, w.i, w.to),
         NEW v, v.i = w.i + 1, v.to = w.to, v.aware = w.aware,
         v.quote = QuoteAfter(w.quote, w.aware, x[w.i])
  PROVE  Inside(x, v, {})
  <1>1. PICK R, o, to, z : Follows(R, x, o, to, z, w, {})
    BY DEF Inside
  <1>2. PICK s \in R : At(w, s)
    BY <1>1 DEF Follows
  <1>3. /\ s.j = w.i /\ s.parents = <<>>
        /\ s.level.aware = w.aware /\ s.level.quote = w.quote
    BY <1>2 DEF At
  <1>4. to \in Nat /\ Whole(R, x, o, to, z) /\ w.to = z.j
    BY <1>1 DEF Follows
  <1>5. Passes(R, x, s, z, to)
    BY <1>3, <1>4, WholeFacts
  <1>6. /\ s \in Scan /\ s.j \in Nat /\ z.j \in Nat /\ s.j < z.j /\ z.j < to
        /\ ~ClosesAt(x, s, to) /\ StepOf(x, s, to) \in R
    BY <1>5 DEF Passes
  <1>7. ~Nests(x, s, to)
    BY <1>3, <1>4, <1>5 DEF Passes, Nests, Unquoted
  <1>8. ~Leaves(x, s)
    <2>1. s.j < to
      BY <1>4, <1>6
    <2> QED
      BY <1>3, <1>6, <2>1 DEF ClosesAt
  <1> DEFINE k == LevelAfter(s.level, x[s.j])
  <1>9. StepOf(x, s, to) = Reading(s, k)
    BY <1>7, <1>8 DEF StepOf
  <1>10. k.aware = v.aware /\ k.quote = v.quote
    <2>1. s.level \in Level
      BY <1>6, ScanFields
    <2> QED
      BY <1>3, <2>1, LevelAfterFacts
  <1> HIDE DEF k
  <1>11. At(v, Reading(s, k))
    BY <1>3, <1>10 DEF At, Reading
  <1>12. Follows(R, x, o, to, z, v, {})
    BY <1>4, <1>6, <1>9, <1>11 DEF Follows
  <1> QED
    BY <1>12 DEF Inside

(* It meets an opener, which a scan goes on from.                           *)
LEMMA InsideOpens ==
  ASSUME NEW x, NEW w \in Walk, Inside(x, w, {}), w.quote = {}, OpensIn(x, w.i, w.to)
  PROVE  Inside(x, w, {From(x, w.i)})
  <1>1. PICK R, o, to, z : Follows(R, x, o, to, z, w, {})
    BY DEF Inside
  <1>2. PICK s \in R : At(w, s)
    BY <1>1 DEF Follows
  <1>3. /\ s.j = w.i /\ s.parents = <<>>
        /\ s.level.aware = w.aware /\ s.level.quote = {}
    BY <1>2 DEF At
  <1>4. to \in Nat /\ Whole(R, x, o, to, z) /\ w.to = z.j
    BY <1>1 DEF Follows
  <1>5. s.j < z.j
    BY <1>3, <1>4 DEF OpensIn, Walk, Pos
  <1>6. Passes(R, x, s, z, to)
    BY <1>3, <1>4, <1>5, WholeFacts
  <1>7. /\ s \in Scan /\ StepOf(x, s, to) \in R /\ OpensIn(x, s.j, to)
    BY <1>3, <1>4, <1>6 DEF Passes
  <1>8. StepOf(x, s, to) = Nested(x, s)
    BY <1>3, <1>7 DEF StepOf, Nests, Unquoted
  <1>9. Append(s.parents, s.level) = Put(s.level, <<>>)
    BY <1>3 DEF Put
  <1>10. Nested(x, s) = Under(From(x, w.i), s.level)
    BY <1>3, <1>9 DEF Nested, Under, From
  <1>11. s.level \in Level
    BY <1>7, ScanFields
  <1>12. Under(From(x, w.i), s.level) \in R
    BY <1>7, <1>8, <1>10
  <1>13. Follows(R, x, o, to, z, w, {From(x, w.i)})
    BY <1>3, <1>4, <1>11, <1>12 DEF Follows
  <1> QED
    BY <1>13 DEF Inside

(* The scan that a walk has called is one level into the run.               *)
Within(R, x, w, u, l, to) ==
  /\ l.quote = {} /\ l.aware = w.aware
  /\ Under(u, l) \in R /\ StepOf(x, Under(u, l), to) \in R
  /\ ~FailsAt(x, Under(u, l), to)
  /\ OpensIn(x, u.j, to) <=> OpensIn(x, u.j, w.to)
  /\ u.j \in Nat /\ w.to \in Nat /\ u.j < w.to
  /\ Under(u, l).level = u.level
  /\ Len(u.parents) \in Nat /\ Len(Under(u, l).parents) = Len(u.parents) + 1

(* The level is the one that the walk is at.                                *)
LEMMA InsideUnder ==
  ASSUME NEW x, NEW w \in Walk, NEW u \in Scan,
         NEW R, NEW o, NEW to, NEW z, Follows(R, x, o, to, z, w, {u})
  PROVE  \E l \in Level : Within(R, x, w, u, l, to)
  <1>1. to \in Nat /\ Whole(R, x, o, to, z) /\ w.to = z.j
    BY DEF Follows
  <1>2. PICK l \in Level : l.quote = {} /\ l.aware = w.aware /\ Under(u, l) \in R
    BY DEF Follows
  <1> DEFINE s == Under(u, l)
  <1>3. s \in R /\ s.j = u.j /\ s.level = u.level /\ s.parents = Put(l, u.parents)
    BY <1>2 DEF Under
  <1>4. u.level \in Level /\ u.parents \in Seq(Level) /\ Len(u.parents) \in Nat
    BY ScanFields
  <1>5. Put(l, u.parents) # <<>> /\ Len(Put(l, u.parents)) = Len(u.parents) + 1
    <2>1. Put(l, u.parents) # <<>>
      BY <1>4, UnderParents
    <2>2. Len(Put(l, u.parents)) = Len(u.parents) + 1
      BY <1>4 DEF Put
    <2> QED
      BY <2>1, <2>2
  <1> HIDE DEF s
  <1>6. s.parents # <<>> /\ Len(s.parents) = Len(u.parents) + 1
    BY <1>3, <1>5
  <1>7. Passes(R, x, s, z, to)
    BY <1>1, <1>3, <1>6, WholeFacts
  <1>8. /\ OpensIn(x, u.j, to) <=> OpensIn(x, u.j, w.to)
        /\ u.j \in Nat /\ w.to \in Nat /\ u.j < w.to
        /\ ~FailsAt(x, s, to) /\ StepOf(x, s, to) \in R
    BY <1>1, <1>3, <1>7 DEF Passes
  <1>9. Within(R, x, w, u, l, to)
    BY <1>2, <1>3, <1>4, <1>6, <1>8 DEF s, Within
  <1> QED
    BY <1>9

(* The scan goes on.                                                        *)
LEMMA InsideScans ==
  ASSUME NEW x, NEW w \in Walk, NEW u \in Scan, Inside(x, w, {u}),
         ~ClosesAt(x, u, w.to)
  PROVE  Inside(x, w, {StepOf(x, u, w.to)})
  <1>1. PICK R, o, to, z : Follows(R, x, o, to, z, w, {u})
    BY DEF Inside
  <1>2. PICK l \in Level : Within(R, x, w, u, l, to)
    BY <1>1, InsideUnder
  <1>3. /\ l.quote = {} /\ l.aware = w.aware
        /\ Under(u, l) \in R /\ StepOf(x, Under(u, l), to) \in R
        /\ (OpensIn(x, u.j, to) <=> OpensIn(x, u.j, w.to))
        /\ u.j \in Nat /\ w.to \in Nat /\ u.j < w.to
    BY <1>2 DEF Within
  <1>4. ~(Leaves(x, u) /\ u.parents = <<>>)
    BY <1>3 DEF ClosesAt
  <1>5. StepOf(x, Under(u, l), to) = Under(StepOf(x, u, w.to), l)
    BY <1>3, <1>4, UnderStep
  <1>6. Under(StepOf(x, u, w.to), l) \in R
    BY <1>3, <1>5
  <1>7. Follows(R, x, o, to, z, w, {StepOf(x, u, w.to)})
    BY <1>1, <1>3, <1>6 DEF Follows
  <1> QED
    BY <1>7 DEF Inside

(* It neither runs out of text nor of levels.                               *)
LEMMA InsideNeverFails ==
  ASSUME NEW x, NEW w \in Walk, NEW u \in Scan, Inside(x, w, {u})
  PROVE  ~FailsAt(x, u, w.to)
  <1>1. PICK R, o, to, z : Follows(R, x, o, to, z, w, {u})
    BY DEF Inside
  <1>2. PICK l \in Level : Within(R, x, w, u, l, to)
    BY <1>1, InsideUnder
  <1>3. /\ ~FailsAt(x, Under(u, l), to)
        /\ (OpensIn(x, u.j, to) <=> OpensIn(x, u.j, w.to))
        /\ u.j \in Nat /\ w.to \in Nat /\ u.j < w.to
        /\ Under(u, l).level = u.level
        /\ Len(u.parents) \in Nat /\ Len(Under(u, l).parents) = Len(u.parents) + 1
    BY <1>2 DEF Within
  <1>4. Under(u, l).j = u.j
    BY DEF Under
  <1>5. ~(Nests(x, u, w.to) /\ Len(u.parents) >= DepthLimit)
    <2>1. SUFFICES ASSUME Nests(x, u, w.to), Len(u.parents) >= DepthLimit PROVE FALSE
      OBVIOUS
    <2>2. Nests(x, Under(u, l), to)
      BY <1>3, <1>4, <2>1 DEF Nests, Unquoted
    <2>3. Len(Under(u, l).parents) >= DepthLimit
      BY <1>3, <2>1, ConstantsOK
    <2> QED
      BY <1>3, <2>2, <2>3 DEF FailsAt
  <1> QED
    BY <1>3, <1>5 DEF FailsAt

(* Where the scan closes, the walk goes on behind it.                       *)
LEMMA InsideCloses ==
  ASSUME NEW x, NEW w \in Walk, NEW u \in Scan, Inside(x, w, {u}), ClosesAt(x, u, w.to),
         NEW v, v.i = u.j + 1, v.to = w.to, v.aware = w.aware, v.quote = {}
  PROVE  Inside(x, v, {})
  <1>1. PICK R, o, to, z : Follows(R, x, o, to, z, w, {u})
    BY DEF Inside
  <1>2. PICK l \in Level : Within(R, x, w, u, l, to)
    BY <1>1, InsideUnder
  <1>3. /\ l.quote = {} /\ l.aware = w.aware
        /\ Under(u, l) \in R /\ StepOf(x, Under(u, l), to) \in R
    BY <1>2 DEF Within
  <1> DEFINE t == [j |-> u.j + 1, level |-> l, parents |-> <<>>]
  <1>4. Leaves(x, u) /\ u.parents = <<>>
    BY DEF ClosesAt
  <1>5. StepOf(x, Under(u, l), to) = t
    BY <1>4, UnderCloses
  <1>6. t \in R /\ At(v, t)
    BY <1>3, <1>5 DEF At
  <1> HIDE DEF t
  <1>7. Follows(R, x, o, to, z, v, {})
    BY <1>1, <1>6 DEF Follows
  <1> QED
    BY <1>7 DEF Inside

(* A walk of what a scan has closed starts where the scan did.              *)
LEMMA InsideNew ==
  ASSUME NEW R, NEW x, NEW o, NEW to \in Nat, NEW z, Whole(R, x, o, to, z),
         NEW v, v.i = o + 2, v.to = z.j, v.aware = (x[o] = "#"), v.quote = {}
  PROVE  Inside(x, v, {})
  <1>1. From(x, o) \in R
    BY DEF Whole, Runs
  <1>2. At(v, From(x, o))
    <2>1. From(x, o).level.aware = v.aware
      BY DEF From, LevelAt
    <2> QED
      BY <2>1 DEF At, From, LevelAt
  <1>3. Follows(R, x, o, to, z, v, {})
    BY <1>1, <1>2 DEF Follows
  <1> QED
    BY <1>3 DEF Inside
-----------------------------------------------------------------------------
(* The state's scan, as a run.                                              *)
Spans(R, x, o, to, z) == OpensIn(x, o, to) /\ Runs(R, x, o, to, z)

ScanRuns == scan # {} => \E R : Spans(R, text, Top.i, Top.to, Cur)

(* How a scan ends, in terms of its state.                                  *)
LEMMA EndsAt ==
  ASSUME IInv, scan # {}
  PROVE  (Fails <=> FailsAt(text, Cur, Top.to)) /\ (Closes <=> ClosesAt(text, Cur, Top.to))
  <1> DEFINE s == Cur
             p == s.j
             n == Top.to
  <1>1. ScanOK
    BY Parts
  <1>2. s.level.depth \in Nat /\ s.level.depth >= 1 /\ p \in Nat
    BY <1>1, CurType DEF Pos
  <1>3. s.level.depth = 1 <=> ~(s.level.depth > 1)
    BY <1>2
  <1>4. OpenerAt(p) <=> OpensIn(text, p, n)
    BY DEF OpenerAt, OpensIn, OpensAt
  <1>5. text[p] = Closing => ~OpensAt(text, p)
    BY OpenerFacts
  <1>6. ~OpensAt(text, p) => ~OpensIn(text, p, n)
    BY DEF OpensIn
  <1>7. Fails <=> FailsAt(text, s, n)
    BY <1>4 DEF Fails, FailsAt, Nests, Unquoted
  <1>8. Closes <=> (p < n /\ Unquoted(s) /\ ~OpensIn(text, p, n) /\ text[p] = Closing
                    /\ s.level.depth = 1 /\ s.parents = <<>>)
    BY <1>4 DEF Closes, Unquoted, Closing
  <1>9. ClosesAt(text, s, n) <=> (p < n /\ Unquoted(s) /\ ~OpensAt(text, p) /\ text[p] = Closing
                                  /\ ~(s.level.depth > 1) /\ s.parents = <<>>)
    BY DEF ClosesAt, Leaves
  <1> HIDE DEF s, p, n
  <1>10. Closes <=> ClosesAt(text, s, n)
    BY <1>3, <1>5, <1>6, <1>8, <1>9
  <1> QED
    BY <1>7, <1>10 DEF s, n

(* A byte that is read.                                                     *)
LEMMA ReadsReading ==
  ASSUME NEW s \in Scan, NEW l, Reads(s, l)
  PROVE  scan' = {Reading(s, l)}
  <1> DEFINE L == Level \cup {l}
             r == Reading(s, l)
             t == [s EXCEPT !.j = @ + 1, !.level = l]
             Any == [j : Nat, level : L, parents : Seq(Level)]
  <1>1. s.j \in Nat /\ s.j + 1 \in Nat /\ s \in Any
    BY DEF Scan, Pos
  <1>2. t \in Any /\ t.j = s.j + 1 /\ t.level = l /\ t.parents = s.parents
    BY <1>1
  <1>3. r = [j |-> s.j + 1, level |-> l, parents |-> s.parents]
    BY DEF Reading
  <1>4. scan' = {t}
    BY DEF Reads
  <1> HIDE DEF t, L, r
  <1>5. t = [j |-> s.j + 1, level |-> l, parents |-> s.parents]
    BY <1>2
  <1> QED
    BY <1>3, <1>4, <1>5 DEF r

(* Every step of a scan is the one that StepOf says, from a state that does *)
(* not end it.                                                              *)
LEMMA ScanIsStep ==
  ASSUME IInv, Scans
  PROVE  /\ ~FailsAt(text, Cur, Top.to) /\ ~ClosesAt(text, Cur, Top.to)
         /\ scan' = {StepOf(text, Cur, Top.to)}
         /\ scan # {} /\ UNCHANGED <<text, stage, walks, open, stopped, found>>
  <1> DEFINE s == Cur
             n == Top.to
             c == text[s.j]
             l == s.level
  <1>1. Scanning
    BY DEF Scans, ScanQuoted, ScanNested, ScanQuote, ScanBrace, ScanCloseBrace,
           ScanCloseNested, ScanByte, OneByte
  <1>2. s \in Scan /\ s.j \in Nat /\ n \in Nat /\ s.j < n /\ Len(s.parents) \in Nat
    BY <1>1, ScanningType DEF Pos
  <1>3. DepthLimit \in Nat
    BY ConstantsOK
  <1>4. scan # {} /\ UNCHANGED <<text, stage, walks, open, stopped, found>>
    BY <1>1 DEF Scanning
  <1>5. /\ OpenerAt(s.j) <=> OpensIn(text, s.j, n)
        /\ ~OpensAt(text, s.j) => ~OpensIn(text, s.j, n)
    BY DEF OpenerAt, OpensIn, OpensAt
  <1>6. OpensAt(text, s.j) => c # Closing /\ c # Opening /\ c \notin Quote
    BY OpenerFacts
  <1> HIDE DEF s, n
  <1>7. ASSUME Reads(s, LevelAfter(l, c)), ~Nests(text, s, n), ~Leaves(text, s)
        PROVE  /\ ~FailsAt(text, s, n) /\ ~ClosesAt(text, s, n)
               /\ scan' = {StepOf(text, s, n)}
    <2>1. ~FailsAt(text, s, n)
      BY <1>2, <1>7 DEF FailsAt
    <2>2. ~ClosesAt(text, s, n)
      BY <1>7 DEF ClosesAt
    <2>3. StepOf(text, s, n) = Reading(s, LevelAfter(l, c))
      BY <1>7 DEF StepOf
    <2>4. scan' = {Reading(s, LevelAfter(l, c))}
      BY <1>2, <1>7, ReadsReading
    <2> QED
      BY <2>1, <2>2, <2>3, <2>4
  <1>8. CASE ScanQuoted
    <2>1. l.quote # {} /\ Reads(s, [l EXCEPT !.quote = @ \ {c}])
      BY <1>8 DEF ScanQuoted, s
    <2>2. Reads(s, LevelAfter(l, c))
      BY <2>1 DEF LevelAfter
    <2>3. ~Nests(text, s, n) /\ ~Leaves(text, s)
      BY <2>1 DEF Nests, Leaves, Unquoted
    <2> QED
      BY <1>4, <1>7, <2>2, <2>3 DEF s, n
  <1>9. CASE ScanNested
    <2>1. l.quote = {} /\ OpenerAt(s.j) /\ Len(s.parents) < DepthLimit
      BY <1>9 DEF ScanNested, s
    <2>2. scan' = {Nested(text, s)}
      BY <1>9 DEF ScanNested, Nested, LevelFor, LevelAt, s
    <2>3. Nests(text, s, n)
      BY <1>5, <2>1 DEF Nests, Unquoted
    <2>4. StepOf(text, s, n) = Nested(text, s)
      BY <2>3 DEF StepOf
    <2>5. ~FailsAt(text, s, n)
      BY <1>2, <1>3, <2>1 DEF FailsAt
    <2>6. ~ClosesAt(text, s, n)
      BY <1>5, <2>1 DEF ClosesAt, Leaves
    <2> QED
      BY <1>4, <2>2, <2>4, <2>5, <2>6 DEF s, n
  <1>10. ASSUME OneByte
         PROVE  l.quote = {} /\ ~OpensIn(text, s.j, n) /\ ~Nests(text, s, n)
    <2>1. l.quote = {} /\ ~OpenerAt(s.j)
      BY <1>10 DEF OneByte, s
    <2> QED
      BY <1>5, <2>1 DEF Nests
  <1>11. CASE ScanQuote
    <2>1. OneByte /\ l.aware /\ c \in Quote /\ Reads(s, [l EXCEPT !.quote = {c}])
      BY <1>11 DEF ScanQuote, s
    <2>2. Reads(s, LevelAfter(l, c))
      BY <1>10, <2>1 DEF LevelAfter
    <2>3. ~Leaves(text, s)
      BY <2>1, CharFacts DEF Leaves
    <2> QED
      BY <1>4, <1>7, <1>10, <2>1, <2>2, <2>3 DEF s, n
  <1>12. CASE ScanBrace
    <2>1. OneByte /\ c = Opening /\ Reads(s, [l EXCEPT !.depth = @ + 1])
      BY <1>12 DEF ScanBrace, Opening, s
    <2>2. Reads(s, LevelAfter(l, c))
      BY <1>10, <2>1, CharFacts DEF LevelAfter
    <2>3. ~Leaves(text, s)
      BY <2>1, CharFacts DEF Leaves
    <2> QED
      BY <1>4, <1>7, <1>10, <2>1, <2>2, <2>3 DEF s, n
  <1>13. CASE ScanCloseBrace
    <2>1. OneByte /\ c = Closing /\ l.depth > 1 /\ Reads(s, [l EXCEPT !.depth = @ - 1])
      BY <1>13 DEF ScanCloseBrace, Closing, s
    <2>2. Reads(s, LevelAfter(l, c))
      BY <1>10, <2>1, CharFacts DEF LevelAfter
    <2>3. ~Leaves(text, s)
      BY <2>1 DEF Leaves
    <2> QED
      BY <1>4, <1>7, <1>10, <2>1, <2>2, <2>3 DEF s, n
  <1>14. CASE ScanCloseNested
    <2>1. OneByte /\ c = Closing /\ l.depth = 1 /\ s.parents # <<>>
      BY <1>14 DEF ScanCloseNested, Closing, s
    <2>2. scan' = {Back(s)}
      BY <1>14 DEF ScanCloseNested, Back, s
    <2>3. Leaves(text, s)
      BY <1>6, <1>10, <2>1 DEF Leaves, Unquoted
    <2>4. StepOf(text, s, n) = Back(s)
      BY <1>10, <2>1, <2>3 DEF StepOf
    <2>5. ~FailsAt(text, s, n)
      BY <1>2, <1>10, <2>1 DEF FailsAt
    <2>6. ~ClosesAt(text, s, n)
      BY <2>1 DEF ClosesAt
    <2> QED
      BY <1>4, <2>2, <2>4, <2>5, <2>6 DEF s, n
  <1>15. CASE ScanByte
    <2>1. OneByte /\ c # Opening /\ c # Closing /\ ~(l.aware /\ c \in Quote) /\ Reads(s, l)
      BY <1>15 DEF ScanByte, Opening, Closing, s
    <2>2. Reads(s, LevelAfter(l, c))
      BY <1>10, <2>1 DEF LevelAfter
    <2>3. ~Leaves(text, s)
      BY <2>1 DEF Leaves
    <2> QED
      BY <1>4, <1>7, <1>10, <2>1, <2>2, <2>3 DEF s, n
  <1> QED
    BY <1>8, <1>9, <1>11, <1>12, <1>13, <1>14, <1>15 DEF Scans

(* The only element of an Option, after a step.                             *)
LEMMA CurIsAgain ==
  ASSUME NEW s, scan' = {s}
  PROVE  Cur' = s
  BY DEF Cur

(* The scan at hand is always a run from the opener of its walk.            *)
LEMMA ScanRunsOn == IInv /\ IInv' /\ ScanRuns /\ [Next]_vars => ScanRuns'
  <1> SUFFICES ASSUME IInv, IInv', ScanRuns, [Next]_vars PROVE ScanRuns'
    OBVIOUS
  <1>1. ScanOK'
    BY Parts DEF ScanOK, IInv, TypeOK, DepthBounded, SlicesNest, InSlice, Top, IsOption
  <1>2. ASSUME NEW s, scan' = {s} PROVE s \in Scan
    BY <1>1, <1>2 DEF ScanOK, InSlice
  <1>3. CASE WalkOpener
    <2> DEFINE o == Top.i
    <2>1. scan' = {From(text, o)} /\ OpensIn(text, o, Top.to) /\ text' = text /\ Top' = Top
      BY <1>3 DEF WalkOpener, ScanFrom, From, LevelFor, LevelAt, OpenerAt, OpensIn, OpensAt, Top
    <2>2. From(text, o) \in Scan /\ Cur' = From(text, o)
      BY <1>2, <2>1, CurIsAgain
    <2>3. \E R : Runs(R, text, o, Top.to, From(text, o))
      BY <2>2, RunStarts
    <2> QED
      BY <2>1, <2>2, <2>3 DEF ScanRuns, Spans
  <1>4. CASE Scans
    <2> DEFINE z == Cur
    <2>1. /\ ~FailsAt(text, z, Top.to) /\ ~ClosesAt(text, z, Top.to)
          /\ scan' = {StepOf(text, z, Top.to)}
          /\ scan # {} /\ UNCHANGED <<text, walks>>
      BY <1>4, ScanIsStep
    <2>2. PICK R : Spans(R, text, Top.i, Top.to, z)
      BY <2>1 DEF ScanRuns
    <2>3. StepOf(text, z, Top.to) \in Scan /\ Cur' = StepOf(text, z, Top.to)
      BY <1>2, <2>1, CurIsAgain
    <2>4. \E T : Runs(T, text, Top.i, Top.to, StepOf(text, z, Top.to))
      BY <2>1, <2>2, <2>3, RunGrows DEF Spans
    <2>5. Top' = Top /\ text' = text
      BY <2>1 DEF Top
    <2> QED
      BY <2>2, <2>3, <2>4, <2>5 DEF ScanRuns, Spans
  <1>5. CASE Returns \/ WalkByte \/ WalkQuote \/ WalkQuoted \/ DiagnoseEnd \/ HarvestEnd
    <2>1. scan' = {}
      BY <1>5 DEF Returns, DiagnoseClosed, DiagnoseOpen, HarvestClosed, HarvestStops,
                  WalkByte, WalkQuote, WalkQuoted, DiagnoseEnd, HarvestEnd, Walking
    <2> QED
      BY <2>1 DEF ScanRuns
  <1>6. CASE UNCHANGED vars
    BY <1>6 DEF vars, ScanRuns, Top, Cur
  <1> QED
    BY <1>3, <1>4, <1>5, <1>6 DEF Next, Walks

(* The calls inside closed expressions, the innermost one with what it has  *)
(* called.                                                                  *)
Deeper(s, c) ==
  \A k \in 2 .. Len(s) : Inside(text, s[k], IF k = Len(s) THEN c ELSE {})

HarvestInside == stage = "harvest" => Deeper(walks, scan)

(* The innermost call goes on.                                              *)
LEMMA DeeperOnward ==
  ASSUME StackOK, walks # <<>>, NEW c, Deeper(walks, c), NEW w \in Walk, NEW d,
         Len(walks) >= 2 => Inside(text, w, d)
  PROVE  Deeper(WithTop(w), d)
  <1> DEFINE s == WithTop(w)
  <1>1. /\ Len(s) = Len(walks)
        /\ \A k \in 1 .. Len(walks) : s[k] = IF k = Len(walks) THEN w ELSE walks[k]
    BY ReplaceLast DEF StackOK, Fits, WithTop
  <1>2. Len(walks) \in Nat
    BY TopType
  <1> HIDE DEF s
  <1>3. ASSUME NEW k \in 2 .. Len(s)
        PROVE  Inside(text, s[k], IF k = Len(s) THEN d ELSE {})
    <2>1. k \in 1 .. Len(walks) /\ Len(walks) >= 2
      BY <1>1, <1>2
    <2>2. CASE k = Len(walks)
      BY <1>1, <2>1, <2>2
    <2>3. CASE k # Len(walks)
      BY <1>1, <2>1, <2>3 DEF Deeper
    <2> QED
      BY <2>2, <2>3
  <1> QED
    BY <1>3 DEF Deeper, s

(* It returns.                                                              *)
LEMMA DeeperRest ==
  ASSUME StackOK, walks # <<>>, NEW c, Deeper(walks, c)
  PROVE  Deeper(Rest, {})
  <1> DEFINE s == Rest
  <1>1. Len(s) = Len(walks) - 1 /\ \A k \in 1 .. Len(walks) - 1 : s[k] = walks[k]
    BY RemoveLast DEF StackOK, Fits, Rest
  <1>2. Len(walks) \in Nat
    BY TopType
  <1> HIDE DEF s
  <1>3. ASSUME NEW k \in 2 .. Len(s)
        PROVE  Inside(text, s[k], {})
    <2>1. k \in 1 .. Len(walks) - 1 /\ k \in 2 .. Len(walks) /\ k # Len(walks)
      BY <1>1, <1>2
    <2> QED
      BY <1>1, <2>1 DEF Deeper
  <1>4. ASSUME NEW k \in 2 .. Len(s)
        PROVE  Inside(text, s[k], IF k = Len(s) THEN {} ELSE {})
    BY <1>3
  <1> QED
    BY <1>4 DEF Deeper, s

(* It calls one for the slice of what has closed.                           *)
LEMMA DeeperCall ==
  ASSUME NEW s \in Seq(Walk), Deeper(s, {}), NEW w \in Walk, Inside(text, w, {})
  PROVE  Deeper(Append(s, w), {})
  <1> DEFINE t == Append(s, w)
  <1>1. /\ Len(s) \in Nat /\ Len(t) = Len(s) + 1 /\ t[Len(s) + 1] = w
        /\ \A k \in 1 .. Len(s) : t[k] = s[k]
    BY AppendProperties
  <1> HIDE DEF t
  <1>2. ASSUME NEW k \in 2 .. Len(t)
        PROVE  Inside(text, t[k], {})
    <2>1. CASE k = Len(s) + 1
      BY <1>1, <2>1
    <2>2. CASE k # Len(s) + 1
      <3>1. k \in 1 .. Len(s) /\ k \in 2 .. Len(s)
        BY <1>1, <2>2
      <3>2. Inside(text, s[k], IF k = Len(s) THEN {} ELSE {})
        BY <3>1 DEF Deeper
      <3> QED
        BY <1>1, <3>1, <3>2
    <2> QED
      BY <2>1, <2>2
  <1>3. ASSUME NEW k \in 2 .. Len(t)
        PROVE  Inside(text, t[k], IF k = Len(t) THEN {} ELSE {})
    BY <1>2
  <1> QED
    BY <1>3 DEF Deeper, t

(* The innermost call follows a run.                                        *)
LEMMA TopInside ==
  ASSUME StackOK, walks # <<>>, NEW c, Deeper(walks, c), Len(walks) >= 2
  PROVE  Inside(text, Top, c)
  <1>1. Len(walks) \in 2 .. Len(walks)
    BY TopType
  <1>2. Inside(text, walks[Len(walks)], IF Len(walks) = Len(walks) THEN c ELSE {})
    BY <1>1 DEF Deeper
  <1> QED
    BY <1>2 DEF Top

(* A call that stays where it is.                                           *)
LEMMA TopAgain ==
  ASSUME StackOK, walks # <<>>
  PROVE  walks = WithTop(Top)
  <1> DEFINE s == WithTop(Top)
  <1>1. Top \in Walk
    BY TopType
  <1>2. /\ s \in Seq(Walk) /\ Len(s) = Len(walks)
        /\ \A k \in 1 .. Len(walks) : s[k] = IF k = Len(walks) THEN Top ELSE walks[k]
    BY <1>1, ReplaceLast DEF StackOK, Fits, WithTop
  <1> HIDE DEF s
  <1>3. \A k \in 1 .. Len(walks) : walks[k] = s[k]
    BY <1>2 DEF Top
  <1>4. walks = s
    BY <1>2, <1>3, SeqEqual DEF StackOK, Fits
  <1> QED
    BY <1>4 DEF s

(* Every call of the harvest but the outermost is inside a closed           *)
(* expression, step by step.                                                *)
LEMMA InsideOn == IInv /\ IInv' /\ ScanRuns /\ HarvestInside /\ [Next]_vars => HarvestInside'
  <1> SUFFICES ASSUME IInv, IInv', ScanRuns, HarvestInside, [Next]_vars, stage' = "harvest"
               PROVE  Deeper(walks, scan)'
    BY DEF HarvestInside
  <1>1. StackOK /\ ScanOK /\ StageOK
    BY Parts
  <1>2. ASSUME walks' = WholeText
        PROVE  Deeper(walks, scan)'
    BY <1>2 DEF WholeText, Deeper
  <1>3. CASE UNCHANGED vars
    BY <1>3 DEF vars, HarvestInside, Deeper
  <1>4. CASE DiagnoseEnd \/ DiagnoseOpen
    BY <1>2, <1>4 DEF DiagnoseEnd, DiagnoseOpen
  <1>5. CASE stage = "harvest" /\ Next
    <2> USE <1>5
    <2>1. walks # <<>> /\ Deeper(walks, scan)
      BY <1>1 DEF StageOK, HarvestInside
    <2>2. Top \in Walk /\ Top.i \in Pos /\ Top.to \in Pos /\ Len(walks) \in Nat
      BY <1>1, <2>1, TopType
    <2>3. ASSUME NEW w \in Walk, walks' = WithTop(w), UNCHANGED text,
                 Len(walks) >= 2 => Inside(text, w, scan')
          PROVE  Deeper(walks, scan)'
      <3>1. Deeper(WithTop(w), scan')
        BY <1>1, <2>1, <2>3, DeeperOnward
      <3> QED
        BY <2>3, <3>1 DEF Deeper
    <2>4. CASE WalkByte \/ WalkQuote \/ WalkQuoted
      <3> DEFINE q == QuoteAfter(Top.quote, Top.aware, text[Top.i])
                 w == [Top EXCEPT !.i = @ + 1, !.quote = q]
      <3>1. scan = {} /\ scan' = {} /\ text' = text /\ Top.i < Top.to
        BY <2>2, <2>4 DEF WalkByte, WalkQuote, WalkQuoted, Walking, Ended, Pos
      <3>2. walks' = WithTop(w)
        <4>1. CASE WalkByte
          <5>1. q = {} /\ Top.quote = {}
            BY <4>1 DEF WalkByte, QuoteAfter
          <5>2. [Top EXCEPT !.i = Top.i + 1] = w
            BY <2>2, <5>1 DEF Walk
          <5> QED
            BY <4>1, <5>2 DEF WalkByte, Moved
        <4>2. CASE WalkQuote
          BY <4>2 DEF WalkQuote, QuoteAfter
        <4>3. CASE WalkQuoted
          BY <4>3 DEF WalkQuoted, QuoteAfter
        <4> QED
          BY <2>4, <4>1, <4>2, <4>3
      <3>3. Top.quote # {} \/ ~OpensIn(text, Top.i, Top.to)
        <4>1. CASE WalkByte
          BY <4>1 DEF WalkByte, OpenerAt, OpensIn, OpensAt
        <4>2. CASE WalkQuote
          <5>1. text[Top.i] \in Quote
            BY <4>2 DEF WalkQuote
          <5> QED
            BY <5>1, OpenerFacts DEF OpensIn
        <4>3. CASE WalkQuoted
          BY <4>3 DEF WalkQuoted
        <4> QED
          BY <2>4, <4>1, <4>2, <4>3
      <3>4. q \in Option(Quote)
        BY <2>2, <1>1, <2>1, TopType DEF QuoteAfter, Option
      <3>5. w \in Walk /\ w.i = Top.i + 1 /\ w.to = Top.to /\ w.aware = Top.aware /\ w.quote = q
        <4> HIDE DEF q
        <4>1. Top.i + 1 \in Pos
          BY <2>2 DEF Pos
        <4> QED
          BY <2>2, <3>4, <4>1 DEF Walk
      <3> HIDE DEF w
      <3>6. Len(walks) >= 2 => Inside(text, w, {})
        <4>1. SUFFICES ASSUME Len(walks) >= 2 PROVE Inside(text, w, {})
          OBVIOUS
        <4>2. Inside(text, Top, {})
          BY <1>1, <2>1, <3>1, <4>1, TopInside
        <4> QED
          BY <2>2, <3>1, <3>3, <3>5, <4>2, InsideReads
      <3> QED
        BY <2>3, <3>1, <3>2, <3>5, <3>6
    <2>5. CASE WalkOpener
      <3>1. /\ scan = {} /\ scan' = {From(text, Top.i)} /\ text' = text /\ walks' = walks
            /\ Top.quote = {} /\ OpensIn(text, Top.i, Top.to)
        BY <2>5 DEF WalkOpener, ScanFrom, From, LevelFor, LevelAt, OpenerAt, OpensIn, OpensAt
      <3>2. walks' = WithTop(Top)
        BY <1>1, <2>1, <3>1, TopAgain
      <3>3. Len(walks) >= 2 => Inside(text, Top, scan')
        BY <1>1, <2>1, <2>2, <3>1, TopInside, InsideOpens
      <3> QED
        BY <2>2, <2>3, <3>1, <3>2, <3>3
    <2>6. CASE Scans
      <3> DEFINE u == Cur
      <3>1. /\ ~ClosesAt(text, u, Top.to) /\ scan' = {StepOf(text, u, Top.to)}
            /\ scan # {} /\ text' = text /\ walks' = walks
        BY <2>6, ScanIsStep
      <3>2. walks' = WithTop(Top)
        BY <1>1, <2>1, <3>1, TopAgain
      <3>3. scan = {u} /\ u \in Scan
        BY <1>1, <3>1 DEF ScanOK, IsOption, InSlice, Cur
      <3> HIDE DEF u
      <3>4. Len(walks) >= 2 => Inside(text, Top, scan')
        <4>1. SUFFICES ASSUME Len(walks) >= 2 PROVE Inside(text, Top, scan')
          OBVIOUS
        <4>2. Inside(text, Top, {u})
          BY <1>1, <2>1, <3>3, <4>1, TopInside
        <4> QED
          BY <2>2, <3>1, <3>3, <4>2, InsideScans
      <3> QED
        BY <2>2, <2>3, <3>1, <3>2, <3>4
    <2>7. CASE HarvestEnd \/ HarvestStops
      <3>1. walks' = Rest /\ scan' = {} /\ text' = text
        BY <2>7 DEF HarvestEnd, HarvestStops, Return, Walking
      <3>2. Deeper(Rest, {})
        BY <1>1, <2>1, DeeperRest
      <3> QED
        BY <3>1, <3>2 DEF Deeper
    <2>8. CASE HarvestClosed
      <3> DEFINE u == Cur
                 w == [Top EXCEPT !.i = u.j + 1]
                 v == Inner(Top.i, u.j)
                 s == WithTop(w)
      <3>1. /\ scan # {} /\ scan' = {} /\ text' = text /\ Closes
            /\ walks' = IF Descends THEN Append(s, v) ELSE s
        BY <2>8 DEF HarvestClosed, Closes, Moved
      <3>2. scan = {u} /\ u \in Scan /\ u.j \in Nat /\ u.j \in Pos
        <4>1. scan = {u} /\ u \in Scan
          BY <1>1, <3>1 DEF ScanOK, IsOption, InSlice, Cur
        <4> QED
          BY <4>1, ScanFields
      <3>3. ClosesAt(text, u, Top.to)
        BY <3>1, EndsAt
      <3>4. PICK R : Spans(R, text, Top.i, Top.to, u)
        BY <3>1 DEF ScanRuns
      <3> HIDE DEF u
      <3>5. /\ w \in Walk /\ w.i = u.j + 1 /\ w.to = Top.to /\ w.aware = Top.aware
            /\ w.quote = Top.quote
        <4>1. u.j + 1 \in Pos
          BY <3>2 DEF Pos
        <4> QED
          BY <2>2, <4>1 DEF Walk
      <3>6. v \in Walk /\ v.i = Top.i + 2 /\ v.to = u.j /\ v.quote = {}
        BY <1>1, <2>1, <2>2, <3>2, InnerType
      <3>7. v.aware = (text[Top.i] = "#")
        BY DEF Inner, Slice
      <3>8. Inside(text, v, {})
        <4>1. Whole(R, text, Top.i, Top.to, u) /\ Top.to \in Nat
          BY <2>2, <3>3, <3>4 DEF Spans, Whole, Pos
        <4> HIDE DEF v
        <4> QED
          BY <3>6, <3>7, <4>1, InsideNew
      <3> HIDE DEF w, v
      <3>9. Len(walks) >= 2 => Inside(text, w, {})
        <4>1. SUFFICES ASSUME Len(walks) >= 2 PROVE Inside(text, w, {})
          OBVIOUS
        <4>2. Inside(text, Top, {u})
          BY <1>1, <2>1, <3>2, <4>1, TopInside
        <4>3. Top.quote = {}
          BY <4>2 DEF Inside, Follows
        <4> QED
          BY <2>2, <3>2, <3>3, <3>5, <4>2, <4>3, InsideCloses
      <3>10. s \in Seq(Walk)
        BY <1>1, <2>1, <3>5, ReplaceLast DEF StackOK, Fits, WithTop
      <3>11. Deeper(s, {})
        BY <1>1, <2>1, <3>5, <3>9, DeeperOnward
      <3> HIDE DEF s
      <3>12. Deeper(Append(s, v), {})
        BY <3>6, <3>8, <3>10, <3>11, DeeperCall
      <3>13. Deeper(walks', {})
        BY <3>1, <3>11, <3>12
      <3> QED
        BY <3>1, <3>13 DEF Deeper
    <2> QED
      BY <2>4, <2>5, <2>6, <2>7, <2>8 DEF Next, Walks, Returns, DiagnoseEnd, DiagnoseClosed,
                                          DiagnoseOpen, Walking
  <1>6. CASE stage # "harvest" /\ Next /\ ~DiagnoseEnd /\ ~DiagnoseOpen
    <2>1. stage' = stage
      BY <1>6, ScanIsStep DEF Next, Walks, Returns, WalkByte, WalkOpener, WalkQuote, WalkQuoted,
                         HarvestEnd, Walking, DiagnoseClosed, HarvestClosed, HarvestStops
    <2> QED
      BY <1>6, <2>1
  <1> QED
    BY <1>3, <1>4, <1>5, <1>6

(* A scan inside a closed expression finds its brace.                       *)
LEMMA InsideImplies == IInv /\ HarvestInside => InnerAlwaysCloses
  <1> SUFFICES ASSUME IInv, HarvestInside, stage = "harvest", Fails PROVE Len(walks) = 1
    BY DEF InnerAlwaysCloses
  <1>1. StackOK /\ ScanOK /\ StageOK
    BY Parts
  <1>2. walks # <<>> /\ scan # {} /\ Deeper(walks, scan)
    BY <1>1 DEF StageOK, Fails, HarvestInside
  <1>3. Top \in Walk /\ Len(walks) \in Nat /\ Len(walks) >= 1
    BY <1>1, <1>2, TopType
  <1> DEFINE u == Cur
  <1>4. scan = {u} /\ u \in Scan
    BY <1>1, <1>2 DEF ScanOK, IsOption, InSlice, Cur
  <1>5. FailsAt(text, u, Top.to)
    BY <1>2, EndsAt
  <1> HIDE DEF u
  <1>6. ~(Len(walks) >= 2)
    <2> SUFFICES ASSUME Len(walks) >= 2 PROVE FALSE
      OBVIOUS
    <2>1. Inside(text, Top, {u})
      BY <1>1, <1>2, <1>4, TopInside
    <2> QED
      BY <1>3, <1>4, <1>5, <2>1, InsideNeverFails
  <1> DEFINE n == Len(walks)
  <1>7. n \in Nat /\ n >= 1 /\ ~(n >= 2)
    BY <1>3, <1>6
  <1> HIDE DEF n
  <1>8. n = 1
    BY <1>7
  <1> QED
    BY <1>8 DEF n

(* Inside an expression that has closed, every scan of the harvest finds    *)
(* its closing brace, whatever the text and the limit: the slice that the   *)
(* recursive call of extract_from_slice gets never cuts one short, and the  *)
(* harvest stops at nothing but an opener of the whole text.                *)
THEOREM InnerCloses == Spec => []InnerAlwaysCloses
  <1>1. Init => ScanRuns /\ HarvestInside
    BY DEF Init, ScanRuns, HarvestInside
  <1> DEFINE Inv == ScanRuns /\ HarvestInside
  <1>2. IInv /\ IInv' /\ Inv /\ [Next]_vars => Inv'
    BY ScanRunsOn, InsideOn
  <1>3. IInv /\ Inv => InnerAlwaysCloses
    BY InsideImplies
  <1> HIDE DEF Inv
  <1>4. Init => Inv
    BY <1>1 DEF Inv
  <1> QED
    BY <1>2, <1>3, <1>4, Invariance, PTL DEF Spec
-----------------------------------------------------------------------------
(* The outermost walk of either pass.  Where it goes on from a position     *)
(* depends on the text alone, so the harvest takes the way of the           *)
(* diagnosis: the set V of positions that the diagnosis has been at.        *)
End(x) == Len(x) + 1

Goes(x, i, k) ==
  \/ ~OpensIn(x, i, End(x)) /\ i + 1 < End(x) /\ k = i + 1
  \/ \E R, z : Spans(R, x, i, End(x), z) /\ ClosesAt(x, z, End(x)) /\ k = z.j + 1

Stuck(x, i) == \E R, z : Spans(R, x, i, End(x), z) /\ FailsAt(x, z, End(x))

GoesOn(V, i) == \E k \in V : Goes(text, i, k)

(* The diagnosis has got here, without a report yet.                        *)
Way(V) == 1 \in V /\ Top.i \in V /\ \A i \in V : i = Top.i \/ GoesOn(V, i)

Diagnosing ==
  stage = "diagnose" =>
    open = {} /\ stopped = {} /\ Top.to = End(text) /\ \E V : Way(V)

(* It has been through: each position leads to another, or it is where the  *)
(* diagnosis has ended, with a report exactly if it was stuck.              *)
Route(V) ==
  \A i \in V : \/ GoesOn(V, i)
               \/ open = {} /\ i + 1 >= End(text)
               \/ open = {i} /\ Stuck(text, i)

(* The outermost call of the harvest is on the way, or in the last byte,    *)
(* which the diagnosis does not read.                                       *)
OnWay(V, i) == i \in V \/ (open = {} /\ i + 1 >= End(text))

(* The scan it has called is on the run of the diagnosis.                   *)
Meets(V, i, s) ==
  \E R, z : /\ Spans(R, text, i, End(text), z) /\ s \in R
            /\ \/ ClosesAt(text, z, End(text)) /\ z.j + 1 \in V
               \/ FailsAt(text, z, End(text)) /\ open = {i}

Alone == Len(walks) = 1 /\ scan # {}

Plain(w) == w.to = End(text) /\ w.aware = FALSE /\ w.quote = {}

Harvests(V) == IF Alone THEN Meets(V, walks[1].i, Cur) ELSE OnWay(V, walks[1].i)

Harvesting ==
  stage = "harvest" =>
    stopped = {} /\ Plain(walks[1]) /\ \E V : Route(V) /\ Harvests(V)

Agreed == Diagnosing /\ Harvesting /\ DiagnosedIffNotHarvested

(* A scan does not both fail and find its brace.                            *)
LEMMA NotBoth ==
  ASSUME NEW x, NEW z, NEW to \in Nat, z.j \in Nat, ClosesAt(x, z, to)
  PROVE  ~FailsAt(x, z, to)
  BY DEF ClosesAt, FailsAt, Leaves, Nests, OpensIn

(* The harvest starts with the whole text.                                  *)
LEMMA HarvestStarts ==
  ASSUME walks' = WholeText, scan' = {}, text' = text, stage' = "harvest", stopped' = {},
         NEW V, Route(V)', 1 \in V
  PROVE  Agreed'
  <1>1. walks'[1] = Slice(1, 1, Len(text) + 1, FALSE) /\ Len(walks') = 1
    BY DEF WholeText
  <1>2. walks'[1].i = 1
    BY <1>1 DEF Slice
  <1>3. Plain(walks[1])'
    BY <1>1 DEF Plain, Slice, End
  <1>4. ~Alone'
    BY DEF Alone
  <1>5. Harvests(V)'
    BY <1>2, <1>4 DEF Harvests, OnWay
  <1>6. Harvesting'
    BY <1>3, <1>5 DEF Harvesting
  <1>7. Diagnosing' /\ DiagnosedIffNotHarvested'
    BY DEF Diagnosing, DiagnosedIffNotHarvested
  <1> QED
    BY <1>6, <1>7 DEF Agreed

(* The diagnosis goes on to k.                                              *)
LEMMA WayGrows ==
  ASSUME NEW V, Way(V), NEW k, Goes(text, Top.i, k), text' = text, Top'.i = k
  PROVE  \E W : Way(W)'
  <1> DEFINE W == V \cup {k}
  <1>1. \A i \in V : GoesOn(V, i) => GoesOn(W, i)
    BY DEF GoesOn
  <1>2. GoesOn(W, Top.i)
    BY DEF GoesOn
  <1>3. 1 \in W /\ k \in W
    BY DEF Way
  <1>4. \A i \in W : i = k \/ GoesOn(W, i)
    BY <1>1, <1>2 DEF Way
  <1> HIDE DEF W
  <1>5. \A i \in W : GoesOn(W, i)' <=> GoesOn(W, i)
    BY DEF GoesOn
  <1>6. Way(W)'
    BY <1>3, <1>4, <1>5 DEF Way
  <1> QED
    BY <1>6

(* The positions of the only call.                                          *)
LEMMA OnlyTop ==
  ASSUME StackOK, walks # <<>>, Len(walks) = 1
  PROVE  Top = walks[1]
  BY DEF Top

(* The innermost call moves.                                                *)
LEMMA MovedTo ==
  ASSUME StackOK, walks # <<>>, NEW i \in Pos
  PROVE  /\ Len(Moved(i)) = Len(walks) /\ Moved(i) # <<>>
         /\ Moved(i)[Len(walks)].i = i /\ Moved(i)[Len(walks)].to = Top.to
         /\ Moved(i)[Len(walks)].aware = Top.aware /\ Moved(i)[Len(walks)].quote = Top.quote
         /\ \A k \in 1 .. Len(walks) : k # Len(walks) => Moved(i)[k] = walks[k]
  <1> DEFINE w == [Top EXCEPT !.i = i]
             s == WithTop(w)
  <1>1. Top \in Walk /\ Len(walks) \in Nat /\ Len(walks) >= 1
    BY TopType
  <1>2. w \in Walk /\ w.i = i /\ w.to = Top.to /\ w.aware = Top.aware /\ w.quote = Top.quote
    BY <1>1 DEF Walk
  <1> HIDE DEF w
  <1>3. /\ s \in Seq(Walk) /\ Len(s) = Len(walks)
        /\ \A k \in 1 .. Len(walks) : s[k] = IF k = Len(walks) THEN w ELSE walks[k]
    BY <1>2, ReplaceLast DEF StackOK, Fits, WithTop
  <1>4. Moved(i) = s
    BY DEF Moved, w
  <1> HIDE DEF s
  <1>5. s # <<>> /\ s[Len(walks)] = w
    BY <1>1, <1>3, EmptySeq
  <1> QED
    BY <1>2, <1>3, <1>4, <1>5

(* The diagnosis and its end.                                               *)
LEMMA DiagnosisAgrees ==
  ASSUME IInv, IInv', ScanRuns, Agreed, stage = "diagnose", Next
  PROVE  Agreed'
  <1>1. StackOK /\ ScanOK /\ StageOK
    BY Parts
  <1>2. walks # <<>> /\ Len(walks) = 1
    BY <1>1 DEF StageOK
  <1>3. open = {} /\ stopped = {} /\ Top.to = End(text)
    BY DEF Agreed, Diagnosing
  <1>4. PICK V : Way(V)
    BY DEF Agreed, Diagnosing
  <1>5. Top.i \in Pos /\ Top.to \in Pos /\ Top.i \in Nat /\ Top.to \in Nat /\ Len(walks) \in Nat
    BY <1>1, <1>2, TopType DEF Pos
  <1>6. ASSUME NEW k \in Pos, walks' = Moved(k), Goes(text, Top.i, k),
               UNCHANGED <<text, stage, open, stopped>>
        PROVE  Agreed'
    <2>1. Top'.i = k /\ Top'.to = Top.to
      <3>1. Len(Moved(k)) = Len(walks) /\ Moved(k)[Len(walks)].i = k /\ Moved(k)[Len(walks)].to = Top.to
        BY <1>1, <1>2, MovedTo
      <3> QED
        BY <1>6, <3>1 DEF Top
    <2>2. \E W : Way(W)'
      BY <1>4, <1>6, <2>1, WayGrows
    <2>3. Diagnosing'
      BY <1>3, <1>6, <2>1, <2>2 DEF Diagnosing, End
    <2>4. Harvesting'
      BY <1>6 DEF Harvesting
    <2>5. DiagnosedIffNotHarvested'
      BY <1>6 DEF DiagnosedIffNotHarvested
    <2> QED
      BY <2>3, <2>4, <2>5 DEF Agreed
  <1>7. CASE WalkByte
    <2>1. Top.i + 1 < Top.to /\ ~OpensIn(text, Top.i, Top.to) /\ Top.i + 1 \in Pos
      <3>1. ~Ended /\ ~OpenerAt(Top.i)
        BY <1>7 DEF WalkByte
      <3>2. ~(Top.i + 1 >= Top.to)
        BY <3>1 DEF Ended
      <3>3. ~OpensIn(text, Top.i, Top.to)
        BY <3>1 DEF OpenerAt, OpensIn, OpensAt
      <3>4. Top.i + 1 < Top.to /\ Top.i + 1 \in Pos
        BY <1>5, <3>2 DEF Pos
      <3> QED
        BY <3>3, <3>4
    <2>2. Goes(text, Top.i, Top.i + 1)
      BY <1>3, <2>1 DEF Goes
    <2> QED
      BY <1>6, <1>7, <2>1, <2>2 DEF WalkByte
  <1>8. CASE WalkOpener \/ Scans
    <2>1. UNCHANGED <<text, stage, walks, open, stopped>>
      BY <1>8, ScanIsStep DEF WalkOpener
    <2>2. Diagnosing'
      BY <1>4, <2>1 DEF Agreed, Diagnosing, Way, GoesOn, Top
    <2> QED
      BY <2>1, <2>2 DEF Agreed, Harvesting, DiagnosedIffNotHarvested
  <1>9. CASE DiagnoseEnd
    <2>1. Top.i + 1 >= End(text)
      BY <1>3, <1>9 DEF DiagnoseEnd, Ended
    <2>2. Route(V)
      BY <1>3, <1>4, <2>1 DEF Way, Route
    <2>3. Route(V)' /\ 1 \in V
      BY <1>4, <1>9, <2>2 DEF DiagnoseEnd, Route, GoesOn, Way
    <2> QED
      BY <1>3, <1>9, <2>3, HarvestStarts DEF DiagnoseEnd, Walking
  <1>10. CASE DiagnoseClosed
    <2> DEFINE z == Cur
    <2>1. scan # {} /\ Closes /\ walks' = Moved(z.j + 1) /\ UNCHANGED <<text, stage, open, stopped>>
      BY <1>10 DEF DiagnoseClosed, Closes
    <2>2. ClosesAt(text, z, Top.to) /\ z.j + 1 \in Pos
      BY <1>1, <2>1, EndsAt, CurType DEF Pos
    <2>3. PICK R : Spans(R, text, Top.i, Top.to, z)
      BY <2>1 DEF ScanRuns
    <2> HIDE DEF z
    <2>4. Goes(text, Top.i, z.j + 1)
      BY <1>3, <2>2, <2>3 DEF Goes
    <2> QED
      BY <1>6, <2>1, <2>2, <2>4
  <1>11. CASE DiagnoseOpen
    <2> DEFINE z == Cur
    <2>1. scan # {} /\ Fails /\ open' = {Top.i} /\ UNCHANGED <<text, stopped>>
      BY <1>11 DEF DiagnoseOpen, Fails
    <2>2. FailsAt(text, z, Top.to)
      BY <2>1, EndsAt
    <2>3. PICK R : Spans(R, text, Top.i, Top.to, z)
      BY <2>1 DEF ScanRuns
    <2> HIDE DEF z
    <2>4. Stuck(text, Top.i)
      BY <1>3, <2>2, <2>3 DEF Stuck
    <2>5. \A i \in V : GoesOn(V, i) \/ (open' = {i} /\ Stuck(text, i))
      BY <1>4, <2>1, <2>4 DEF Way
    <2>6. Route(V)' /\ 1 \in V
      BY <1>4, <2>1, <2>5 DEF Route, GoesOn, Way
    <2> QED
      BY <1>3, <1>11, <2>6, HarvestStarts DEF DiagnoseOpen
  <1> QED
    BY <1>7, <1>8, <1>9, <1>10, <1>11
       DEF Next, Walks, Returns, WalkQuote, WalkQuoted, HarvestEnd, HarvestClosed, HarvestStops,
           Walking

(* The outermost call of the harvest goes on behind a byte.                 *)
LEMMA OnWayOn ==
  ASSUME NEW V, Route(V), NEW i \in Nat, OnWay(V, i), ~OpensIn(text, i, End(text)),
         End(text) \in Nat
  PROVE  OnWay(V, i + 1)
  <1>1. CASE open = {} /\ i + 1 >= End(text)
    BY <1>1 DEF OnWay
  <1>2. CASE i \in V /\ ~(open = {} /\ i + 1 >= End(text))
    <2>1. ~Stuck(text, i)
      BY DEF Stuck, Spans
    <2>2. PICK k \in V : Goes(text, i, k)
      BY <1>2, <2>1 DEF Route, GoesOn
    <2>3. k = i + 1
      BY <2>2 DEF Goes, Spans
    <2> QED
      BY <2>3 DEF OnWay
  <1> QED
    BY <1>1, <1>2 DEF OnWay

(* It meets an opener, and calls the scan that the diagnosis has called.    *)
LEMMA OnWayOpens ==
  ASSUME NEW V, Route(V), NEW i \in Nat, OnWay(V, i), OpensIn(text, i, End(text)),
         End(text) \in Nat
  PROVE  Meets(V, i, From(text, i))
  <1>1. i + 1 < End(text) /\ i \in V
    BY DEF OpensIn, OnWay
  <1>2. CASE GoesOn(V, i)
    <2>1. PICK k \in V : Goes(text, i, k)
      BY <1>2 DEF GoesOn
    <2>2. PICK R, z : /\ Spans(R, text, i, End(text), z) /\ ClosesAt(text, z, End(text))
                      /\ k = z.j + 1
      BY <2>1 DEF Goes
    <2>3. From(text, i) \in R
      BY <2>2 DEF Spans, Runs
    <2> QED
      BY <2>1, <2>2, <2>3 DEF Meets
  <1>3. CASE open = {i} /\ Stuck(text, i)
    <2>1. PICK R, z : Spans(R, text, i, End(text), z) /\ FailsAt(text, z, End(text))
      BY <1>3 DEF Stuck
    <2>2. From(text, i) \in R
      BY <2>1 DEF Spans, Runs
    <2> QED
      BY <1>3, <2>1, <2>2 DEF Meets
  <1>4. CASE open = {} /\ i + 1 >= End(text)
    BY <1>1, <1>4
  <1> QED
    BY <1>1, <1>2, <1>3, <1>4 DEF Route

(* It has read the text, and so has the diagnosis.                          *)
LEMMA OnWayEnds ==
  ASSUME NEW V, Route(V), NEW i \in Nat, OnWay(V, i), i >= End(text), End(text) \in Nat
  PROVE  open = {}
  <1>1. ~OpensIn(text, i, End(text)) /\ ~(i + 1 < End(text))
    BY DEF OpensIn
  <1>2. ~Stuck(text, i) /\ ~GoesOn(V, i)
    BY <1>1 DEF Stuck, GoesOn, Goes, Spans
  <1> QED
    BY <1>2 DEF OnWay, Route

(* The scan goes on as the diagnosis's did.                                 *)
LEMMA MeetsOn ==
  ASSUME NEW V, NEW i, NEW s, Meets(V, i, s),
         ~FailsAt(text, s, End(text)), ~ClosesAt(text, s, End(text))
  PROVE  Meets(V, i, StepOf(text, s, End(text)))
  <1>1. PICK R, z : /\ Spans(R, text, i, End(text), z) /\ s \in R
                    /\ \/ ClosesAt(text, z, End(text)) /\ z.j + 1 \in V
                       \/ FailsAt(text, z, End(text)) /\ open = {i}
    BY DEF Meets
  <1>2. s # z
    BY <1>1
  <1>3. StepOf(text, s, End(text)) \in R
    BY <1>1, <1>2 DEF Spans, Runs
  <1> QED
    BY <1>1, <1>3 DEF Meets

(* It closes where the diagnosis's did.                                     *)
LEMMA MeetsCloses ==
  ASSUME NEW V, NEW i, NEW s, Meets(V, i, s), s.j \in Nat, End(text) \in Nat,
         ClosesAt(text, s, End(text))
  PROVE  s.j + 1 \in V
  <1>1. PICK R, z : /\ Spans(R, text, i, End(text), z) /\ s \in R
                    /\ \/ ClosesAt(text, z, End(text)) /\ z.j + 1 \in V
                       \/ FailsAt(text, z, End(text)) /\ open = {i}
    BY DEF Meets
  <1>2. s = z
    BY <1>1 DEF Spans, Runs
  <1>3. ~FailsAt(text, s, End(text))
    BY NotBoth
  <1> QED
    BY <1>1, <1>2, <1>3

(* It fails where the diagnosis's did, which has been reported.             *)
LEMMA MeetsFails ==
  ASSUME NEW V, NEW i, NEW s, Meets(V, i, s), s.j \in Nat, End(text) \in Nat,
         FailsAt(text, s, End(text))
  PROVE  open = {i}
  <1>1. PICK R, z : /\ Spans(R, text, i, End(text), z) /\ s \in R
                    /\ \/ ClosesAt(text, z, End(text)) /\ z.j + 1 \in V
                       \/ FailsAt(text, z, End(text)) /\ open = {i}
    BY DEF Meets
  <1>2. s = z
    BY <1>1 DEF Spans, Runs
  <1>3. ~ClosesAt(text, s, End(text))
    BY NotBoth
  <1> QED
    BY <1>1, <1>2, <1>3

(* The steps of the harvest.                                                *)
LEMMA HarvestAgrees ==
  ASSUME IInv, IInv', ScanRuns, Agreed, stage = "harvest", Next
  PROVE  Agreed'
  <1>1. StackOK /\ ScanOK /\ StageOK
    BY Parts
  <1>2. walks # <<>>
    BY <1>1 DEF StageOK
  <1>3. stopped = {} /\ Plain(walks[1])
    BY DEF Agreed, Harvesting
  <1>4. PICK V : Route(V) /\ Harvests(V)
    BY DEF Agreed, Harvesting
  <1>5. Top \in Walk /\ Top.i \in Nat /\ Top.i \in Pos /\ Top.to \in Nat
        /\ Len(walks) \in Nat /\ Len(walks) >= 1
    BY <1>1, <1>2, TopType DEF Pos
  <1>6. ASSUME Len(walks) = 1
        PROVE  /\ Top = walks[1] /\ Top.to = End(text) /\ ~Top.aware /\ Top.quote = {}
               /\ End(text) \in Nat
    <2>1. Top = walks[1]
      BY <1>6 DEF Top
    <2> QED
      BY <1>3, <1>5, <2>1 DEF Plain
  <1>7. ASSUME Len(walks) # 1
         PROVE  Len(walks) >= 2
    <2> DEFINE n == Len(walks)
    <2>1. n \in Nat /\ n >= 1 /\ n # 1
      BY <1>5, <1>7
    <2> HIDE DEF n
    <2>2. n >= 2
      BY <2>1
    <2> QED
      BY <2>2 DEF n
  <1>8. ASSUME stage' = "harvest", UNCHANGED <<text, open, stopped>>, Plain(walks'[1]),
               Harvests(V)'
        PROVE  Agreed'
    <2>1. Plain(walks[1])' /\ Route(V)'
      BY <1>4, <1>8 DEF Plain, Route, GoesOn, End
    <2>2. Harvesting'
      BY <1>3, <1>8, <2>1 DEF Harvesting
    <2>3. Diagnosing'
      BY <1>8 DEF Diagnosing
    <2>4. DiagnosedIffNotHarvested'
      BY <1>8 DEF DiagnosedIffNotHarvested
    <2> QED
      BY <2>2, <2>3, <2>4 DEF Agreed
  <1>9. ASSUME Len(walks) # 1, stage' = "harvest", UNCHANGED <<text, open, stopped>>,
               walks'[1] = walks[1], Len(walks') # 1 \/ scan' = {}
        PROVE  Agreed'
    <2>1. ~Alone
      BY <1>9 DEF Alone
    <2>2. ~Alone'
      BY <1>9 DEF Alone
    <2>3. OnWay(V, walks[1].i)
      BY <1>4, <2>1 DEF Harvests
    <2>4. Harvests(V)'
      BY <1>9, <2>2, <2>3 DEF Harvests, OnWay, End
    <2> QED
      BY <1>3, <1>8, <1>9, <2>4
  <1>10. CASE WalkByte \/ WalkQuote \/ WalkQuoted
    <2>1. scan = {} /\ scan' = {} /\ UNCHANGED <<text, stage, open, stopped>> /\ ~Ended
      BY <1>10 DEF WalkByte, WalkQuote, WalkQuoted, Walking
    <2>2. CASE Len(walks) = 1
      <3> DEFINE i == Top.i
      <3>1. WalkByte
        BY <1>6, <1>10, <2>2 DEF WalkQuote, WalkQuoted
      <3>2. walks' = Moved(i + 1) /\ ~OpensIn(text, i, End(text))
        BY <1>6, <2>2, <3>1 DEF WalkByte, OpenerAt, OpensIn, OpensAt
      <3>3. i + 1 \in Pos
        BY <1>5 DEF Pos
      <3>4. /\ walks'[1].i = i + 1 /\ walks'[1].to = Top.to
            /\ walks'[1].aware = Top.aware /\ walks'[1].quote = Top.quote
        BY <1>1, <1>2, <2>2, <3>2, <3>3, MovedTo
      <3>5. Plain(walks'[1])
        BY <1>3, <1>6, <2>2, <3>4 DEF Plain
      <3>6. OnWay(V, i)
        BY <1>4, <1>6, <2>1, <2>2 DEF Harvests, Alone
      <3>7. OnWay(V, i + 1)
        BY <1>4, <1>5, <1>6, <2>2, <3>2, <3>6, OnWayOn
      <3>8. ~Alone'
        BY <2>1 DEF Alone
      <3>9. Harvests(V)'
        BY <2>1, <3>4, <3>7, <3>8 DEF Harvests, OnWay, End
      <3> QED
        BY <1>8, <2>1, <3>5, <3>9
    <2>3. CASE Len(walks) # 1
      <3>1. walks'[1] = walks[1]
        BY <1>1, <1>2, <1>5, <1>7, <1>10, <2>3 DEF WalkByte, WalkQuote, WalkQuoted, Moved, WithTop
      <3> QED
        BY <1>9, <2>1, <2>3, <3>1
    <2> QED
      BY <2>2, <2>3
  <1>11. CASE WalkOpener
    <2> DEFINE i == Top.i
    <2>1. /\ scan = {} /\ scan' = {From(text, i)} /\ OpensIn(text, i, Top.to)
          /\ UNCHANGED <<text, stage, walks, open, stopped>>
      BY <1>11 DEF WalkOpener, ScanFrom, From, LevelFor, LevelAt, OpenerAt, OpensIn, OpensAt
    <2>2. CASE Len(walks) = 1
      <3>1. OnWay(V, i)
        BY <1>4, <1>6, <2>1, <2>2 DEF Harvests, Alone
      <3>2. Meets(V, i, From(text, i))
        BY <1>4, <1>5, <1>6, <2>1, <2>2, <3>1, OnWayOpens
      <3>3. Cur' = From(text, i)
        BY <2>1, CurIsAgain
      <3>4. Alone' /\ walks'[1].i = i
        BY <1>6, <2>1, <2>2 DEF Alone
      <3>5. Harvests(V)'
        BY <2>1, <3>2, <3>3, <3>4 DEF Harvests, Meets, End
      <3> QED
        BY <1>3, <1>8, <2>1, <3>5
    <2>3. CASE Len(walks) # 1
      BY <1>9, <2>1, <2>3
    <2> QED
      BY <2>2, <2>3
  <1>12. CASE Scans
    <2> DEFINE u == Cur
               v == StepOf(text, u, Top.to)
    <2>1. /\ ~FailsAt(text, u, Top.to) /\ ~ClosesAt(text, u, Top.to)
          /\ scan' = {v} /\ scan # {} /\ UNCHANGED <<text, stage, walks, open, stopped>>
      BY <1>12, ScanIsStep
    <2>2. CASE Len(walks) = 1
      <3>1. Meets(V, Top.i, u)
        BY <1>4, <1>6, <2>1, <2>2 DEF Harvests, Alone
      <3>2. Meets(V, Top.i, v)
        BY <1>6, <2>1, <2>2, <3>1, MeetsOn
      <3>3. Cur' = v
        BY <2>1, CurIsAgain
      <3> HIDE DEF u, v
      <3>4. Alone' /\ walks'[1].i = Top.i
        BY <1>6, <2>1, <2>2 DEF Alone
      <3>5. Harvests(V)'
        BY <2>1, <3>2, <3>3, <3>4 DEF Harvests, Meets, End
      <3> QED
        BY <1>3, <1>8, <2>1, <3>5
    <2>3. CASE Len(walks) # 1
      BY <1>9, <2>1, <2>3
    <2> QED
      BY <2>2, <2>3
  <1>13. CASE HarvestEnd
    <2>1. /\ scan = {} /\ scan' = {} /\ Return /\ Top.i >= Top.to
          /\ UNCHANGED <<text, open, stopped>>
      BY <1>13 DEF HarvestEnd, Walking, Ended
    <2>2. CASE Len(walks) = 1
      <3>1. OnWay(V, Top.i)
        BY <1>4, <1>6, <2>1, <2>2 DEF Harvests, Alone
      <3>2. open = {}
        BY <1>4, <1>5, <1>6, <2>1, <2>2, <3>1, OnWayEnds
      <3>3. stage' = "done" /\ stopped' = open'
        BY <1>3, <2>1, <2>2, <3>2 DEF Return
      <3> QED
        BY <3>3 DEF Agreed, Diagnosing, Harvesting, DiagnosedIffNotHarvested
    <2>3. CASE Len(walks) # 1
      <3>1. stage' = "harvest" /\ walks' = Rest
        BY <2>1, <2>3 DEF Return
      <3>2. walks'[1] = walks[1]
        BY <1>1, <1>2, <1>5, <1>7, <2>3, <3>1, RemoveLast DEF StackOK, Fits, Rest
      <3> QED
        BY <1>9, <2>1, <2>3, <3>1, <3>2
    <2> QED
      BY <2>2, <2>3
  <1>14. CASE HarvestStops
    <2> DEFINE u == Cur
    <2>1. /\ scan # {} /\ scan' = {} /\ Return /\ Fails
          /\ stopped' = (IF Len(walks) = 1 THEN {Top.i} ELSE stopped)
          /\ UNCHANGED <<text, open>>
      BY <1>14 DEF HarvestStops, Fails
    <2>2. CASE Len(walks) = 1
      <3>1. Meets(V, Top.i, u)
        BY <1>4, <1>6, <2>1, <2>2 DEF Harvests, Alone
      <3>2. FailsAt(text, u, Top.to) /\ u.j \in Nat
        BY <1>1, <2>1, EndsAt, CurType DEF Pos
      <3>3. open = {Top.i}
        BY <1>6, <2>2, <3>1, <3>2, MeetsFails
      <3>4. stage' = "done" /\ stopped' = open'
        BY <2>1, <2>2, <3>3 DEF Return
      <3> QED
        BY <3>4 DEF Agreed, Diagnosing, Harvesting, DiagnosedIffNotHarvested
    <2>3. CASE Len(walks) # 1
      <3>1. stage' = "harvest" /\ walks' = Rest /\ stopped' = stopped
        BY <2>1, <2>3 DEF Return
      <3>2. walks'[1] = walks[1]
        BY <1>1, <1>2, <1>5, <1>7, <2>3, <3>1, RemoveLast DEF StackOK, Fits, Rest
      <3> QED
        BY <1>9, <2>1, <2>3, <3>1, <3>2
    <2> QED
      BY <2>2, <2>3
  <1>15. CASE HarvestClosed
    <2> DEFINE u == Cur
               s == Moved(u.j + 1)
               v == Inner(Top.i, u.j)
    <2>1. /\ scan # {} /\ scan' = {} /\ Closes /\ UNCHANGED <<text, stage, open, stopped>>
          /\ walks' = IF Descends THEN Append(s, v) ELSE s
      BY <1>15 DEF HarvestClosed, Closes
    <2>2. ClosesAt(text, u, Top.to) /\ u.j \in Nat /\ u.j + 1 \in Pos
      BY <1>1, <2>1, EndsAt, CurType DEF Pos
    <2>3. /\ Len(s) = Len(walks)
          /\ s[Len(walks)].i = u.j + 1 /\ s[Len(walks)].to = Top.to
          /\ s[Len(walks)].aware = Top.aware /\ s[Len(walks)].quote = Top.quote
          /\ \A k \in 1 .. Len(walks) : k # Len(walks) => s[k] = walks[k]
      BY <1>1, <1>2, <2>2, MovedTo
    <2>4. s \in Seq(Walk)
      BY <1>1, <1>2, <1>5, <2>2, ReplaceLast DEF StackOK, Fits, Moved, WithTop, Walk
    <2> HIDE DEF s, v, u
    <2>5. walks'[1] = s[1]
      BY <1>5, <2>1, <2>3, <2>4
    <2>6. CASE Len(walks) = 1
      <3>1. Meets(V, Top.i, u)
        BY <1>4, <1>6, <2>1, <2>6 DEF Harvests, Alone, u
      <3>2. u.j + 1 \in V
        BY <1>6, <2>2, <2>6, <3>1, MeetsCloses
      <3>3. ~Alone'
        BY <2>1 DEF Alone
      <3>4. walks'[1].i = u.j + 1
        BY <2>3, <2>5, <2>6
      <3>5. Harvests(V)'
        BY <2>1, <3>2, <3>3, <3>4 DEF Harvests, OnWay, End
      <3>6. Plain(walks'[1])
        BY <1>3, <1>6, <2>3, <2>5, <2>6 DEF Plain
      <3> QED
        BY <1>8, <2>1, <3>5, <3>6
    <2>7. CASE Len(walks) # 1
      <3>1. walks'[1] = walks[1]
        BY <1>5, <1>7, <2>3, <2>5, <2>7
      <3> QED
        BY <1>9, <2>1, <2>7, <3>1
    <2> QED
      BY <2>6, <2>7
  <1> QED
    BY <1>10, <1>11, <1>12, <1>13, <1>14, <1>15
       DEF Next, Walks, Returns, DiagnoseEnd, DiagnoseClosed, DiagnoseOpen, Walking

(* Once both have ended, no scan is called.                                 *)
LEMMA DoneIsDone == IInv /\ Next => stage # "done"
  <1> SUFFICES ASSUME IInv, Next, stage = "done" PROVE FALSE
    OBVIOUS
  <1>1. scan = {}
    BY Parts DEF StageOK
  <1> QED
    BY <1>1, ScanIsStep DEF Next, Walks, Returns, WalkByte, WalkOpener, WalkQuote, WalkQuoted,
                            DiagnoseEnd, HarvestEnd, Walking, DiagnoseClosed, DiagnoseOpen,
                            HarvestClosed, HarvestStops

(* An expression is diagnosed as never closing exactly if the harvest stops *)
(* at it, for every text and limit: check_unterminated_placeholders and     *)
(* extract_from_slice, which walk the text by loops of their own, call      *)
(* scan_braced_expr at the same openers and get the same answers.           *)
THEOREM DiagnosedWhatIsNotHarvested == Spec => []DiagnosedIffNotHarvested
  <1>1. Init => ScanRuns /\ Agreed
    <2> SUFFICES ASSUME Init PROVE ScanRuns /\ Agreed
      OBVIOUS
    <2>1. Top = Slice(1, 1, Len(text) + 1, FALSE)
      BY DEF Init, Top
    <2>2. Top.i = 1 /\ Top.to = End(text)
      BY <2>1 DEF Slice, End
    <2>3. Way({1})
      BY <2>2 DEF Way
    <2>4. Diagnosing
      BY <2>2, <2>3 DEF Init, Diagnosing
    <2>5. Harvesting /\ DiagnosedIffNotHarvested /\ ScanRuns
      BY DEF Init, Harvesting, DiagnosedIffNotHarvested, ScanRuns
    <2> QED
      BY <2>4, <2>5 DEF Agreed
  <1> DEFINE Inv == ScanRuns /\ Agreed
  <1>2. IInv /\ IInv' /\ Inv /\ [Next]_vars => Inv'
    <2> SUFFICES ASSUME IInv, IInv', Inv, [Next]_vars PROVE Agreed'
      BY ScanRunsOn
    <2>1. CASE UNCHANGED vars
      <3>1. Diagnosing'
        BY <2>1 DEF vars, Agreed, Diagnosing, Way, GoesOn, Top
      <3>2. Harvesting'
        BY <2>1 DEF vars, Agreed, Harvesting, Route, GoesOn, Harvests, Alone, OnWay, Meets,
                    Plain, Cur, End
      <3>3. DiagnosedIffNotHarvested'
        BY <2>1 DEF vars, Agreed, DiagnosedIffNotHarvested
      <3> QED
        BY <3>1, <3>2, <3>3 DEF Agreed
    <2>2. CASE Next
      <3>1. stage \in {"diagnose", "harvest"}
        BY <2>2, DoneIsDone, Parts DEF StageOK
      <3> QED
        BY <2>2, <3>1, DiagnosisAgrees, HarvestAgrees
    <2> QED
      BY <2>1, <2>2
  <1>3. Inv => DiagnosedIffNotHarvested
    BY DEF Agreed
  <1> HIDE DEF Inv
  <1>4. Init => Inv
    BY <1>1 DEF Inv
  <1> QED
    BY <1>2, <1>3, <1>4, Invariance, PTL DEF Spec
=============================================================================
