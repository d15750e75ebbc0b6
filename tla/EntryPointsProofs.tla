-------------------------- MODULE EntryPointsProofs --------------------------
(* Proofs, for any inputs, registry and limits, that the entry points agree *)
(* with each other and that the decoding chain does what it promises.       *)
EXTENDS EntryPoints, StackLemmas

(* What the chain settles on, as a function of the bytes: the mark the text *)
(* is decoded by.                                                           *)
ByMark(b, e, off)  == IF off < Len(b.marks) THEN b.marks[off + 1] ELSE e
Offset(b, off)     == IF off < Len(b.marks) THEN off + 1 ELSE off
WholeBy(b, e, off) == <<ByMark(b, e, off), Offset(b, off)>> \in b.clean

Sniffed(b) == b.marks # <<>> /\ Head(b.marks) \in Utf16 /\ WholeBy(b, Head(b.marks), 1)
Stripped(b) == IF b.marks # <<>> /\ Head(b.marks) = Utf8 THEN 1 ELSE 0
LabelOf(b)  == DetectDeclared(b.prolog, Stripped(b) < Len(b.marks))
IsUtf8(b)   == <<Utf8, Stripped(b)>> \in b.clean
Fitting(b)  == {e \in {Resolve(l) : l \in LabelOf(b)} \ {Nothing} : WholeBy(b, e, Stripped(b))}

Fit(b) == CHOOSE e \in Fitting(b) : TRUE

(* An outcome of the chain: the decoder, the mark it starts from, the       *)
(* encoding that is reported and what is said of it.                        *)
Tried(b, e, off, ds) ==
  [by |-> ByMark(b, e, off), from |-> Offset(b, off), encoding |-> e, said |-> ds]
Plain(b, ds) == [by |-> Utf8, from |-> Stripped(b), encoding |-> Utf8, said |-> ds]

Chain(b) ==
  IF Sniffed(b) THEN Tried(b, Head(b.marks), 1, <<>>)
  ELSE IF IsUtf8(b) THEN Plain(b, Mismatch(LabelOf(b), Utf8))
  ELSE IF Fitting(b) # {} THEN Tried(b, Fit(b), Stripped(b), Mismatch(LabelOf(b), Fit(b)))
  ELSE IF WholeBy(b, EucKr, Stripped(b))
       THEN Tried(b, EucKr, Stripped(b), Mismatch(LabelOf(b), EucKr))
  ELSE Plain(b, <<"EncodingUndetectable">>)

(* What call c has when it has a text: parse is given one.                  *)
Given(c, b) ==
  IF c = "parse" THEN [by |-> Utf8, from |-> 0, encoding |-> Utf8, said |-> <<>>] ELSE Chain(b)

(* From mark number from on, the marks up to k are the decoder's own and    *)
(* the next one is not.                                                     *)
OwnMarks(b, by, from, k) == \A i \in from + 1 .. k : b.marks[i] = by
Ends(b, by, from, k) ==
  /\ k \in Nat /\ from <= k /\ k <= Len(b.marks)
  /\ OwnMarks(b, by, from, k)
  /\ ~(k < Len(b.marks) /\ b.marks[k + 1] = by)

(* The answer of a call: a check says yes or no and nothing else.           *)
Answered(c, beans, e, at, ds) ==
  [is |-> "done", beans |-> beans,
   encoding |-> IF c \in Checks THEN Nothing ELSE e,
   base |-> IF c \in Checks THEN 0 ELSE at,
   diagnostics |-> IF c \in Checks THEN <<>> ELSE ds]

NotBeans(b, by) == IF b.root[by] = "beans" THEN <<>> ELSE <<"NotBeansRoot">>

Finds(c, b, o, k) ==
  Answered(c, b.root[o.by] = "beans", o.encoding, 3 * (k - o.from), o.said \o NotBeans(b, o.by))

Refused(c, b) == c # "parse" /\ b.size > MaxInputBytes

(* a is what call c answers for the bytes b.                                *)
Says(c, b, a) ==
  \/ /\ Refused(c, b)
     /\ a = Answered(c, FALSE, Nothing, 0, <<"OversizeInput">>)
  \/ /\ ~Refused(c, b)
     /\ \E k : Ends(b, Given(c, b).by, Given(c, b).from, k) /\ a = Finds(c, b, Given(c, b), k)

(* What a call has established when it is at a stage.                       *)
TextReached(o) ==
  /\ text.by = o.by /\ encoding = o.encoding /\ diagnostics = o.said
  /\ o.from \in Nat /\ o.from <= text.from
  /\ base = 3 * (text.from - o.from)
  /\ OwnMarks(bytes, o.by, o.from, text.from)

Trying == {"utf-8", "declared", "euc-kr", "lossy"}

Reached ==
  /\ stage \in Trying \cup {"strip"} => ~Sniffed(bytes) /\ bytes.size <= MaxInputBytes
  /\ stage \in Trying => marksOff = Stripped(bytes) /\ declared = LabelOf(bytes)
  /\ stage \in Trying \ {"utf-8"} => ~IsUtf8(bytes)
  /\ stage \in {"euc-kr", "lossy"} => Fitting(bytes) = {}
  /\ stage = "lossy" => ~WholeBy(bytes, EucKr, Stripped(bytes))
  /\ stage = "text" => TextReached(Given(call, bytes))
  /\ stage = "text" /\ call # "parse" =>
       bytes.size <= MaxInputBytes /\ (~Sniffed(bytes) => declared = LabelOf(bytes))

(* There is a text only at its stage, and the marks taken off are marks the *)
(* bytes have.                                                              *)
TextAtItsStage ==
  /\ stage # "text" => text = NoText
  /\ stage \notin {"text", "idle"} => base = 0
  /\ stage \in Trying => marksOff <= Len(bytes.marks)

Settled ==
  /\ stage \notin {"idle", "require"} => bytes = input.bytes /\ Reached
  /\ call = "parse" => stage = "text" /\ IsText(input.bytes)
  /\ Done("parse") => IsText(input.bytes)
  /\ \A c \in Calls : Done(c) => Says(c, input.bytes, answers[c])

InputOK == input \in Inputs

(* The inductive invariant.                                                 *)
IInv == TypeOK /\ InputOK /\ TextAtItsStage /\ Settled
-----------------------------------------------------------------------------
(* Lemmas about the operators of EntryPoints.                               *)

(* The bytes a call works on are those of an input, or none.                *)
LEMMA MarksFacts ==
  ASSUME InputOK, NEW b \in {input.bytes, NoBytes}
  PROVE  b.marks \in Seq({Utf8} \cup Utf16) /\ b.size \in Nat
  <1>1. input.bytes.marks \in Seq({Utf8} \cup Utf16) /\ input.bytes.size \in Nat
    BY InputsAssumption DEF InputOK
  <1>2. NoBytes.marks \in Seq({Utf8} \cup Utf16) /\ NoBytes.size \in Nat
    BY DEF NoBytes
  <1> QED
    BY <1>1, <1>2

(* The bytes of the call under way, and the encodings there are.            *)
LEMMA BytesFacts ==
  ASSUME TypeOK, InputOK
  PROVE  /\ bytes.marks \in Seq({Utf8} \cup Utf16)
         /\ {Utf8, EucKr} \cup Utf16 \subseteq Encodings
         /\ bytes.marks # <<>> => Len(bytes.marks) >= 1 /\ Head(bytes.marks) = bytes.marks[1]
         /\ bytes.size \in Nat
  <1>1. bytes \in {input.bytes, NoBytes}
    BY DEF TypeOK
  <1>2. bytes.marks \in Seq({Utf8} \cup Utf16) /\ bytes.size \in Nat
    BY <1>1, MarksFacts
  <1>3. {Utf8, EucKr} \cup Utf16 \subseteq Encodings
    BY EncodingsAssumption
  <1>4. bytes.marks # <<>> => Len(bytes.marks) >= 1 /\ Head(bytes.marks) = bytes.marks[1]
    BY <1>2
  <1> QED
    BY <1>2, <1>3, <1>4

(* A decoder is the encoding asked for, or a mark of the bytes.             *)
LEMMA DecodeFacts ==
  ASSUME TypeOK, InputOK, NEW e \in Encodings, NEW off \in Nat, off <= Len(bytes.marks)
  PROVE  /\ Decode(e, off).by \in Encodings
         /\ Decode(e, off).from \in 0 .. Len(bytes.marks)
         /\ Decode(e, off).by = ByMark(bytes, e, off)
         /\ Decode(e, off).from = Offset(bytes, off)
         /\ Decode(e, off).whole = WholeBy(bytes, e, off)
  <1>1. bytes.marks \in Seq({Utf8} \cup Utf16) /\ {Utf8} \cup Utf16 \subseteq Encodings
    BY BytesFacts
  <1>2. off < Len(bytes.marks) => bytes.marks[off + 1] \in Encodings
    BY <1>1
  <1> QED
    BY <1>1, <1>2 DEF Decode, ByMark, WholeBy, Offset

(* A label resolves to an encoding, or to nothing.                          *)
LEMMA ResolveFacts ==
  ASSUME NEW l
  PROVE  Resolve(l) \in Encodings \cup {Nothing}
  BY EncodingsAssumption DEF Resolve

(* At most one label is declared.                                           *)
LEMMA OneLabel ==
  ASSUME NEW p, NEW m, NEW l1 \in DetectDeclared(p, m), NEW l2 \in DetectDeclared(p, m)
  PROVE  l1 = l2
  BY DEF DetectDeclared

(* So only one encoding can fit it.                                         *)
LEMMA OnlyFit ==
  ASSUME NEW b, NEW e1 \in Fitting(b), NEW e2 \in Fitting(b)
  PROVE  e1 = e2
  <1>1. \A l1, l2 \in LabelOf(b) : l1 = l2
    BY OneLabel DEF LabelOf
  <1> QED
    BY <1>1 DEF Fitting

(* A mismatch is said with a code of the chain.                             *)
LEMMA MismatchFacts ==
  ASSUME NEW labels, NEW e
  PROVE  Mismatch(labels, e) \in Seq(Codes)
  <1>1. <<>> \in Seq(Codes) /\ <<"EncodingMismatch">> \in Seq(Codes)
    BY DEF Codes
  <1> QED
    BY <1>1 DEF Mismatch

(* Before the first call nothing has been established.                      *)
LEMMA InitIInv == Init => IInv
  <1> SUFFICES ASSUME Init PROVE IInv
    OBVIOUS
  <1> USE DEF Init
  <1>1. TypeOK
    <2>1. input.bytes.marks \in Seq({Utf8} \cup Utf16)
      BY InputsAssumption
    <2>2. answers \in [Calls -> Answers]
      BY DEF Answers
    <2>3. text.by = Nothing /\ text.from = 0 /\ NoBytes.marks = <<>>
      BY DEF NoText, NoBytes
    <2> QED
      BY <2>1, <2>2, <2>3 DEF TypeOK
  <1>2. InputOK /\ TextAtItsStage
    BY DEF InputOK, TextAtItsStage
  <1>3. Settled
    BY DEF Settled, Done, NotAsked, Nothing, Calls, Core, Js
  <1> QED
    BY <1>1, <1>2, <1>3 DEF IInv
-----------------------------------------------------------------------------
(* The kinds of step: a call begins, goes on without a text, has its text,  *)
(* or is answered.                                                          *)

(* A call begins: parse with a text, the others with bytes or with a value. *)
LEMMA FreshStep ==
  ASSUME IInv, NEW c \in Calls, NEW b \in {input.bytes, NoBytes}, Fresh(c, b),
         stage = "idle", stage' \in {"size", "require", "text"},
         UNCHANGED <<input, live, answers>>,
         encoding' \in Encodings \cup {Nothing}, text'.from = 0,
         text'.by \in Encodings \cup {Nothing}, stage' = "text" => text'.by \in Encodings,
         stage' # "text" => text' = NoText,
         stage' # "require" => b = input.bytes,
         stage' = "text" => c = "parse" /\ text'.by = Utf8 /\ encoding' = Utf8,
         c = "parse" => stage' = "text" /\ IsText(input.bytes)
  PROVE  IInv'
  <1>1. input.bytes.marks \in Seq({Utf8} \cup Utf16) /\ b.marks \in Seq({Utf8} \cup Utf16)
    BY MarksFacts DEF IInv
  <1>2. TypeOK'
    <2>1. <<>> \in Seq(Codes)
      OBVIOUS
    <2>2. Nothing \notin Calls
      BY DEF Nothing, Calls, Core, Js
    <2> QED
      BY <1>1, <2>1, <2>2 DEF IInv, TypeOK, Fresh
  <1>3. InputOK' /\ TextAtItsStage'
    BY DEF IInv, InputOK, TextAtItsStage, Fresh
  <1>4. Settled'
    <2>1. stage' = "text" => TextReached(Given(call, bytes))'
      BY DEF TextReached, Given, Fresh, OwnMarks
    <2> QED
      BY <2>1 DEF IInv, Settled, Fresh, Done, Reached, Trying
  <1> QED
    BY <1>2, <1>3, <1>4 DEF IInv

(* A call is answered.                                                      *)
LEMMA AnswerStep ==
  ASSUME IInv, NEW a \in Answers, Answer(a), stage # "idle",
         a.is = "done" => Says(call, input.bytes, a)
  PROVE  IInv'
  <1>1. input.bytes.marks \in Seq({Utf8} \cup Utf16)
    BY InputsAssumption DEF IInv, InputOK
  <1>2. TypeOK'
    <2>1. text'.by = Nothing /\ text'.from = 0 /\ NoBytes.marks = <<>>
      BY DEF Answer, NoText, NoBytes
    <2> QED
      BY <1>1, <2>1 DEF IInv, TypeOK, Answer
  <1>3. InputOK' /\ TextAtItsStage'
    BY DEF IInv, InputOK, TextAtItsStage, Answer, Trying
  <1>4. Settled'
    <2>1. answers \in [Calls -> Answers]
      BY DEF IInv, TypeOK
    <2>2. ASSUME NEW c \in Calls, Done(c)'
          PROVE  Says(c, input.bytes, answers'[c])
      BY <2>1, <2>2 DEF IInv, Settled, Answer, Done
    <2>3. Done("parse")' => IsText(input.bytes)
      BY <2>1 DEF IInv, Settled, Answer, Done
    <2>4. stage' = "idle" /\ call' = Nothing /\ input' = input /\ Nothing # "parse"
      BY DEF Answer, Nothing
    <2> QED
      BY <2>2, <2>3, <2>4 DEF Settled
  <1> QED
    BY <1>2, <1>3, <1>4 DEF IInv

(* A call has the bytes of its value.                                       *)
LEMMA TakeStep ==
  ASSUME IInv, NEW b \in {input.bytes, NoBytes}, b = input.bytes, Take(b), stage = "require"
  PROVE  IInv'
  <1>1. text = NoText /\ NoText.from = 0 /\ NoText.by = Nothing
    BY DEF IInv, TextAtItsStage, NoText
  <1>2. b.marks \in Seq({Utf8} \cup Utf16)
    BY MarksFacts DEF IInv
  <1>3. TypeOK'
    BY <1>1, <1>2 DEF IInv, TypeOK, Take
  <1>4. InputOK' /\ TextAtItsStage'
    BY <1>1 DEF IInv, InputOK, TextAtItsStage, Take, Trying
  <1>5. Settled'
    BY DEF IInv, Settled, Take, Done, Reached, Trying
  <1> QED
    BY <1>3, <1>4, <1>5 DEF IInv

(* A call has its text.                                                     *)
LEMMA DecodedStep ==
  ASSUME IInv, NEW t, NEW e \in Encodings, NEW ds \in Seq(Codes), Decoded(t, e, ds),
         stage \notin {"idle", "require", "text"}, bytes.size <= MaxInputBytes,
         t.by \in Encodings, t.from \in 0 .. Len(bytes.marks),
         [by |-> t.by, from |-> t.from, encoding |-> e, said |-> ds] = Chain(bytes),
         ~Sniffed(bytes) => declared = LabelOf(bytes)
  PROVE  IInv'
  <1>1. TypeOK'
    BY DEF IInv, TypeOK, Decoded
  <1>2. InputOK' /\ TextAtItsStage'
    BY DEF IInv, InputOK, TextAtItsStage, Decoded, Trying
  <1>3. TextReached(Given(call, bytes))'
    <2>1. call # "parse" /\ base = 0
      BY DEF IInv, Settled, TextAtItsStage
    <2>2. Given(call, bytes) = Chain(bytes)
      BY <2>1 DEF Given
    <2> DEFINE o == Chain(bytes)
    <2>3. o.by = t.by /\ o.from = t.from /\ o.encoding = e /\ o.said = ds
      OBVIOUS
    <2>4. Given(call, bytes)' = o
      BY <2>2 DEF Decoded
    <2> HIDE DEF o
    <2>5. OwnMarks(bytes', o.by, o.from, text'.from)
      BY <2>3 DEF OwnMarks, Decoded
    <2> QED
      BY <2>1, <2>3, <2>4, <2>5 DEF TextReached, Decoded
  <1>4. Settled'
    <2>1. call # "parse" /\ bytes = input.bytes
      BY DEF IInv, Settled
    <2> QED
      BY <1>3, <2>1 DEF IInv, Settled, Decoded, Reached, Trying, Done
  <1> QED
    BY <1>1, <1>2, <1>4 DEF IInv

(* A decoder does not fit, and the call goes on to the next.                *)
LEMMA OnwardStep ==
  ASSUME IInv, NEW next \in {"strip", "declared", "euc-kr", "lossy"}, Onward(next),
         stage \notin {"idle", "require", "text"},
         next # "strip" => stage \in {"utf-8", "declared", "euc-kr"},
         Reached'
  PROVE  IInv'
  <1>1. TypeOK'
    BY DEF IInv, TypeOK, Onward
  <1>2. InputOK' /\ TextAtItsStage'
    BY DEF IInv, InputOK, TextAtItsStage, Onward, Trying
  <1>3. Settled'
    BY DEF IInv, Settled, Onward, Done
  <1> QED
    BY <1>1, <1>2, <1>3 DEF IInv
-----------------------------------------------------------------------------
(* Every step preserves the invariant.                                     *)

(* ... when a call begins ...                                               *)
LEMMA CallsPreserve ==
  ASSUME IInv, CallText \/ (\E c \in Core \ {"parse"} : CallBytes(c)) \/ (\E c \in Js : CallJs(c))
  PROVE  IInv'
  <1>1. "parse" \notin Js /\ Core \cup Js = Calls /\ "parse" \in Calls
    BY DEF Js, Calls, Core
  <1>2. NoText.by = Nothing /\ NoText.from = 0
    BY DEF NoText
  <1>3. Utf8 \in Encodings
    BY EncodingsAssumption
  <1>4. CASE CallText
    <2>1. text'.by = Utf8 /\ text'.from = 0
      BY <1>4 DEF CallText
    <2> QED
      BY <1>4, <1>1, <1>3, <2>1, FreshStep DEF CallText
  <1>5. CASE \E c \in Core \ {"parse"} : CallBytes(c)
    BY <1>5, <1>1, <1>2, FreshStep DEF CallBytes
  <1>6. CASE \E c \in Js : CallJs(c)
    BY <1>6, <1>1, <1>2, FreshStep DEF CallJs
  <1> QED
    BY <1>4, <1>5, <1>6

(* ... when the buffer is detached between two ...                          *)
LEMMA DetachPreserves ==
  ASSUME IInv, Detach
  PROVE  IInv'
  <1>1. Settled'
    BY DEF IInv, Detach, Settled, Done
  <1> QED
    BY <1>1 DEF IInv, Detach, TypeOK, InputOK, TextAtItsStage, Trying

(* ... when the bytes of a value are asked for ...                          *)
LEMMA RequirePreserves ==
  ASSUME IInv, RequireArray \/ RequireClaimed \/ RequireOther
  PROVE  IInv'
  <1>1. Unreadable \in Answers /\ WrongType \in Answers
    BY DEF Answers, Thrown
  <1>2. Unreadable.is # "done" /\ WrongType.is # "done"
    BY DEF Unreadable, WrongType
  <1>3. stage = "require"
    BY DEF RequireArray, RequireClaimed, RequireOther
  <1>4. \/ Answer(Unreadable) \/ Answer(WrongType) \/ Take(input.bytes)
        \/ Take(Copied) /\ Copied = input.bytes
    <2>1. CASE RequireArray
      BY <2>1 DEF RequireArray, Copied
    <2>2. CASE RequireClaimed
      <3>1. CASE Take(Copied) /\ ~CopyFails /\ Copied.size = ByteLength
        <4>1. ByteLength = input.bytes.size
          BY <3>1 DEF CopyFails, ByteLength
        <4>2. input.shape = "look-alike" => input.bytes.size = 0
          BY <3>1, <4>1 DEF Copied, NoBytes
        <4>3. Copied = input.bytes
          BY <4>2, BytesAssumption DEF Copied, IInv, InputOK
        <4> QED
          BY <3>1, <4>3
      <3> QED
        BY <2>2, <3>1 DEF RequireClaimed
    <2> QED
      BY <2>1, <2>2 DEF RequireOther
  <1> QED
    BY <1>1, <1>2, <1>3, <1>4, AnswerStep, TakeStep

(* ... when the first mark is one of UTF-16 ...                             *)
LEMMA SniffPreserves ==
  ASSUME IInv, SniffMark
  PROVE  IInv'
  <1> DEFINE m == Head(bytes.marks)
             t == Decode(m, 1)
  <1>1. /\ bytes.marks \in Seq({Utf8} \cup Utf16)
        /\ bytes.marks # <<>> => Len(bytes.marks) >= 1 /\ m = bytes.marks[1]
        /\ {Utf8} \cup Utf16 \subseteq Encodings
    BY BytesFacts DEF IInv
  <1>2. <<>> \in Seq(Codes)
    OBVIOUS
  <1>3. stage = "size" /\ bytes.size <= MaxInputBytes
    BY DEF SniffMark
  <1>4. CASE bytes.marks # <<>> /\ m \in Utf16 /\ t.whole
    <2>1. /\ t.by \in Encodings /\ t.from \in 0 .. Len(bytes.marks)
          /\ t.by = ByMark(bytes, m, 1) /\ t.from = Offset(bytes, 1) /\ t.whole = WholeBy(bytes, m, 1)
      BY <1>1, <1>4, DecodeFacts DEF IInv
    <2>2. Sniffed(bytes)
      BY <1>4, <2>1 DEF Sniffed
    <2>3. [by |-> t.by, from |-> t.from, encoding |-> m, said |-> <<>>] = Chain(bytes)
      BY <2>1, <2>2 DEF Chain, Tried
    <2>4. Decoded(t, m, <<>>) /\ m \in Encodings
      BY <1>1, <1>4 DEF SniffMark
    <2> HIDE DEF t, m
    <2> QED
      BY <1>2, <1>3, <2>1, <2>2, <2>3, <2>4, DecodedStep
  <1>5. CASE ~(bytes.marks # <<>> /\ m \in Utf16 /\ t.whole)
    <2>1. ~Sniffed(bytes)
      <3>1. bytes.marks # <<>> /\ m \in Utf16 => t.whole = WholeBy(bytes, m, 1)
        BY <1>1, DecodeFacts DEF IInv
      <3> QED
        BY <1>5, <3>1 DEF Sniffed
    <2>2. Onward("strip")
      BY <1>5 DEF SniffMark
    <2>3. Reached'
      BY <1>3, <2>1, <2>2 DEF Reached, Onward, Trying
    <2> QED
      BY <1>3, <2>1, <2>2, <2>3, OnwardStep
  <1> QED
    BY <1>4, <1>5

(* ... when the UTF-8 mark is taken off and the label is read ...           *)
LEMMA StripPreserves ==
  ASSUME IInv, StripMark
  PROVE  IInv'
  <1>1. /\ bytes.marks \in Seq({Utf8} \cup Utf16)
        /\ bytes.marks # <<>> => Len(bytes.marks) >= 1 /\ Head(bytes.marks) = bytes.marks[1]
    BY BytesFacts DEF IInv
  <1>2. bytes \in {input.bytes, NoBytes} /\ NoBytes.marks = <<>>
    BY DEF IInv, TypeOK, NoBytes
  <1>3. /\ marksOff' = Stripped(bytes) /\ declared' = LabelOf(bytes)
        /\ marksOff' \in {0, 1} /\ marksOff' <= Len(bytes.marks) /\ marksOff' <= Len(input.bytes.marks)
    <2>1. Len(input.bytes.marks) \in Nat
      BY MarksFacts DEF IInv
    <2> QED
      BY <1>1, <1>2, <2>1 DEF StripMark, Stripped, LabelOf
  <1>4. TypeOK'
    BY <1>3 DEF IInv, TypeOK, StripMark
  <1>5. InputOK' /\ TextAtItsStage'
    BY <1>3 DEF IInv, InputOK, TextAtItsStage, StripMark
  <1>6. Settled'
    <2>1. Reached'
      BY <1>3 DEF IInv, Settled, Reached, Trying, StripMark
    <2> QED
      BY <2>1 DEF IInv, Settled, StripMark, Done
  <1> QED
    BY <1>4, <1>5, <1>6 DEF IInv

(* What is known while the chain tries one decoder after another.           *)
LEMMA TryingFacts ==
  ASSUME IInv, stage \in Trying
  PROVE  /\ marksOff \in Nat /\ marksOff <= Len(bytes.marks) /\ marksOff = Stripped(bytes)
         /\ declared = LabelOf(bytes) /\ ~Sniffed(bytes) /\ bytes.size <= MaxInputBytes
         /\ stage \notin {"idle", "require", "text"} /\ Reached
         /\ Utf8 \in Encodings /\ EucKr \in Encodings
  BY BytesFacts DEF IInv, TypeOK, TextAtItsStage, Settled, Reached, Trying

(* The next decoder is tried with what the last one has left.               *)
LEMMA OnwardTrying ==
  ASSUME IInv, stage \in {"utf-8", "declared", "euc-kr"},
         NEW next \in {"declared", "euc-kr", "lossy"}, Onward(next),
         ~IsUtf8(bytes),
         next # "declared" => Fitting(bytes) = {},
         next = "lossy" => ~WholeBy(bytes, EucKr, Stripped(bytes))
  PROVE  IInv'
  <1>1. Reached'
    BY TryingFacts DEF Reached, Onward, Trying
  <1> QED
    BY <1>1, OnwardStep

(* ... when UTF-8 is tried ...                                              *)
LEMMA Utf8Preserves ==
  ASSUME IInv, TryUtf8
  PROVE  IInv'
  <1> DEFINE t == Verbatim(marksOff)
             ds == Mismatch(declared, Utf8)
  <1>1. stage \in Trying /\ stage = "utf-8"
    BY DEF TryUtf8, Trying
  <1>2. /\ t.by = Utf8 /\ t.from = marksOff /\ t.whole = IsUtf8(bytes)
        /\ t.from \in 0 .. Len(bytes.marks) /\ Utf8 \in Encodings
    <2>1. Len(bytes.marks) \in Nat
      BY BytesFacts DEF IInv
    <2> QED
      BY <1>1, <2>1, TryingFacts DEF Verbatim, IsUtf8
  <1>3. ds \in Seq(Codes)
    BY MismatchFacts
  <1>4. CASE t.whole
    <2>1. [by |-> t.by, from |-> t.from, encoding |-> Utf8, said |-> ds] = Chain(bytes)
      BY <1>1, <1>2, <1>4, TryingFacts DEF Chain, Plain
    <2>2. Decoded(t, Utf8, ds)
      BY <1>4 DEF TryUtf8
    <2> HIDE DEF t, ds
    <2> QED
      BY <1>1, <1>2, <1>3, <2>1, <2>2, TryingFacts, DecodedStep
  <1>5. CASE ~t.whole
    <2>1. Onward("declared")
      BY <1>5 DEF TryUtf8
    <2> QED
      BY <1>1, <1>2, <1>5, <2>1, OnwardTrying
  <1> QED
    BY <1>4, <1>5

(* ... when the declared encoding is tried ...                              *)
LEMMA DeclaredPreserves ==
  ASSUME IInv, TryDeclared
  PROVE  IInv'
  <1> DEFINE fits == {e \in {Resolve(l) : l \in declared} \ {Nothing} : Decode(e, marksOff).whole}
  <1>1. stage \in Trying /\ stage = "declared" /\ ~IsUtf8(bytes)
    <2>1. stage \in Trying /\ stage = "declared"
      BY DEF TryDeclared, Trying
    <2> QED
      BY <2>1, TryingFacts DEF Reached
  <1>2. \A e \in {Resolve(l) : l \in declared} \ {Nothing} : e \in Encodings
    BY ResolveFacts
  <1>3. \A e \in Encodings :
          /\ Decode(e, marksOff).by \in Encodings
          /\ Decode(e, marksOff).from \in 0 .. Len(bytes.marks)
          /\ Decode(e, marksOff).by = ByMark(bytes, e, marksOff)
          /\ Decode(e, marksOff).from = Offset(bytes, marksOff)
          /\ Decode(e, marksOff).whole = WholeBy(bytes, e, marksOff)
    BY <1>1, TryingFacts, DecodeFacts DEF IInv
  <1>4. fits = Fitting(bytes)
    BY <1>1, <1>2, <1>3, TryingFacts DEF Fitting
  <1>5. CASE fits # {}
    <2>1. PICK e \in fits : Decoded(Decode(e, marksOff), e, Mismatch(declared, e))
      BY <1>5 DEF TryDeclared
    <2> DEFINE t == Decode(e, marksOff)
               ds == Mismatch(declared, e)
    <2>2. ds \in Seq(Codes) /\ e \in Encodings
      BY <1>2, MismatchFacts
    <2>3. Fit(bytes) = e
      BY <1>4, OnlyFit DEF Fit
    <2>4. /\ t.by \in Encodings /\ t.from \in 0 .. Len(bytes.marks)
          /\ t.by = ByMark(bytes, e, marksOff) /\ t.from = Offset(bytes, marksOff)
      BY <1>3, <2>2
    <2>5. [by |-> t.by, from |-> t.from, encoding |-> e, said |-> ds] = Chain(bytes)
      BY <1>1, <1>4, <1>5, <2>3, <2>4, TryingFacts DEF Chain, Tried
    <2> HIDE DEF t, ds
    <2>6. Decoded(t, e, ds)
      BY <2>1 DEF t, ds
    <2> QED
      BY <1>1, <2>2, <2>4, <2>5, <2>6, TryingFacts, DecodedStep
  <1>6. CASE fits = {}
    <2>1. Onward("euc-kr")
      BY <1>6 DEF TryDeclared
    <2> QED
      BY <1>1, <1>4, <1>6, <2>1, OnwardTrying
  <1> QED
    BY <1>5, <1>6

(* ... when EUC-KR is tried ...                                             *)
LEMMA EucKrPreserves ==
  ASSUME IInv, TryEucKr
  PROVE  IInv'
  <1> DEFINE t == Decode(EucKr, marksOff)
             ds == Mismatch(declared, EucKr)
  <1>1. stage \in Trying /\ stage = "euc-kr" /\ ~IsUtf8(bytes) /\ Fitting(bytes) = {}
    <2>1. stage \in Trying /\ stage = "euc-kr"
      BY DEF TryEucKr, Trying
    <2> QED
      BY <2>1, TryingFacts DEF Reached
  <1>2. /\ t.by \in Encodings /\ t.from \in 0 .. Len(bytes.marks)
        /\ t.by = ByMark(bytes, EucKr, marksOff) /\ t.from = Offset(bytes, marksOff)
        /\ t.whole = WholeBy(bytes, EucKr, marksOff)
    BY <1>1, TryingFacts, DecodeFacts DEF IInv
  <1>3. ds \in Seq(Codes)
    BY MismatchFacts
  <1>4. CASE t.whole
    <2>1. [by |-> t.by, from |-> t.from, encoding |-> EucKr, said |-> ds] = Chain(bytes)
      BY <1>1, <1>2, <1>4, TryingFacts DEF Chain, Tried
    <2>2. Decoded(t, EucKr, ds)
      BY <1>4 DEF TryEucKr
    <2> HIDE DEF t, ds
    <2> QED
      BY <1>1, <1>2, <1>3, <2>1, <2>2, TryingFacts, DecodedStep
  <1>5. CASE ~t.whole
    <2>1. Onward("lossy")
      BY <1>5 DEF TryEucKr
    <2>2. ~WholeBy(bytes, EucKr, Stripped(bytes))
      BY <1>1, <1>2, <1>5, TryingFacts
    <2> QED
      BY <1>1, <2>1, <2>2, OnwardTrying
  <1> QED
    BY <1>4, <1>5

(* ... when nothing fits ...                                                *)
LEMMA LossyPreserves ==
  ASSUME IInv, Lossy
  PROVE  IInv'
  <1> DEFINE t == Verbatim(marksOff)
             ds == <<"EncodingUndetectable">>
  <1>1. stage \in Trying /\ stage = "lossy"
    BY DEF Lossy, Trying
  <1>2. t.by = Utf8 /\ t.from = marksOff /\ t.from \in 0 .. Len(bytes.marks)
    <2>1. Len(bytes.marks) \in Nat
      BY BytesFacts DEF IInv
    <2> QED
      BY <1>1, <2>1, TryingFacts DEF Verbatim
  <1>3. ds \in Seq(Codes)
    BY DEF Codes
  <1>4. [by |-> t.by, from |-> t.from, encoding |-> Utf8, said |-> ds] = Chain(bytes)
    BY <1>1, <1>2, TryingFacts DEF Chain, Plain, Reached, Trying
  <1>5. Decoded(t, Utf8, ds)
    BY DEF Lossy
  <1> HIDE DEF t, ds
  <1> QED
    BY <1>1, <1>2, <1>3, <1>4, <1>5, TryingFacts, DecodedStep

(* ... when a mark is taken off the text ...                                *)
LEMMA FeffPreserves ==
  ASSUME IInv, StripFeff
  PROVE  IInv'
  <1>1. /\ text'.by = text.by /\ text'.from = text.from + 1 /\ text.from < Len(bytes.marks)
        /\ bytes.marks[text.from + 1] = text.by /\ base' = base + 3 /\ stage = "text"
        /\ UNCHANGED <<input, answers, call, stage, bytes, marksOff, declared, encoding, diagnostics>>
    BY DEF StripFeff, Marked
  <1>2. text.from \in Nat /\ Len(bytes.marks) \in Nat
    BY BytesFacts DEF IInv, TypeOK
  <1>3. TypeOK'
    BY <1>1, <1>2 DEF IInv, TypeOK, StripFeff
  <1>4. InputOK' /\ TextAtItsStage'
    BY <1>1 DEF IInv, InputOK, TextAtItsStage
  <1> DEFINE o == Given(call, bytes)
  <1>5. TextReached(o) /\ o' = o
    BY <1>1 DEF IInv, Settled, Reached
  <1> HIDE DEF o
  <1>6. TextReached(o)'
    <2>1. OwnMarks(bytes, o.by, o.from, text.from + 1)
      <3>1. \A i \in o.from + 1 .. text.from + 1 : i \in o.from + 1 .. text.from \/ i = text.from + 1
        BY <1>2, <1>5 DEF TextReached
      <3> QED
        BY <1>1, <1>5, <3>1 DEF TextReached, OwnMarks
    <2>2. base' = 3 * (text'.from - o.from) /\ o.from <= text'.from
      BY <1>1, <1>2, <1>5 DEF TextReached
    <2> QED
      BY <1>1, <1>5, <2>1, <2>2 DEF TextReached
  <1>7. Settled'
    <2>1. Reached'
      BY <1>1, <1>6 DEF IInv, Settled, Reached, Trying, o
    <2> QED
      BY <1>1, <2>1 DEF IInv, Settled, Done
  <1> QED
    BY <1>3, <1>4, <1>7 DEF IInv

(* ... and when it is answered.                                             *)
LEMMA AnswersPreserve ==
  ASSUME IInv, Oversize \/ ParseRoot \/ CheckRoot
  PROVE  IInv'
  <1>1. /\ base \in Nat /\ encoding \in Encodings \cup {Nothing} /\ diagnostics \in Seq(Codes)
        /\ <<>> \in Seq(Codes) /\ <<"NotBeansRoot">> \in Seq(Codes)
        /\ <<"OversizeInput">> \in Seq(Codes)
    <2>1. <<"NotBeansRoot">> \in Seq(Codes) /\ <<"OversizeInput">> \in Seq(Codes)
      BY DEF Codes
    <2> QED
      BY <2>1 DEF IInv, TypeOK
  <1>2. bytes = input.bytes /\ Reached /\ stage \in {"size", "text"}
    BY DEF IInv, Settled, Oversize, ParseRoot, CheckRoot
  <1>3. call \in Calls /\ call # Nothing
    BY <1>2 DEF IInv, TypeOK
  <1>4. CASE Oversize
    <2> DEFINE a == [is |-> "done", beans |-> FALSE, encoding |-> Nothing, base |-> 0,
                     diagnostics |-> IF call \in Checks THEN <<>> ELSE <<"OversizeInput">>]
    <2>1. a \in Answers
      BY <1>1 DEF Answers
    <2>2. Refused(call, input.bytes)
      BY <1>2, <1>4 DEF Oversize, Refused, IInv, Settled
    <2>3. Says(call, input.bytes, a)
      BY <2>2 DEF Says, Answered
    <2>4. Answer(a) /\ stage # "idle"
      BY <1>4 DEF Oversize
    <2> HIDE DEF a
    <2> QED
      BY <2>1, <2>3, <2>4, AnswerStep
  <1>5. ASSUME stage = "text", ~Marked
        PROVE  /\ ~Refused(call, input.bytes)
               /\ Ends(input.bytes, Given(call, input.bytes).by, Given(call, input.bytes).from, text.from)
               /\ Finds(call, input.bytes, Given(call, input.bytes), text.from)
                    = Answered(call, Root = "beans", encoding, base,
                               diagnostics \o NotBeans(input.bytes, text.by))
    <2> DEFINE o == Given(call, input.bytes)
    <2>1. TextReached(o)
      BY <1>2, <1>5 DEF Reached
    <2>2. ~Refused(call, input.bytes)
      <3>1. bytes.size \in Nat /\ MaxInputBytes \in Nat
        BY BytesFacts, EncodingsAssumption DEF IInv
      <3> QED
        BY <1>2, <1>5, <3>1 DEF Refused, Reached
    <2> HIDE DEF o
    <2>3. Ends(input.bytes, o.by, o.from, text.from)
      <3>1. text.from \in Nat /\ text.from <= Len(bytes.marks)
        BY BytesFacts DEF IInv, TypeOK
      <3> QED
        BY <1>2, <1>5, <2>1, <3>1 DEF Ends, TextReached, Marked
    <2>4. Finds(call, input.bytes, o, text.from)
            = Answered(call, Root = "beans", encoding, base, diagnostics \o NotBeans(input.bytes, text.by))
      BY <1>2, <2>1 DEF Finds, TextReached, Root
    <2> QED
      BY <2>2, <2>3, <2>4 DEF o
  <1>6. CASE ParseRoot
    <2> DEFINE ds == diagnostics \o IF Root = "beans" THEN <<>> ELSE <<"NotBeansRoot">>
               a == [is |-> "done", beans |-> Root = "beans", encoding |-> encoding, base |-> base,
                     diagnostics |-> ds]
    <2>1. ds \in Seq(Codes) /\ ds = diagnostics \o NotBeans(input.bytes, text.by)
      BY <1>1, <1>2 DEF NotBeans, Root
    <2>2. Answer(a) /\ stage = "text" /\ ~Marked /\ call \notin Checks
      BY <1>6 DEF ParseRoot
    <2> HIDE DEF ds
    <2>3. a \in Answers /\ a = Answered(call, Root = "beans", encoding, base, ds)
      BY <1>1, <2>1, <2>2 DEF Answers, Answered
    <2> HIDE DEF a
    <2>4. Says(call, input.bytes, a)
      BY <1>5, <2>1, <2>2, <2>3 DEF Says
    <2> QED
      BY <2>2, <2>3, <2>4, AnswerStep
  <1>7. CASE CheckRoot
    <2> DEFINE a == [is |-> "done", beans |-> Root = "beans", encoding |-> Nothing, base |-> 0,
                     diagnostics |-> <<>>]
    <2>1. Answer(a) /\ stage = "text" /\ ~Marked /\ call \in Checks
      BY <1>7 DEF CheckRoot
    <2>2. /\ a \in Answers
          /\ \A e, at, ds : a = Answered(call, Root = "beans", e, at, ds)
      BY <1>1, <2>1 DEF Answers, Answered
    <2> HIDE DEF a
    <2>3. a = Finds(call, input.bytes, Given(call, input.bytes), text.from)
      BY <1>5, <2>1, <2>2
    <2>4. Says(call, input.bytes, a)
      BY <1>5, <2>1, <2>3 DEF Says
    <2> QED
      BY <2>1, <2>2, <2>4, AnswerStep
  <1> QED
    BY <1>4, <1>6, <1>7

(* Every step preserves the invariant.                                      *)
LEMMA NextIInv == IInv /\ [Next]_vars => IInv'
  <1> SUFFICES ASSUME IInv, [Next]_vars PROVE IInv'
    OBVIOUS
  <1>1. CASE UNCHANGED vars
    <2>1. Settled'
      BY <1>1 DEF vars, IInv, Settled, Reached, TextReached, Done
    <2> QED
      BY <1>1, <2>1 DEF vars, IInv, TypeOK, InputOK, TextAtItsStage
  <1>2. CASE Next
    BY <1>2, CallsPreserve, DetachPreserves, RequirePreserves, SniffPreserves, StripPreserves,
       Utf8Preserves, DeclaredPreserves, EucKrPreserves, LossyPreserves, FeffPreserves,
       AnswersPreserve DEF Next, Step
  <1> QED
    BY <1>1, <1>2
-----------------------------------------------------------------------------
(* Theorems.                                                                *)

LEMMA Invariant == Spec => []IInv
  BY InitIInv, NextIInv, PTL DEF Spec

(* The state of the entry points is well-typed for all inputs.              *)
THEOREM TypeCorrect == Spec => []TypeOK
  BY Invariant, PTL DEF IInv

(* The chain starts its text at a mark.                                     *)
LEMMA GivenFrom ==
  ASSUME NEW c, NEW b, Len(b.marks) \in Nat
  PROVE  Given(c, b).from \in Nat
  <1>1. Stripped(b) \in Nat /\ \A off \in Nat : Offset(b, off) \in Nat
    BY DEF Stripped, Offset
  <1>2. \A e, ds : Tried(b, e, 1, ds).from \in Nat /\ Tried(b, e, Stripped(b), ds).from \in Nat
    BY <1>1 DEF Tried
  <1>3. \A ds : Plain(b, ds).from \in Nat
    BY <1>1 DEF Plain
  <1>4. Chain(b).from \in Nat
    BY <1>2, <1>3 DEF Chain
  <1> QED
    BY <1>4 DEF Given

(* The marks that are taken off a text are determined.                      *)
LEMMA SameEnd ==
  ASSUME NEW b, NEW by, NEW from \in Nat, NEW k, NEW l, Len(b.marks) \in Nat,
         Ends(b, by, from, k), Ends(b, by, from, l)
  PROVE  k = l
  <1>1. ASSUME NEW x, NEW y, Ends(b, by, from, x), Ends(b, by, from, y), x < y
        PROVE  FALSE
    <2>1. x \in Nat /\ y \in Nat /\ from <= x /\ y <= Len(b.marks)
      BY <1>1 DEF Ends
    <2>2. x + 1 \in from + 1 .. y /\ x < Len(b.marks)
      BY <1>1, <2>1
    <2>3. b.marks[x + 1] = by
      BY <1>1, <2>2 DEF Ends, OwnMarks
    <2> QED
      BY <1>1, <2>2, <2>3 DEF Ends
  <1>2. k \in Nat /\ l \in Nat
    BY DEF Ends
  <1>3. ~(k < l) /\ ~(l < k)
    BY <1>1
  <1> QED
    BY <1>2, <1>3

(* Two calls that are given bytes and are both checks or both not answer    *)
(* the same.                                                                *)
LEMMA SameAnswer ==
  ASSUME NEW b, NEW c, NEW d, NEW x, NEW y, Len(b.marks) \in Nat,
         c # "parse", d # "parse", c \in Checks <=> d \in Checks,
         Says(c, b, x), Says(d, b, y)
  PROVE  x = y
  <1>1. Given(c, b) = Chain(b) /\ Given(d, b) = Chain(b) /\ (Refused(c, b) <=> Refused(d, b))
    BY DEF Given, Refused
  <1>2. \A beans, e, at, ds : Answered(c, beans, e, at, ds) = Answered(d, beans, e, at, ds)
    BY DEF Answered
  <1>3. CASE Refused(c, b)
    BY <1>1, <1>2, <1>3 DEF Says
  <1>4. CASE ~Refused(c, b)
    <2>1. PICK k : Ends(b, Chain(b).by, Chain(b).from, k) /\ x = Finds(c, b, Chain(b), k)
      BY <1>1, <1>4 DEF Says
    <2>2. PICK l : Ends(b, Chain(b).by, Chain(b).from, l) /\ y = Finds(d, b, Chain(b), l)
      BY <1>1, <1>4 DEF Says
    <2>3. k = l
      BY <1>1, <2>1, <2>2, GivenFrom, SameEnd
    <2> QED
      BY <1>2, <2>1, <2>2, <2>3 DEF Finds
  <1> QED
    BY <1>3, <1>4

(* Whether an answer is yes.                                                *)
LEMMA SaysBeans ==
  ASSUME NEW b, NEW c, NEW x, Says(c, b, x)
  PROVE  x.beans = (~Refused(c, b) /\ b.root[Given(c, b).by] = "beans")
  <1>1. \A beans, e, at, ds : Answered(c, beans, e, at, ds).beans = beans
    BY DEF Answered
  <1>2. CASE Refused(c, b)
    <2>1. x = Answered(c, FALSE, Nothing, 0, <<"OversizeInput">>)
      BY <1>2 DEF Says
    <2>2. x.beans = FALSE
      BY <2>1 DEF Answered
    <2> QED
      BY <1>2, <2>2
  <1>3. CASE ~Refused(c, b)
    <2>1. PICK k : x = Finds(c, b, Given(c, b), k)
      BY <1>3 DEF Says
    <2> QED
      BY <1>1, <1>3, <2>1 DEF Finds
  <1> QED
    BY <1>2, <1>3

(* For all inputs, label registries and limits, is_beans_doc and            *)
(* parse_bytes agree on what a beans document is.                           *)
THEOREM BoundariesAlwaysAgree == Spec => []BoundariesAgree
  <1>1. ASSUME IInv, Done("is_beans_doc"), Done("parse_bytes")
        PROVE  answers["is_beans_doc"].beans = answers["parse_bytes"].beans
    <2>1. /\ Says("is_beans_doc", input.bytes, answers["is_beans_doc"])
          /\ Says("parse_bytes", input.bytes, answers["parse_bytes"])
      BY <1>1 DEF IInv, Settled, Calls, Core
    <2> QED
      BY <2>1, SaysBeans DEF Refused, Given
  <1>2. IInv => BoundariesAgree
    BY <1>1 DEF BoundariesAgree
  <1> QED
    BY <1>2, Invariant, PTL

(* What JavaScript is thrown, it is not thrown of an array whose buffer is  *)
(* still there.                                                             *)
LiveIsRead ==
  live /\ input.shape \in {"array", "foreign array"} => \A c \in Js : answers[c] \notin Thrown

(* Neither an answer nor the lack of one is something thrown.               *)
LEMMA ThrownFacts ==
  ASSUME NEW a \in Thrown
  PROVE  a.is # "done" /\ a # NotAsked
  <1>1. WrongType.is = "wrong type" /\ Unreadable.is = "unreadable" /\ NotAsked.is = "not asked"
    BY DEF WrongType, Unreadable, NotAsked
  <1>2. a = WrongType \/ a = Unreadable
    BY DEF Thrown
  <1> QED
    BY <1>1, <1>2

(* A step throws only of a value that is no array, or of a detached buffer. *)
LEMMA LiveStep == IInv /\ LiveIsRead /\ [Next]_vars => LiveIsRead'
  <1> SUFFICES ASSUME IInv, LiveIsRead, [Next]_vars, live', input'.shape \in {"array", "foreign array"}
               PROVE  \A c \in Js : answers'[c] \notin Thrown
    BY DEF LiveIsRead
  <1>1. ASSUME live, input' = input, answers' = answers
        PROVE  \A c \in Js : answers'[c] \notin Thrown
    BY <1>1 DEF LiveIsRead
  <1>2. ASSUME NEW a, Answer(a), a.is = "done"
        PROVE  \A c \in Js : answers'[c] \notin Thrown
    <2>1. a \notin Thrown
      BY <1>2, ThrownFacts
    <2>2. live /\ input' = input /\ answers' = [answers EXCEPT ![call] = a]
      BY <1>2 DEF Answer
    <2>3. answers \in [Calls -> Answers] /\ Js \subseteq Calls
      BY DEF IInv, TypeOK, Calls
    <2> QED
      BY <2>1, <2>2, <2>3 DEF LiveIsRead
  <1>3. CASE RequireArray \/ RequireClaimed \/ RequireOther
    <2>1. live /\ input' = input
      BY <1>3 DEF RequireArray, RequireClaimed, RequireOther, Answer, Take
    <2>2. ~CopyFails /\ Copied = input.bytes /\ ByteLength = input.bytes.size
      BY <2>1 DEF CopyFails, Copied, ByteLength
    <2>3. Take(input.bytes)
      BY <1>3, <2>1, <2>2 DEF RequireArray, RequireClaimed, RequireOther, ClaimsLength
    <2> QED
      BY <1>1, <2>1, <2>3 DEF Take
  <1>4. CASE Oversize \/ ParseRoot \/ CheckRoot
    BY <1>2, <1>4 DEF Oversize, ParseRoot, CheckRoot
  <1>5. CASE SniffMark \/ StripMark \/ TryUtf8 \/ TryDeclared \/ TryEucKr \/ Lossy \/ StripFeff
    <2>1. live' = live /\ input' = input /\ answers' = answers
      BY <1>5 DEF SniffMark, StripMark, TryUtf8, TryDeclared, TryEucKr, Lossy, StripFeff,
                  Decoded, Onward
    <2> QED
      BY <1>1, <2>1
  <1>6. CASE CallText \/ (\E c \in Core \ {"parse"} : CallBytes(c)) \/ (\E c \in Js : CallJs(c))
    BY <1>1, <1>6 DEF CallText, CallBytes, CallJs
  <1>7. CASE UNCHANGED vars
    BY <1>1, <1>7 DEF vars
  <1>8. ~Detach
    BY DEF Detach
  <1> QED
    BY <1>3, <1>4, <1>5, <1>6, <1>7, <1>8 DEF Next, Step

(* What the WebAssembly entry points answer is what the library answers for *)
(* the bytes of the value, and an array that was never detached is read,    *)
(* for all inputs, label registries and limits.                             *)
THEOREM JsAlwaysAgrees == Spec => []JsAgrees
  <1>1. ASSUME IInv, LiveIsRead
        PROVE  JsAgrees
    <2>1. Len(input.bytes.marks) \in Nat
      BY <1>1, MarksFacts DEF IInv
    <2>2. \A c \in Calls : Done(c) => Says(c, input.bytes, answers[c])
      BY <1>1 DEF IInv, Settled
    <2>3. ASSUME Done("wasm parse"), Done("parse_bytes")
          PROVE  answers["wasm parse"] = answers["parse_bytes"]
      <3>1. /\ Says("wasm parse", input.bytes, answers["wasm parse"])
            /\ Says("parse_bytes", input.bytes, answers["parse_bytes"])
        BY <2>2, <2>3 DEF Calls, Core, Js
      <3>2. "wasm parse" \in Checks <=> "parse_bytes" \in Checks
        BY DEF Checks
      <3> QED
        BY <2>1, <3>1, <3>2, SameAnswer
    <2>4. ASSUME Done("wasm is_beans_doc"), Done("is_beans_doc")
          PROVE  answers["wasm is_beans_doc"] = answers["is_beans_doc"]
      <3>1. /\ Says("wasm is_beans_doc", input.bytes, answers["wasm is_beans_doc"])
            /\ Says("is_beans_doc", input.bytes, answers["is_beans_doc"])
        BY <2>2, <2>4 DEF Calls, Core, Js
      <3>2. "wasm is_beans_doc" \in Checks <=> "is_beans_doc" \in Checks
        BY DEF Checks
      <3> QED
        BY <2>1, <3>1, <3>2, SameAnswer
    <2>5. \A pair \in {<<"wasm parse", "parse_bytes">>, <<"wasm is_beans_doc", "is_beans_doc">>} :
            Done(pair[1]) /\ Done(pair[2]) => answers[pair[1]] = answers[pair[2]]
      <3> SUFFICES ASSUME NEW pair \in {<<"wasm parse", "parse_bytes">>,
                                        <<"wasm is_beans_doc", "is_beans_doc">>},
                          Done(pair[1]), Done(pair[2])
                   PROVE  answers[pair[1]] = answers[pair[2]]
        OBVIOUS
      <3>1. CASE pair = <<"wasm parse", "parse_bytes">>
        BY <2>3, <3>1
      <3>2. CASE pair = <<"wasm is_beans_doc", "is_beans_doc">>
        BY <2>4, <3>2
      <3> QED
        BY <3>1, <3>2
    <2> QED
      BY <1>1, <2>5 DEF JsAgrees, LiveIsRead
  <1>2. Init => LiveIsRead
    <2>1. Js \subseteq Calls /\ NotAsked \notin Thrown
      BY ThrownFacts DEF Calls
    <2> QED
      BY <2>1 DEF Init, LiveIsRead
  <1> QED
    BY <1>1, <1>2, LiveStep, Invariant, PTL DEF Spec

(* Bytes that are valid UTF-8 have no mark but their own, and the chain     *)
(* takes the first of them off and stops at UTF-8.                          *)
LEMMA TextChain ==
  ASSUME InputOK, NEW b, b = input.bytes, IsText(b)
  PROVE  /\ Chain(b) = Plain(b, Mismatch(LabelOf(b), Utf8))
         /\ Stripped(b) = IF b.marks = <<>> THEN 0 ELSE 1
         /\ b.marks # <<>> => Len(b.marks) >= 1 /\ b.marks[1] = Utf8
  <1>1. b.marks \in Seq({Utf8} \cup Utf16)
    BY MarksFacts
  <1>2. Utf8 \notin Utf16
    BY DEF Utf8, Utf16
  <1>3. CASE b.marks = <<>>
    BY <1>3 DEF Sniffed, IsUtf8, Stripped, Chain, IsText
  <1>4. CASE b.marks # <<>>
    <2>1. Len(b.marks) \in Nat /\ Len(b.marks) >= 1 /\ Head(b.marks) = b.marks[1]
      BY <1>1, <1>4
    <2>2. 1 \in 1 .. Len(b.marks) /\ 1 - 1 = 0
      BY <2>1
    <2>3. <<Utf8, 1 - 1>> \in b.clean
      BY <2>2 DEF IsText
    <2>4. b.marks[1] = Utf8 /\ <<Utf8, 1>> \in b.clean
      BY <2>2, <2>3, BytesAssumption DEF InputOK
    <2>5. Stripped(b) = 1
      BY <1>4, <2>1, <2>4 DEF Stripped
    <2>6. ~Sniffed(b) /\ IsUtf8(b)
      BY <1>2, <2>1, <2>4, <2>5 DEF Sniffed, IsUtf8
    <2> QED
      BY <1>4, <2>1, <2>4, <2>5, <2>6 DEF Chain
  <1> QED
    BY <1>3, <1>4

(* For all inputs, label registries and limits, parse on a text and         *)
(* parse_bytes on its bytes agree, but for the mark and the mismatch.       *)
THEOREM TextAlwaysAgrees == Spec => []TextAgrees
  <1>1. ASSUME IInv, Done("parse"), Done("parse_bytes"), input.bytes.size <= MaxInputBytes
        PROVE  LET s == answers["parse"]
                   b == answers["parse_bytes"]
               IN /\ s.beans = b.beans /\ b.encoding = Utf8
                  /\ s.base = b.base + IF input.bytes.marks = <<>> THEN 0 ELSE 3
                  /\ b.diagnostics \in {s.diagnostics, <<"EncodingMismatch">> \o s.diagnostics}
    <2> DEFINE bs == input.bytes
               s == answers["parse"]
               x == answers["parse_bytes"]
               said == Mismatch(LabelOf(bs), Utf8)
               told == NotBeans(bs, Utf8)
    <2>1. Says("parse", bs, s) /\ Says("parse_bytes", bs, x) /\ IsText(bs)
      BY <1>1 DEF IInv, Settled, Calls, Core
    <2>2. /\ Chain(bs) = Plain(bs, said) /\ Stripped(bs) = IF bs.marks = <<>> THEN 0 ELSE 1
          /\ bs.marks # <<>> => Len(bs.marks) >= 1 /\ bs.marks[1] = Utf8
      BY <1>1, <2>1, TextChain DEF IInv
    <2>3. bs.size \in Nat /\ MaxInputBytes \in Nat /\ Len(bs.marks) \in Nat /\ (bs.marks = <<>> => Len(bs.marks) = 0)
      BY <1>1, MarksFacts, EncodingsAssumption DEF IInv
    <2>4. ~Refused("parse", bs) /\ ~Refused("parse_bytes", bs)
      BY <1>1, <2>3 DEF Refused
    <2> DEFINE o == Given("parse", bs)
               u == Given("parse_bytes", bs)
    <2>5. /\ o.by = Utf8 /\ o.from = 0 /\ o.encoding = Utf8 /\ o.said = <<>>
          /\ u.by = Utf8 /\ u.from = Stripped(bs) /\ u.encoding = Utf8 /\ u.said = said
      BY <2>2 DEF Given, Plain
    <2> HIDE DEF bs, s, x, said, told
    <2>6. PICK k : Ends(bs, o.by, o.from, k) /\ s = Finds("parse", bs, o, k)
      BY <2>1, <2>4 DEF Says
    <2>7. PICK l : Ends(bs, u.by, u.from, l) /\ x = Finds("parse_bytes", bs, u, l)
      BY <2>1, <2>4 DEF Says
    <2> HIDE DEF o, u
    <2>8. k = l /\ k \in Nat
      <3>1. Ends(bs, Utf8, 0, l)
        <4>1. \A i \in 0 + 1 .. l : i = 1 \/ i \in 1 + 1 .. l
          BY <2>7 DEF Ends
        <4> QED
          BY <2>2, <2>5, <2>7, <4>1 DEF Ends, OwnMarks
      <3> QED
        BY <2>3, <2>5, <2>6, <3>1, SameEnd DEF Ends
    <2>9. /\ s.beans = x.beans /\ x.encoding = Utf8
          /\ s.base = 3 * (k - 0) /\ x.base = 3 * (k - Stripped(bs))
          /\ s.diagnostics = <<>> \o told /\ x.diagnostics = said \o told
      <3>1. "parse" \notin Checks /\ "parse_bytes" \notin Checks
        BY DEF Checks
      <3>2. /\ s.base = 3 * (k - o.from)
            /\ s.diagnostics = o.said \o NotBeans(bs, o.by)
        BY <2>6, <3>1 DEF Finds, Answered
      <3>3. /\ x.base = 3 * (l - u.from)
            /\ x.diagnostics = u.said \o NotBeans(bs, u.by) /\ x.encoding = u.encoding
        BY <2>7, <3>1 DEF Finds, Answered
      <3>4. s.beans = x.beans
        BY <2>1, <2>4, <2>5, SaysBeans DEF o, u
      <3>5. s.base = 3 * (k - 0) /\ x.base = 3 * (k - Stripped(bs)) /\ x.encoding = Utf8
        BY <2>5, <2>8, <3>2, <3>3
      <3>6. s.diagnostics = <<>> \o told /\ x.diagnostics = said \o told
        BY <2>5, <3>2, <3>3 DEF told
      <3> QED
        BY <3>4, <3>5, <3>6
    <2>10. s.base = x.base + IF bs.marks = <<>> THEN 0 ELSE 3
      BY <2>2, <2>8, <2>9
    <2>11. x.diagnostics \in {s.diagnostics, <<"EncodingMismatch">> \o s.diagnostics}
      <3>1. told = <<>> \/ told = <<"NotBeansRoot">>
        BY DEF told, NotBeans
      <3>2. <<>> \o told = told
        <4>1. \A q \in Seq({"NotBeansRoot"}) : <<>> \o q = q
          OBVIOUS
        <4>2. <<>> \in Seq({"NotBeansRoot"}) /\ <<"NotBeansRoot">> \in Seq({"NotBeansRoot"})
          OBVIOUS
        <4> QED
          BY <3>1, <4>1, <4>2
      <3>3. said = <<>> \/ said = <<"EncodingMismatch">>
        BY DEF said, Mismatch
      <3>4. s.diagnostics = told /\ x.diagnostics = said \o told
        BY <2>9, <3>2
      <3> QED
        BY <3>2, <3>3, <3>4
    <2> QED
      BY <2>9, <2>10, <2>11 DEF bs, s, x
  <1>2. IInv => TextAgrees
    BY <1>1 DEF TextAgrees
  <1> QED
    BY <1>2, Invariant, PTL

(* For all inputs, label registries and limits, a label that is true of     *)
(* bytes that are not UTF-8 is the encoding, and is not disputed.           *)
THEOREM TrueLabelAlwaysBelieved == Spec => []TrueLabelIsBelieved
  <1>1. ASSUME IInv, stage = "text", call # "parse", bytes.marks = <<>>,
               <<Utf8, 0>> \notin bytes.clean,
               NEW l \in declared, <<Resolve(l), 0>> \in bytes.clean
        PROVE  encoding = Resolve(l) /\ diagnostics = <<>>
    <2>1. bytes = input.bytes /\ TextReached(Chain(bytes)) /\ (~Sniffed(bytes) => declared = LabelOf(bytes))
      BY <1>1 DEF IInv, Settled, Reached, Given
    <2>2. ~Sniffed(bytes) /\ Stripped(bytes) = 0 /\ ~IsUtf8(bytes)
      BY <1>1 DEF Sniffed, Stripped, IsUtf8
    <2>3. declared = LabelOf(bytes)
      BY <2>1, <2>2
    <2>4. Resolve(l) \in Encodings /\ Resolve(l) # Nothing
      <3>1. bytes.clean \subseteq Encodings \X Nat
        BY <1>1, <2>1, InputsAssumption DEF IInv, InputOK
      <3> QED
        BY <1>1, <3>1, EncodingsAssumption
    <2>5. WholeBy(bytes, Resolve(l), Stripped(bytes))
      BY <1>1, <2>2 DEF WholeBy, ByMark, Offset
    <2>6. Resolve(l) \in Fitting(bytes)
      <3>1. Resolve(l) \in {Resolve(m) : m \in LabelOf(bytes)}
        BY <1>1, <2>3
      <3> QED
        BY <2>4, <2>5, <3>1 DEF Fitting
    <2>7. Fit(bytes) = Resolve(l)
      BY <2>6, OnlyFit DEF Fit
    <2>8. Mismatch(LabelOf(bytes), Resolve(l)) = <<>>
      BY <1>1, <2>3, OneLabel DEF Mismatch, LabelOf
    <2>9. Chain(bytes) = Tried(bytes, Resolve(l), Stripped(bytes), <<>>)
      BY <2>2, <2>6, <2>7, <2>8 DEF Chain
    <2> QED
      BY <2>1, <2>9 DEF TextReached, Tried
  <1>2. IInv => TrueLabelIsBelieved
    BY <1>1 DEF TrueLabelIsBelieved
  <1> QED
    BY <1>2, Invariant, PTL

(* The tokens of a prolog that DetectDeclared knows.                        *)
Blank    == " "
XmlToken == "<?xml"
KeyToken == "encoding="
EndToken == ">"
Quotes   == {"'", "\""}

(* The label as LabelIsOfTheProlog has it: k and e are the places of the    *)
(* keyword and of the closing quote.                                        *)
IsLabel(p, k, e) ==
  /\ k \in 1 .. Len(p) /\ e \in 1 .. Len(p) /\ k + 1 < e
  /\ p[k] = KeyToken /\ \A i \in 1 .. Len(p) : p[i] = KeyToken => k <= i
  /\ p[k + 1] \in Quotes /\ p[e] = p[k + 1]
  /\ \A i \in k + 2 .. e - 1 : p[i] # p[e]
  /\ \E i \in 1 .. Len(p) : /\ p[i] = EndToken /\ i <= PrologScanWindow /\ e < i
                            /\ \A j \in 1 .. Len(p) : p[j] = EndToken => i <= j
  /\ \E i \in 1 .. Len(p) : p[i] = XmlToken /\ i < k /\ \A j \in 1 .. i - 1 : p[j] = Blank

(* The places DetectDeclared looks for in a prolog.                         *)
StartOf(p) == Find(Window(p), 1, Len(Window(p)), ToSet(Window(p)) \ {Blank})
StopOf(p)  == Find(Window(p), 1, Len(Window(p)), {EndToken})
KeyOf(p)   == Find(Window(p), 1, StopOf(p) - 1, {KeyToken})
CloseOf(p) == Find(Window(p), KeyOf(p) + 2, StopOf(p) - 1, {Window(p)[KeyOf(p) + 1]})

HasLabel(p) ==
  /\ StartOf(p) # 0 /\ Window(p)[StartOf(p)] = XmlToken
  /\ StopOf(p) # 0 /\ KeyOf(p) # 0 /\ KeyOf(p) + 1 < StopOf(p)
  /\ Window(p)[KeyOf(p) + 1] \in Quotes
  /\ CloseOf(p) # 0

(* f is the first place that matches, or 0 for none.                        *)
Found(s, from, to, T, f) ==
  /\ f \in Nat
  /\ f = 0 => \A i \in from .. to : s[i] \notin T
  /\ f # 0 => f \in from .. to /\ s[f] \in T /\ \A i \in from .. f - 1 : s[i] \notin T

(* What a search finds is the first place that matches.                     *)
LEMMA FindFacts ==
  ASSUME NEW s, NEW from \in Nat \ {0}, NEW to \in Int, NEW T
  PROVE  Found(s, from, to, T, Find(s, from, to, T))
  <1> DEFINE I == {i \in from .. to : s[i] \in T}
             f == Find(s, from, to, T)
  <1>1. f = IF I # {} THEN Min(I) ELSE 0
    BY DEF Find, SelectInSubSeq
  <1>2. CASE I = {}
    BY <1>1, <1>2 DEF Found
  <1>3. CASE I # {}
    <2>1. I \subseteq Nat
      OBVIOUS
    <2>2. \E x \in I : \A y \in I : x <= y
      BY <1>3, <2>1, Least
    <2>3. Min(I) \in I /\ \A y \in I : Min(I) <= y
      BY <2>2 DEF Min
    <2> QED
      BY <1>1, <1>3, <2>3 DEF Found
  <1> QED
    BY <1>2, <1>3

(* The window is the first part of the prolog.                              *)
LEMMA WindowFacts ==
  ASSUME NEW p \in Seq(STRING)
  PROVE  /\ Len(Window(p)) \in Nat /\ Len(p) \in Nat
         /\ Len(Window(p)) <= Len(p) /\ Len(Window(p)) <= PrologScanWindow
         /\ Len(Window(p)) = Len(p) \/ Len(Window(p)) = PrologScanWindow
         /\ \A i \in 1 .. Len(Window(p)) : Window(p)[i] = p[i]
         /\ \A i \in 1 .. Len(Window(p)) : p[i] \in ToSet(Window(p))
  <1> DEFINE w == IF Len(p) < PrologScanWindow THEN Len(p) ELSE PrologScanWindow
  <1>1. PrologScanWindow \in Nat /\ Len(p) \in Nat
    BY EncodingsAssumption
  <1>2. w \in Nat /\ w <= Len(p) /\ w <= PrologScanWindow /\ (w = Len(p) \/ w = PrologScanWindow)
    BY <1>1
  <1>3. Window(p) = SubSeq(p, 1, w)
    BY DEF Window
  <1> HIDE DEF w
  <1>4. Len(SubSeq(p, 1, w)) = w /\ \A i \in 1 .. w : SubSeq(p, 1, w)[i] = p[i]
    BY <1>1, <1>2
  <1>5. \A i \in 1 .. w : p[i] \in ToSet(Window(p))
    <2>1. SubSeq(p, 1, w) \in Seq(STRING) /\ DOMAIN SubSeq(p, 1, w) = 1 .. w
      BY <1>1, <1>2, <1>4
    <2> QED
      BY <1>3, <1>4, <2>1 DEF ToSet
  <1> QED
    BY <1>1, <1>2, <1>3, <1>4, <1>5

(* The label DetectDeclared finds is between the places it looks for.       *)
LEMMA DetectFacts ==
  ASSUME NEW p, NEW m
  PROVE  DetectDeclared(p, m) = IF ~m /\ HasLabel(p)
                                THEN {SubSeq(Window(p), KeyOf(p) + 2, CloseOf(p) - 1)}
                                ELSE {}
  BY DEF DetectDeclared, HasLabel, StartOf, StopOf, KeyOf, CloseOf,
         Blank, XmlToken, KeyToken, EndToken, Quotes

(* The tokens are not each other.                                           *)
LEMMA TokensDiffer == XmlToken # Blank /\ KeyToken # Blank /\ XmlToken # KeyToken
  BY DEF Blank, XmlToken, KeyToken

(* What the four searches find.                                             *)
LEMMA PlacesFacts ==
  ASSUME NEW p \in Seq(STRING)
  PROVE  LET n     == Len(Window(p))
             start == StartOf(p)
             stop  == StopOf(p)
             key   == KeyOf(p)
             close == CloseOf(p)
         IN /\ start \in Nat /\ stop \in Nat /\ key \in Nat /\ close \in Nat
            /\ start = 0 => \A i \in 1 .. n : p[i] = Blank
            /\ start # 0 => start \in 1 .. n /\ p[start] # Blank /\ \A i \in 1 .. start - 1 : p[i] = Blank
            /\ stop = 0 => \A i \in 1 .. n : p[i] # EndToken
            /\ stop # 0 => stop \in 1 .. n /\ p[stop] = EndToken /\ \A i \in 1 .. stop - 1 : p[i] # EndToken
            /\ stop # 0 =>
                 /\ key = 0 => \A i \in 1 .. stop - 1 : p[i] # KeyToken
                 /\ key # 0 => /\ key \in 1 .. stop - 1 /\ p[key] = KeyToken
                               /\ \A i \in 1 .. key - 1 : p[i] # KeyToken
                 /\ key # 0 /\ key + 1 < stop =>
                      /\ close = 0 => \A i \in key + 2 .. stop - 1 : p[i] # p[key + 1]
                      /\ close # 0 => /\ close \in key + 2 .. stop - 1 /\ p[close] = p[key + 1]
                                      /\ \A i \in key + 2 .. close - 1 : p[i] # p[key + 1]
  <1> DEFINE h == Window(p)
             n == Len(h)
             T == ToSet(h) \ {Blank}
             start == StartOf(p)
             stop  == StopOf(p)
             key   == KeyOf(p)
             close == CloseOf(p)
  <1>1. n \in Nat /\ \A i \in 1 .. n : h[i] = p[i]
    BY WindowFacts
  <1>2. \A i \in 1 .. n : h[i] \notin T <=> p[i] = Blank
    BY <1>1, WindowFacts
  <1>3. 1 \in Nat \ {0} /\ n \in Int
    BY <1>1
  <1>4. Found(h, 1, n, T, start)
    BY <1>3, FindFacts DEF StartOf
  <1>5. Found(h, 1, n, {EndToken}, stop)
    BY <1>3, FindFacts DEF StopOf
  <1>6. stop - 1 \in Int
    BY <1>5 DEF Found
  <1>7. Found(h, 1, stop - 1, {KeyToken}, key)
    BY <1>3, <1>6, FindFacts DEF KeyOf
  <1>8. Found(h, key + 2, stop - 1, {h[key + 1]}, close)
    <2>1. key + 2 \in Nat \ {0}
      BY <1>7 DEF Found
    <2> QED
      BY <2>1, <1>6, FindFacts DEF CloseOf
  <1> HIDE DEF start, stop, key, close, n, h, T
  <1>9. /\ start \in Nat
        /\ start = 0 => \A i \in 1 .. n : p[i] = Blank
        /\ start # 0 => start \in 1 .. n /\ p[start] # Blank /\ \A i \in 1 .. start - 1 : p[i] = Blank
    <2>1. start \in Nat
      BY <1>4 DEF Found
    <2>2. CASE start = 0
      <3>1. \A i \in 1 .. n : h[i] \notin T
        BY <1>4, <2>2 DEF Found
      <3> QED
        BY <1>2, <2>2, <3>1
    <2>3. CASE start # 0
      <3>1. start \in 1 .. n /\ h[start] \in T /\ \A i \in 1 .. start - 1 : h[i] \notin T
        BY <1>4, <2>3 DEF Found
      <3>2. \A i \in 1 .. start - 1 : i \in 1 .. n
        BY <1>1, <2>1, <3>1
      <3>3. p[start] # Blank
        BY <1>2, <3>1
      <3>4. \A i \in 1 .. start - 1 : p[i] = Blank
        BY <1>2, <3>1, <3>2
      <3> QED
        BY <2>1, <2>3, <3>1, <3>3, <3>4
    <2> QED
      BY <2>1, <2>2, <2>3
  <1>10. /\ stop \in Nat
         /\ stop = 0 => \A i \in 1 .. n : p[i] # EndToken
         /\ stop # 0 => stop \in 1 .. n /\ p[stop] = EndToken /\ \A i \in 1 .. stop - 1 : p[i] # EndToken
    BY <1>1, <1>5 DEF Found
  <1>11. /\ key \in Nat
         /\ stop # 0 =>
              /\ key = 0 => \A i \in 1 .. stop - 1 : p[i] # KeyToken
              /\ key # 0 => /\ key \in 1 .. stop - 1 /\ p[key] = KeyToken
                            /\ \A i \in 1 .. key - 1 : p[i] # KeyToken
    BY <1>1, <1>7, <1>10 DEF Found
  <1>12. /\ close \in Nat
         /\ stop # 0 /\ key # 0 /\ key + 1 < stop =>
              /\ close = 0 => \A i \in key + 2 .. stop - 1 : p[i] # p[key + 1]
              /\ close # 0 => /\ close \in key + 2 .. stop - 1 /\ p[close] = p[key + 1]
                              /\ \A i \in key + 2 .. close - 1 : p[i] # p[key + 1]
    BY <1>1, <1>8, <1>10, <1>11 DEF Found
  <1> QED
    BY <1>9, <1>10, <1>11, <1>12 DEF n, h, start, stop, key, close

(* A part of the window is that part of the prolog.                         *)
LEMMA WindowSlice ==
  ASSUME NEW p \in Seq(STRING), NEW a \in Nat \ {0}, NEW z \in Int, z <= Len(Window(p))
  PROVE  SubSeq(Window(p), a, z) = SubSeq(p, a, z)
  <1> DEFINE h == Window(p)
  <1>1. Len(h) \in Nat /\ Len(h) <= Len(p) /\ \A i \in 1 .. Len(h) : h[i] = p[i]
    BY WindowFacts
  <1> HIDE DEF h
  <1>2. \A i \in 1 .. (z - a) + 1 : h[i + a - 1] = p[i + a - 1]
    <2>1. \A i \in 1 .. (z - a) + 1 : i + a - 1 \in 1 .. Len(h)
      BY <1>1 DEF h
    <2> QED
      BY <1>1, <2>1
  <1>3. SubSeq(h, a, z) = [i \in 1 .. (z - a) + 1 |-> h[i + a - 1]]
    OBVIOUS
  <1>4. SubSeq(p, a, z) = [i \in 1 .. (z - a) + 1 |-> p[i + a - 1]]
    OBVIOUS
  <1> QED
    BY <1>2, <1>3, <1>4 DEF h

(* What the searches find is a label ...                                    *)
LEMMA FoundIsLabel ==
  ASSUME NEW p \in Seq(STRING), HasLabel(p)
  PROVE  IsLabel(p, KeyOf(p), CloseOf(p)) /\ CloseOf(p) - 1 <= Len(Window(p))
  <1> DEFINE n     == Len(Window(p))
             start == StartOf(p)
             stop  == StopOf(p)
             key   == KeyOf(p)
             close == CloseOf(p)
  <1>1. /\ n \in Nat /\ Len(p) \in Nat /\ n <= Len(p) /\ n <= PrologScanWindow
        /\ PrologScanWindow \in Nat /\ \A i \in 1 .. n : Window(p)[i] = p[i]
    BY WindowFacts, EncodingsAssumption
  <1>2. /\ start # 0 /\ Window(p)[start] = XmlToken /\ stop # 0 /\ key # 0 /\ key + 1 < stop
        /\ Window(p)[key + 1] \in Quotes /\ close # 0
    BY DEF HasLabel
  <1>3. /\ start \in 1 .. n /\ \A i \in 1 .. start - 1 : p[i] = Blank
        /\ stop \in 1 .. n /\ p[stop] = EndToken /\ \A i \in 1 .. stop - 1 : p[i] # EndToken
        /\ key \in 1 .. stop - 1 /\ p[key] = KeyToken /\ \A i \in 1 .. key - 1 : p[i] # KeyToken
        /\ close \in key + 2 .. stop - 1 /\ p[close] = p[key + 1]
        /\ \A i \in key + 2 .. close - 1 : p[i] # p[key + 1]
    BY <1>2, PlacesFacts
  <1> HIDE DEF n, start, stop, key, close
  <1>4. p[start] = XmlToken /\ p[key + 1] \in Quotes
    <2>1. key + 1 \in 1 .. n
      BY <1>1, <1>3
    <2> QED
      BY <1>1, <1>2, <1>3, <2>1
  <1>5. start < key
    <2>1. start # key
      BY <1>3, <1>4, TokensDiffer
    <2>2. ~(key < start)
      BY <1>3, TokensDiffer
    <2> QED
      BY <1>3, <2>1, <2>2
  <1>6. \E i \in 1 .. Len(p) : p[i] = XmlToken /\ i < key /\ \A j \in 1 .. i - 1 : p[j] = Blank
    BY <1>1, <1>3, <1>4, <1>5
  <1>7. \E i \in 1 .. Len(p) : /\ p[i] = EndToken /\ i <= PrologScanWindow /\ close < i
                               /\ \A j \in 1 .. Len(p) : p[j] = EndToken => i <= j
    <2>1. stop \in 1 .. Len(p) /\ stop <= PrologScanWindow /\ close < stop
      BY <1>1, <1>3
    <2>2. \A j \in 1 .. Len(p) : p[j] = EndToken => stop <= j
      BY <1>1, <1>3
    <2> QED
      BY <1>3, <2>1, <2>2
  <1>8. \A i \in 1 .. Len(p) : p[i] = KeyToken => key <= i
    BY <1>1, <1>3
  <1>9. key \in 1 .. Len(p) /\ close \in 1 .. Len(p) /\ key + 1 < close /\ close - 1 <= n
    BY <1>1, <1>3
  <1>10. \A i \in key + 2 .. close - 1 : p[i] # p[close]
    BY <1>3
  <1> QED
    BY <1>3, <1>4, <1>6, <1>7, <1>8, <1>9, <1>10 DEF IsLabel, n, key, close

(* ... and a label is what the searches find.                               *)
LEMMA LabelIsFound ==
  ASSUME NEW p \in Seq(STRING), NEW k, NEW e, IsLabel(p, k, e)
  PROVE  HasLabel(p) /\ k = KeyOf(p) /\ e = CloseOf(p)
  <1> DEFINE n     == Len(Window(p))
             start == StartOf(p)
             stop  == StopOf(p)
             key   == KeyOf(p)
             close == CloseOf(p)
  <1>1. /\ n \in Nat /\ Len(p) \in Nat /\ n <= Len(p) /\ PrologScanWindow \in Nat
        /\ n = Len(p) \/ n = PrologScanWindow
        /\ \A i \in 1 .. n : Window(p)[i] = p[i]
    BY WindowFacts, EncodingsAssumption
  <1>2. /\ k \in 1 .. Len(p) /\ e \in 1 .. Len(p) /\ k + 1 < e
        /\ p[k] = KeyToken /\ \A i \in 1 .. Len(p) : p[i] = KeyToken => k <= i
        /\ p[k + 1] \in Quotes /\ p[e] = p[k + 1]
        /\ \A i \in k + 2 .. e - 1 : p[i] # p[e]
    BY DEF IsLabel
  <1>3. PICK g \in 1 .. Len(p) : /\ p[g] = EndToken /\ g <= PrologScanWindow /\ e < g
                                 /\ \A j \in 1 .. Len(p) : p[j] = EndToken => g <= j
    BY DEF IsLabel
  <1>4. PICK x \in 1 .. Len(p) : p[x] = XmlToken /\ x < k /\ \A j \in 1 .. x - 1 : p[j] = Blank
    BY DEF IsLabel
  <1>5. g \in 1 .. n /\ x \in 1 .. n
    BY <1>1, <1>2, <1>3, <1>4
  <1>6. /\ start \in Nat /\ stop \in Nat /\ key \in Nat /\ close \in Nat
        /\ start = 0 => \A i \in 1 .. n : p[i] = Blank
        /\ start # 0 => start \in 1 .. n /\ p[start] # Blank /\ \A i \in 1 .. start - 1 : p[i] = Blank
        /\ stop = 0 => \A i \in 1 .. n : p[i] # EndToken
        /\ stop # 0 => stop \in 1 .. n /\ p[stop] = EndToken /\ \A i \in 1 .. stop - 1 : p[i] # EndToken
    BY PlacesFacts
  <1>7. stop # 0 =>
          /\ key = 0 => \A i \in 1 .. stop - 1 : p[i] # KeyToken
          /\ key # 0 => /\ key \in 1 .. stop - 1 /\ p[key] = KeyToken
                        /\ \A i \in 1 .. key - 1 : p[i] # KeyToken
    BY PlacesFacts
  <1>8. stop # 0 /\ key # 0 /\ key + 1 < stop =>
          /\ close = 0 => \A i \in key + 2 .. stop - 1 : p[i] # p[key + 1]
          /\ close # 0 => /\ close \in key + 2 .. stop - 1 /\ p[close] = p[key + 1]
                          /\ \A i \in key + 2 .. close - 1 : p[i] # p[key + 1]
    BY PlacesFacts
  <1>9. HasLabel(p) <=> /\ start # 0 /\ Window(p)[start] = XmlToken /\ stop # 0 /\ key # 0
                        /\ key + 1 < stop /\ Window(p)[key + 1] \in Quotes /\ close # 0
    BY DEF HasLabel
  <1> HIDE DEF n, start, stop, key, close
  <1>10. start # 0 /\ Window(p)[start] = XmlToken
    <2>1. p[x] # Blank
      BY <1>4, TokensDiffer
    <2>2. start # 0
      BY <1>5, <1>6, <2>1
    <2>3. ~(x < start)
      BY <1>5, <1>6, <2>1, <2>2
    <2>4. ~(start < x)
      BY <1>4, <1>6, <2>2
    <2>5. start = x
      BY <1>4, <1>6, <2>3, <2>4
    <2> QED
      BY <1>1, <1>4, <1>5, <2>2, <2>5
  <1>11. stop = g
    <2>1. stop # 0
      BY <1>3, <1>5, <1>6
    <2>2. ~(g < stop)
      BY <1>3, <1>5, <1>6, <2>1
    <2>3. stop \in 1 .. Len(p)
      BY <1>1, <1>6, <2>1
    <2>4. ~(stop < g)
      BY <1>3, <1>6, <2>1, <2>3
    <2> QED
      BY <1>3, <1>6, <2>2, <2>4
  <1>12. stop # 0 /\ k \in 1 .. stop - 1 /\ e \in k + 2 .. stop - 1
    BY <1>1, <1>2, <1>3, <1>11
  <1>13. key = k
    <2>1. key # 0
      BY <1>2, <1>7, <1>12
    <2>2. ~(k < key)
      BY <1>2, <1>7, <1>12, <2>1
    <2>3. key \in 1 .. Len(p) /\ p[key] = KeyToken
      BY <1>1, <1>3, <1>7, <1>11, <1>12, <2>1
    <2>4. ~(key < k)
      BY <1>2, <2>3
    <2> QED
      BY <1>2, <2>2, <2>3, <2>4
  <1>14. close = e /\ close # 0
    <2>1. key # 0 /\ key + 1 < stop
      BY <1>2, <1>3, <1>11, <1>13
    <2>2. close # 0
      BY <1>2, <1>8, <1>12, <1>13, <2>1
    <2>3. ~(e < close)
      BY <1>2, <1>8, <1>12, <1>13, <2>1, <2>2
    <2>4. close \in k + 2 .. stop - 1 /\ p[close] = p[k + 1]
      BY <1>8, <1>12, <1>13, <2>1, <2>2
    <2>5. ~(close < e)
      BY <1>2, <1>12, <2>4
    <2> QED
      BY <1>12, <2>2, <2>3, <2>4, <2>5
  <1>15. Window(p)[key + 1] \in Quotes /\ key # 0 /\ key + 1 < stop
    <2>1. k + 1 \in 1 .. n
      BY <1>1, <1>2, <1>3, <1>5
    <2> QED
      BY <1>1, <1>2, <1>3, <1>11, <1>13, <2>1
  <1> QED
    BY <1>9, <1>10, <1>12, <1>13, <1>14, <1>15 DEF key, close

(* For all inputs and windows, the label is the one the XML declaration     *)
(* holds.                                                                   *)
THEOREM LabelAlwaysOfTheProlog == Spec => []LabelIsOfTheProlog
  <1> DEFINE At(t) == {i \in 1 .. Len(bytes.prolog) : bytes.prolog[i] = t}
             Label(key, end) ==
               /\ bytes.prolog[key] = "encoding=" /\ \A i \in At("encoding=") : key <= i
               /\ bytes.prolog[key + 1] \in {"'", "\""}
               /\ bytes.prolog[end] = bytes.prolog[key + 1]
               /\ \A i \in key + 2 .. end - 1 : bytes.prolog[i] # bytes.prolog[end]
               /\ \E i \in At(">") : i <= PrologScanWindow /\ end < i /\ \A j \in At(">") : i <= j
               /\ \E i \in At("<?xml") : i < key /\ \A j \in 1 .. i - 1 : bytes.prolog[j] = " "
             Spans == {ke \in (1 .. Len(bytes.prolog)) \X (1 .. Len(bytes.prolog)) :
                         marksOff = Len(bytes.marks) /\ ke[1] + 1 < ke[2] /\ Label(ke[1], ke[2])}
  <1>1. ASSUME IInv, stage = "utf-8"
        PROVE  declared = {SubSeq(bytes.prolog, ke[1] + 2, ke[2] - 1) : ke \in Spans}
    <2> DEFINE p == bytes.prolog
               m == marksOff < Len(bytes.marks)
    <2>1. p \in Seq(STRING)
      BY <1>1, InputsAssumption DEF IInv, InputOK, Settled
    <2>2. /\ marksOff \in Nat /\ Len(bytes.marks) \in Nat /\ marksOff <= Len(bytes.marks)
          /\ declared = DetectDeclared(p, m)
      BY <1>1, TryingFacts, BytesFacts DEF Trying, LabelOf, IInv
    <2>3. ~m <=> marksOff = Len(bytes.marks)
      BY <2>2
    <2>4. ASSUME NEW k, NEW e
          PROVE  <<k, e>> \in Spans <=> marksOff = Len(bytes.marks) /\ IsLabel(p, k, e)
      <3>1. IsLabel(p, k, e) <=> k \in 1 .. Len(p) /\ e \in 1 .. Len(p) /\ k + 1 < e /\ Label(k, e)
        BY DEF IsLabel, Blank, XmlToken, KeyToken, EndToken, Quotes
      <3> HIDE DEF Label
      <3> QED
        BY <3>1
    <2> HIDE DEF p, m, Spans
    <2>5. \A ke \in Spans : ke = <<ke[1], ke[2]>>
      <3>1. Spans \subseteq (1 .. Len(p)) \X (1 .. Len(p))
        BY Zenon DEF Spans, p
      <3> QED
        BY <3>1
    <2>6. CASE ~m /\ HasLabel(p)
      <3>1. IsLabel(p, KeyOf(p), CloseOf(p)) /\ CloseOf(p) - 1 <= Len(Window(p))
        BY <2>1, <2>6, FoundIsLabel
      <3>2. SubSeq(Window(p), KeyOf(p) + 2, CloseOf(p) - 1) = SubSeq(p, KeyOf(p) + 2, CloseOf(p) - 1)
        <4>1. KeyOf(p) + 2 \in Nat \ {0} /\ CloseOf(p) - 1 \in Int
          BY <3>1 DEF IsLabel
        <4> QED
          BY <2>1, <3>1, <4>1, WindowSlice
      <3>3. Spans = {<<KeyOf(p), CloseOf(p)>>}
        BY <2>1, <2>3, <2>4, <2>5, <2>6, <3>1, LabelIsFound
      <3>4. DetectDeclared(p, m) = {SubSeq(p, KeyOf(p) + 2, CloseOf(p) - 1)}
        BY <2>6, <3>2, DetectFacts
      <3>5. {SubSeq(p, ke[1] + 2, ke[2] - 1) : ke \in Spans} = {SubSeq(p, KeyOf(p) + 2, CloseOf(p) - 1)}
        BY <3>3
      <3> QED
        BY <2>2, <3>4, <3>5 DEF p
    <2>7. CASE ~(~m /\ HasLabel(p))
      <3>1. Spans = {}
        BY <2>1, <2>3, <2>4, <2>5, <2>7, LabelIsFound
      <3> QED
        BY <2>2, <2>7, <3>1, DetectFacts
    <2> QED
      BY <2>6, <2>7
  <1>2. IInv => LabelIsOfTheProlog
    BY <1>1 DEF LabelIsOfTheProlog
  <1> QED
    BY <1>2, Invariant, PTL

(* Only the last resort of the chain makes a text that is not whole.        *)
LEMMA NoLossStep == NoSilentLoss /\ [Next]_vars => NoSilentLoss'
  <1> SUFFICES ASSUME NoSilentLoss, [Next]_vars PROVE NoSilentLoss'
    OBVIOUS
  <1>0. ASSUME NEW a, Answer(a)
        PROVE  NoSilentLoss'
    BY <1>0 DEF Answer, NoSilentLoss
  <1>1. ASSUME NEW next, next # "text", Onward(next)
        PROVE  NoSilentLoss'
    BY <1>1 DEF Onward, NoSilentLoss
  <1>2. ASSUME NEW b, Take(b)
        PROVE  NoSilentLoss'
    BY <1>2 DEF Take, NoSilentLoss
  <1>3. ASSUME NEW t, NEW e, NEW ds, t.whole, Decoded(t, e, ds)
        PROVE  NoSilentLoss'
    BY <1>3 DEF Decoded, NoSilentLoss
  <1>4. CASE CallText \/ (\E c \in Core \ {"parse"} : CallBytes(c)) \/ (\E c \in Js : CallJs(c))
    BY <1>4 DEF CallText, CallBytes, CallJs, NoSilentLoss
  <1>5. CASE Detach \/ UNCHANGED vars
    BY <1>5 DEF Detach, vars, NoSilentLoss
  <1>6. CASE RequireArray \/ RequireClaimed \/ RequireOther
    BY <1>0, <1>2, <1>6 DEF RequireArray, RequireClaimed, RequireOther
  <1>7. CASE Oversize \/ ParseRoot \/ CheckRoot
    BY <1>0, <1>7 DEF Oversize, ParseRoot, CheckRoot
  <1>8. CASE SniffMark
    BY <1>1, <1>3, <1>8 DEF SniffMark
  <1>9. CASE TryUtf8
    BY <1>1, <1>3, <1>9 DEF TryUtf8
  <1>10. CASE TryDeclared
    BY <1>1, <1>3, <1>10 DEF TryDeclared
  <1>11. CASE TryEucKr
    BY <1>1, <1>3, <1>11 DEF TryEucKr
  <1>12. CASE Lossy
    <2>1. diagnostics' = <<"EncodingUndetectable">>
      BY <1>12 DEF Lossy, Decoded
    <2> QED
      BY <2>1 DEF NoSilentLoss, ToSet
  <1>13. CASE StripMark
    BY <1>13 DEF StripMark, NoSilentLoss
  <1>14. CASE StripFeff
    <2>1. text'.whole = text.whole /\ diagnostics' = diagnostics /\ stage = "text"
      BY <1>14 DEF StripFeff
    <2> QED
      BY <2>1 DEF NoSilentLoss
  <1> QED
    BY <1>4, <1>5, <1>6, <1>7, <1>8, <1>9, <1>10, <1>11, <1>12, <1>13, <1>14 DEF Next, Step

(* For all inputs, a text with replacement characters never goes on         *)
(* without the diagnostic that says so.                                     *)
THEOREM NeverSilent == Spec => []NoSilentLoss
  <1>1. Init => NoSilentLoss
    BY DEF Init, NoSilentLoss
  <1> QED
    BY <1>1, NoLossStep, PTL DEF Spec
==============================================================================
