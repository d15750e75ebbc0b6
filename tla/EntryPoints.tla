----------------------------- MODULE EntryPoints -----------------------------
(* From the bytes of a file to the answer of an entry point: what the       *)
(* WebAssembly boundary makes of a JavaScript value (wasm/src/lib.rs), the  *)
(* decoding chain (src/encoding.rs), the marks build_tree takes off the     *)
(* text (src/events.rs) and what parse, parse_bytes and is_beans_doc make   *)
(* of the root (src/lib.rs).  The same bytes are given to every entry       *)
(* point, once, in any order, and between two calls JavaScript may hand the *)
(* buffer to a worker, which detaches it.                                   *)
(*                                                                          *)
(* A byte string is its leading byte-order marks, the tokens of its prolog  *)
(* in ASCII, its size, the pairs <<encoding, marks taken off>> in which     *)
(* what is left decodes without a replacement, and what its root element is *)
(* when it is read in an encoding.                                          *)
EXTENDS Integers, Sequences, SequencesExt

CONSTANTS
  Inputs,           \* the JavaScript values handed to the entry points
  Encodings,        \* WHATWG names of the encodings
  Registry,         \* encoding_rs: from the labels it knows to encodings
  Supplement,       \* labels of the Korean code page it does not know
  MaxInputBytes,
  PrologScanWindow

Utf8  == "UTF-8"
EucKr == "EUC-KR"
Utf16 == {"UTF-16LE", "UTF-16BE"}
Nothing == "nothing"

Shapes == {"array", "foreign array", "look-alike", "other"}

(* An array is a Uint8Array of this realm, a foreign array one of another;  *)
(* a look-alike is an object that has a byteLength and a BYTES_PER_ELEMENT  *)
(* of one but no elements.                                                  *)
ASSUME InputsAssumption ==
  \A v \in Inputs :
    /\ v.shape \in Shapes
    /\ v.bytes.marks \in Seq({Utf8} \cup Utf16)
    /\ v.bytes.size \in Nat
    /\ v.bytes.prolog \in Seq(STRING)
    /\ v.bytes.clean \subseteq Encodings \X Nat
    /\ DOMAIN v.bytes.root = Encodings
    /\ \A e \in Encodings : v.bytes.root[e] \in {"beans", "other", "none"}

NoBytes == [marks |-> <<>>, prolog |-> <<>>, size |-> 0, clean |-> Encodings \X {0},
            root |-> [e \in Encodings |-> "none"]]

(* There is one empty byte string; and what is valid UTF-8 begins with no   *)
(* mark but its own, which is valid UTF-8 by itself: FE and FF are never    *)
(* bytes of it.                                                             *)
ASSUME BytesAssumption ==
  \A v \in Inputs :
    /\ v.bytes.size = 0 => v.bytes = NoBytes
    /\ \A k \in 1 .. Len(v.bytes.marks) : <<Utf8, k - 1>> \in v.bytes.clean =>
         v.bytes.marks[k] = Utf8 /\ <<Utf8, k>> \in v.bytes.clean

ASSUME EncodingsAssumption ==
  /\ {Utf8, EucKr} \cup Utf16 \subseteq Encodings /\ Nothing \notin Encodings
  /\ \A l \in DOMAIN Registry : Registry[l] \in Encodings
  /\ MaxInputBytes \in Nat /\ PrologScanWindow \in Nat

Core   == {"parse", "parse_bytes", "is_beans_doc"}
Js     == {"wasm parse", "wasm is_beans_doc"}
Calls  == Core \cup Js
Checks == {"is_beans_doc", "wasm is_beans_doc"}

NoText  == [by |-> Nothing, from |-> 0, whole |-> TRUE]

NotAsked   == [is |-> "not asked"]
WrongType  == [is |-> "wrong type"]
Unreadable == [is |-> "unreadable"]
Thrown     == {WrongType, Unreadable}

VARIABLES
  input,      \* the value every call is given
  live,       \* its buffer has not been detached
  answers,    \* what each call has answered
  call,       \* the call under way
  stage,      \* where that call is
  bytes,      \* the bytes it works on
  marksOff,   \* how many marks it has taken off them
  declared,   \* the label the prolog declares, if any
  encoding,   \* the encoding it will report
  text,       \* the decoded text: by which decoder, from which mark, all of it
  base,       \* where build_tree's reader starts in that text
  diagnostics

vars == <<input, live, answers, call, stage, bytes, marksOff, declared, encoding, text, base,
          diagnostics>>

Init ==
  /\ input \in Inputs
  /\ live = TRUE
  /\ answers = [c \in Calls |-> NotAsked]
  /\ call = Nothing /\ stage = "idle" /\ bytes = NoBytes /\ marksOff = 0
  /\ declared = {} /\ encoding = Nothing /\ text = NoText /\ base = 0
  /\ diagnostics = <<>>

(***************************************************************************)
(* What encoding_rs does.                                                  *)
(***************************************************************************)

(* Encoding::decode takes off the mark the bytes begin with, whatever the  *)
(* encoding it is asked for, and decodes by that mark.                     *)
Decode(e, off) ==
  LET marked == off < Len(bytes.marks)
      by     == IF marked THEN bytes.marks[off + 1] ELSE e
      from   == IF marked THEN off + 1 ELSE off
  IN [by |-> by, from |-> from, whole |-> <<by, from>> \in bytes.clean]

Verbatim(off) == [by |-> Utf8, from |-> off, whole |-> <<Utf8, off>> \in bytes.clean]

(***************************************************************************)
(* The declared label.                                                     *)
(***************************************************************************)

Resolve(label) ==
  IF label \in DOMAIN Registry THEN Registry[label]
  ELSE IF label \in Supplement THEN EucKr
  ELSE Nothing

Mismatch(labels, actual) ==
  IF \A l \in labels : Resolve(l) = actual THEN <<>> ELSE <<"EncodingMismatch">>

(* The first place from one to another that holds one of T; 0 if none does. *)
Find(s, from, to, T) == SelectInSubSeq(s, from, to, LAMBDA t : t \in T)

Window(prolog) ==
  SubSeq(prolog, 1, IF Len(prolog) < PrologScanWindow THEN Len(prolog) ELSE PrologScanWindow)

(* Mutant of DetectDeclared: the search runs over the whole window.         *)
DetectAnywhere(prolog, marked) ==
  LET head  == Window(prolog)
      key   == Find(head, 1, Len(head), {"encoding="})
      close == Find(head, key + 2, Len(head), {head[key + 1]})
  IN IF ~marked /\ "<?xml" \in ToSet(head) /\ key # 0 /\ close # 0
     THEN {SubSeq(head, key + 2, close - 1)}
     ELSE {}

(* The label is between the quotes that follow the first "encoding=" of    *)
(* the prolog, which ends at its first ">".  A mark left in front hides the *)
(* prolog.                                                                  *)
DetectDeclared(prolog, marked) ==
  LET head  == Window(prolog)
      start == Find(head, 1, Len(head), ToSet(head) \ {" "})
      stop  == Find(head, 1, Len(head), {">"})
      key   == Find(head, 1, stop - 1, {"encoding="})
      close == Find(head, key + 2, stop - 1, {head[key + 1]})
  IN IF /\ ~marked
        /\ start # 0 /\ head[start] = "<?xml"
        /\ stop # 0 /\ key # 0 /\ key + 1 < stop
        /\ head[key + 1] \in {"'", "\""}
        /\ close # 0
     THEN {SubSeq(head, key + 2, close - 1)}
     ELSE {}

(***************************************************************************)
(* The calls.                                                              *)
(***************************************************************************)

(* A Rust string is bytes that are valid UTF-8.                            *)
IsText(b) == <<Utf8, 0>> \in b.clean

Fresh(c, b) ==
  /\ call' = c /\ bytes' = b
  /\ marksOff' = 0 /\ declared' = {} /\ base' = 0 /\ diagnostics' = <<>>

CallText ==
  /\ stage = "idle" /\ answers["parse"] = NotAsked /\ IsText(input.bytes)
  /\ Fresh("parse", input.bytes)
  /\ text' = [by |-> Utf8, from |-> 0, whole |-> TRUE] /\ encoding' = Utf8
  /\ stage' = "text"
  /\ UNCHANGED <<input, live, answers>>

CallBytes(c) ==
  /\ stage = "idle" /\ answers[c] = NotAsked
  /\ Fresh(c, input.bytes)
  /\ text' = NoText /\ encoding' = Nothing
  /\ stage' = "size"
  /\ UNCHANGED <<input, live, answers>>

CallJs(c) ==
  /\ stage = "idle" /\ answers[c] = NotAsked
  /\ Fresh(c, NoBytes)
  /\ text' = NoText /\ encoding' = Nothing
  /\ stage' = "require"
  /\ UNCHANGED <<input, live, answers>>

(* Nothing of the program: a buffer is transferred between two calls.      *)
Detach ==
  /\ stage = "idle" /\ live
  /\ input.shape \in {"array", "foreign array"}
  /\ live' = FALSE
  /\ UNCHANGED <<input, answers, call, stage, bytes, marksOff, declared, encoding, text, base,
                 diagnostics>>

Answer(a) ==
  /\ answers' = [answers EXCEPT ![call] = a]
  /\ stage' = "idle" /\ call' = Nothing
  /\ bytes' = NoBytes /\ text' = NoText
  /\ UNCHANGED <<input, live, marksOff, declared, encoding, base, diagnostics>>

(***************************************************************************)
(* require_bytes.                                                          *)
(***************************************************************************)

(* A detached view has no length.                                          *)
ByteLength == IF live THEN input.bytes.size ELSE 0

(* What duck_typed_byte_length finds, of what is no Uint8Array of ours.    *)
ClaimsLength == input.shape \in {"foreign array", "look-alike"}

(* Copying throws on a detached buffer; an object without elements copies  *)
(* as no bytes.                                                            *)
CopyFails == ~live
Copied    == IF input.shape = "look-alike" THEN NoBytes ELSE input.bytes

Take(b) ==
  /\ bytes' = b /\ stage' = "size"
  /\ UNCHANGED <<input, live, answers, call, marksOff, declared, encoding, text, base, diagnostics>>

(* Mutant of RequireArray: no length is no live buffer.                     *)
RequireLong ==
  /\ stage = "require" /\ input.shape = "array"
  /\ IF ByteLength > 0 THEN Take(input.bytes) ELSE Answer(Unreadable)

RequireArray ==
  /\ stage = "require" /\ input.shape = "array"
  /\ IF ByteLength > 0 THEN Take(input.bytes)
     ELSE IF CopyFails THEN Answer(Unreadable)
     ELSE Take(Copied)

RequireClaimed ==
  /\ stage = "require" /\ input.shape # "array" /\ ClaimsLength
  /\ IF CopyFails THEN Answer(Unreadable)
     ELSE IF Copied.size # ByteLength THEN Answer(WrongType)
     ELSE Take(Copied)

RequireOther ==
  /\ stage = "require" /\ input.shape # "array" /\ ~ClaimsLength
  /\ Answer(WrongType)

(***************************************************************************)
(* decode.                                                                 *)
(***************************************************************************)

Oversize ==
  /\ stage = "size" /\ bytes.size > MaxInputBytes
  /\ Answer([is |-> "done", beans |-> FALSE, encoding |-> Nothing, base |-> 0,
             diagnostics |-> IF call \in Checks THEN <<>> ELSE <<"OversizeInput">>])

Decoded(t, e, ds) ==
  /\ text' = t /\ encoding' = e /\ diagnostics' = ds
  /\ stage' = "text"
  /\ UNCHANGED <<input, live, answers, call, bytes, marksOff, declared, base>>

Onward(next) ==
  /\ stage' = next
  /\ UNCHANGED <<input, live, answers, call, bytes, marksOff, declared, encoding, text, base,
                 diagnostics>>

(* Mutant of SniffMark: a mark is trusted whatever follows it.              *)
SniffTrusted ==
  /\ stage = "size" /\ bytes.size <= MaxInputBytes
  /\ IF bytes.marks # <<>> /\ Head(bytes.marks) \in Utf16
     THEN Decoded(Decode(Head(bytes.marks), 1), Head(bytes.marks), <<>>)
     ELSE Onward("strip")

SniffMark ==
  /\ stage = "size" /\ bytes.size <= MaxInputBytes
  /\ IF bytes.marks # <<>> /\ Head(bytes.marks) \in Utf16
     THEN LET t == Decode(Head(bytes.marks), 1)
          IN IF t.whole THEN Decoded(t, Head(bytes.marks), <<>>) ELSE Onward("strip")
     ELSE Onward("strip")

(* Mutant of StripMark: no mark is taken off.                               *)
StripNone ==
  /\ stage = "strip"
  /\ declared' = DetectDeclared(bytes.prolog, bytes.marks # <<>>)
  /\ stage' = "utf-8"
  /\ UNCHANGED <<input, live, answers, call, bytes, marksOff, encoding, text, base, diagnostics>>

StripMark ==
  /\ stage = "strip"
  /\ marksOff' = IF bytes.marks # <<>> /\ Head(bytes.marks) = Utf8 THEN 1 ELSE 0
  /\ declared' = DetectDeclared(bytes.prolog, marksOff' < Len(bytes.marks))
  /\ stage' = "utf-8"
  /\ UNCHANGED <<input, live, answers, call, bytes, encoding, text, base, diagnostics>>

TryUtf8 ==
  /\ stage = "utf-8"
  /\ LET t == Verbatim(marksOff)
     IN IF t.whole THEN Decoded(t, Utf8, Mismatch(declared, Utf8)) ELSE Onward("declared")

(* Mutant of TryDeclared: the heuristic comes before the label.             *)
TryDeclaredLast ==
  /\ stage = "declared"
  /\ LET fits == {e \in {Resolve(l) : l \in declared} \ {Nothing} :
                    Decode(e, marksOff).whole /\ ~Decode(EucKr, marksOff).whole}
     IN IF fits # {}
        THEN \E e \in fits : Decoded(Decode(e, marksOff), e, Mismatch(declared, e))
        ELSE Onward("euc-kr")

TryDeclared ==
  /\ stage = "declared"
  /\ LET fits == {e \in {Resolve(l) : l \in declared} \ {Nothing} : Decode(e, marksOff).whole}
     IN IF fits # {}
        THEN \E e \in fits : Decoded(Decode(e, marksOff), e, Mismatch(declared, e))
        ELSE Onward("euc-kr")

TryEucKr ==
  /\ stage = "euc-kr"
  /\ LET t == Decode(EucKr, marksOff)
     IN IF t.whole THEN Decoded(t, EucKr, Mismatch(declared, EucKr)) ELSE Onward("lossy")

Lossy ==
  /\ stage = "lossy"
  /\ Decoded(Verbatim(marksOff), Utf8, <<"EncodingUndetectable">>)

(***************************************************************************)
(* build_tree and the root.                                                *)
(***************************************************************************)

(* A mark reads as U+FEFF only in its own encoding.  build_tree takes every *)
(* one off for its reader, and counts its three bytes.                      *)
Marked == text.from < Len(bytes.marks) /\ bytes.marks[text.from + 1] = text.by

StripFeff ==
  /\ stage = "text" /\ Marked
  /\ text' = [text EXCEPT !.from = @ + 1]
  /\ base' = base + 3
  /\ UNCHANGED <<input, live, answers, call, stage, bytes, marksOff, declared, encoding, diagnostics>>

Root == bytes.root[text.by]

ParseRoot ==
  /\ stage = "text" /\ ~Marked /\ call \notin Checks
  /\ Answer([is |-> "done", beans |-> Root = "beans", encoding |-> encoding, base |-> base,
             diagnostics |-> diagnostics \o IF Root = "beans" THEN <<>> ELSE <<"NotBeansRoot">>])

(* Mutant of CheckRoot: the check looks at the text as it is.               *)
CheckMarkedRoot ==
  /\ stage = "text" /\ call \in Checks
  /\ Answer([is |-> "done", beans |-> Root = "beans" /\ ~Marked, encoding |-> Nothing, base |-> 0,
             diagnostics |-> <<>>])

CheckRoot ==
  /\ stage = "text" /\ ~Marked /\ call \in Checks
  /\ Answer([is |-> "done", beans |-> Root = "beans", encoding |-> Nothing, base |-> 0,
             diagnostics |-> <<>>])

Step ==
  \/ RequireArray \/ RequireClaimed \/ RequireOther
  \/ Oversize \/ SniffMark \/ StripMark \/ TryUtf8 \/ TryDeclared \/ TryEucKr \/ Lossy
  \/ StripFeff \/ ParseRoot \/ CheckRoot

Next ==
  \/ CallText \/ (\E c \in Core \ {"parse"} : CallBytes(c)) \/ (\E c \in Js : CallJs(c))
  \/ Detach \/ Step

Spec == Init /\ [][Next]_vars

(***************************************************************************)
(* Properties.                                                             *)
(***************************************************************************)

Codes == {"OversizeInput", "EncodingMismatch", "EncodingUndetectable", "NotBeansRoot"}

Answers ==
  {NotAsked} \cup Thrown
    \cup [is : {"done"}, beans : BOOLEAN, encoding : Encodings \cup {Nothing}, base : Nat,
          diagnostics : Seq(Codes)]

(* Type invariant: an answer has an encoding only of the chain, and the     *)
(* marks taken off are marks the bytes have.                                *)
TypeOK ==
  /\ live \in BOOLEAN
  /\ answers \in [Calls -> Answers]
  /\ call \in Calls \cup {Nothing}
  /\ stage \in {"idle", "require", "size", "strip", "utf-8", "declared", "euc-kr", "lossy", "text"}
  /\ call = Nothing <=> stage = "idle"
  /\ bytes \in {input.bytes, NoBytes}
  /\ marksOff \in {0, 1} /\ marksOff <= Len(input.bytes.marks)
  /\ encoding \in Encodings \cup {Nothing}
  /\ text.by \in Encodings \cup {Nothing} /\ text.from \in 0 .. Len(bytes.marks)
  /\ (stage = "text" => text.by \in Encodings)
  /\ base \in Nat /\ diagnostics \in Seq(Codes)

Done(c) == answers[c].is = "done"

(* is_beans_doc says yes exactly for the bytes from which parse_bytes makes *)
(* a beans file: the two walk the size limit, the chain and the root on     *)
(* their own (lib.rs 125-163).                                              *)
BoundariesAgree ==
  Done("is_beans_doc") /\ Done("parse_bytes") =>
    answers["is_beans_doc"].beans = answers["parse_bytes"].beans

(* What the WebAssembly entry points answer is what the library answers for *)
(* the bytes the value has or claims: a detached buffer or an object that   *)
(* only looks like bytes is never taken for an empty file, and an array     *)
(* whose buffer was never detached is always read, also an empty one and    *)
(* one of another realm.                                                    *)
JsAgrees ==
  /\ \A pair \in {<<"wasm parse", "parse_bytes">>, <<"wasm is_beans_doc", "is_beans_doc">>} :
       Done(pair[1]) /\ Done(pair[2]) => answers[pair[1]] = answers[pair[2]]
  /\ live /\ input.shape \in {"array", "foreign array"} =>
       \A c \in Js : answers[c] \notin Thrown

(* For a text that is valid UTF-8 and not over the limit, parse on the      *)
(* string and parse_bytes on its bytes make the same of the root, and say   *)
(* the same once the encoding is settled; the spans of the two differ by    *)
(* the one mark parse_bytes takes off before there is a text.               *)
TextAgrees ==
  Done("parse") /\ Done("parse_bytes") /\ input.bytes.size <= MaxInputBytes =>
    LET s == answers["parse"]
        b == answers["parse_bytes"]
    IN /\ s.beans = b.beans /\ b.encoding = Utf8
       /\ s.base = b.base + IF input.bytes.marks = <<>> THEN 0 ELSE 3
       /\ b.diagnostics \in {s.diagnostics, <<"EncodingMismatch">> \o s.diagnostics}

(* A replacement character comes into the text only with the diagnostic     *)
(* that says so.                                                            *)
NoSilentLoss ==
  stage = "text" /\ ~text.whole => "EncodingUndetectable" \in ToSet(diagnostics)

(* Bytes without marks that are not UTF-8 but are what their label says are *)
(* decoded by that label, and the label is not disputed, whatever else the  *)
(* bytes could be.                                                          *)
TrueLabelIsBelieved ==
  stage = "text" /\ call # "parse" /\ bytes.marks = <<>> /\ <<Utf8, 0>> \notin bytes.clean =>
    \A l \in declared : <<Resolve(l), 0>> \in bytes.clean =>
      encoding = Resolve(l) /\ diagnostics = <<>>

(* The label comes from the XML declaration alone: its first "encoding=",   *)
(* in quotes that match, with no ">" before its end and all of it in the    *)
(* window.                                                                  *)
LabelIsOfTheProlog ==
  stage = "utf-8" =>
    LET p      == bytes.prolog
        At(t)  == {i \in 1 .. Len(p) : p[i] = t}
        Label(key, end) ==
          /\ p[key] = "encoding=" /\ \A i \in At("encoding=") : key <= i
          /\ p[key + 1] \in {"'", "\""} /\ p[end] = p[key + 1]
          /\ \A i \in key + 2 .. end - 1 : p[i] # p[end]
          /\ \E i \in At(">") : i <= PrologScanWindow /\ end < i /\ \A j \in At(">") : i <= j
          /\ \E i \in At("<?xml") : i < key /\ \A j \in 1 .. i - 1 : p[j] = " "
        Spans  == {ke \in (1 .. Len(p)) \X (1 .. Len(p)) :
                     marksOff = Len(bytes.marks) /\ ke[1] + 1 < ke[2] /\ Label(ke[1], ke[2])}
    IN declared = {SubSeq(p, ke[1] + 2, ke[2] - 1) : ke \in Spans}

(* The encoding reported is that of the decoder that made the text.         *)
ReportedIsUsed == stage = "text" => encoding = text.by

==============================================================================
