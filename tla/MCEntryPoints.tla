---------------------------- MODULE MCEntryPoints ----------------------------
(* Model-checking instance of EntryPoints: up to two marks before bodies    *)
(* that decode in one encoding, in several or in none.                      *)
EXTENDS EntryPoints, FiniteSetsExt, TLC

SJis == "Shift_JIS"
MCEncodings  == {Utf8, EucKr, SJis} \cup Utf16
MCRegistry   == <<"utf-8">> :> Utf8 @@ <<"euc-kr">> :> EucKr @@ <<"sjis">> :> SJis
                  @@ <<"utf-16">> :> "UTF-16LE"
MCSupplement == {<<"cp949">>}

Marks == BoundedSeq({Utf8} \cup Utf16, 2)

(* In what a body after these marks decodes: ok where it stays aligned,     *)
(* odd where the three bytes of a UTF-8 mark are read as characters of two. *)
Clean(marks, ok, odd) ==
  LET Rest(k) == SubSeq(marks, k + 1, Len(marks))
      Odd(k)  == Len(SelectSeq(Rest(k), LAMBDA m : m = Utf8)) % 2 = 1
      Whole(e, k) ==
        /\ (e = Utf8 => Utf8 \in ok)
        /\ (e # Utf8 => e \in IF Odd(k) THEN odd ELSE ok)
        /\ (e \notin Utf16 => ToSet(Rest(k)) \cap Utf16 = {})
  IN {ek \in MCEncodings \X (0 .. Len(marks)) : Whole(ek[1], ek[2])}

Bodies == {{Utf8, EucKr, SJis}, {Utf8}, {EucKr}, {EucKr, SJis}, {SJis}, {"UTF-16LE", Utf8},
           {"UTF-16BE"}, Utf16, {}}

Declares(label) == <<"<?xml", " ", "encoding=", "'">> \o label \o <<"'", ">">>
Labels == {<<"euc-kr">>, <<"cp949">>, <<"sjis">>, <<"utf-8">>, <<"utf-16">>, <<"klingon">>, <<>>}

Prologs ==
  {<<>>, <<" ">> \o Declares(<<"sjis">>), <<"<?xml", ">", "encoding=", "'", "sjis", "'", ">">>,
   <<"<?xml", "encoding=", "\"", "sjis", "'", "\"", ">">>, <<"<?xml", "encoding=", "sjis", ">">>,
   <<"<?xml", "encoding=", "'", "sjis", ">", "'">>, <<"<?xml", "encoding=", ">", "'", "sjis">>,
   <<"encoding=", "'", "sjis", "'", ">">>, <<"<?xml", "encoding=", "'", "sjis", "'">>,
   <<"<?xml", "encoding=", "'", "'", "encoding=", "'", "sjis", "'", ">">>,
   <<"<?xml", " ", " ", " ", "encoding=", "'", "sjis", "'", ">">>}
    \cup {Declares(l) : l \in Labels}

Kinds == {"beans", "other"}
Reads(kind, in) == [e \in MCEncodings |-> IF e \in in THEN kind ELSE "none"]

Bytes(marks, prolog, size, ok, odd, root) ==
  [marks |-> marks, prolog |-> prolog, size |-> size, clean |-> Clean(marks, ok, odd),
   root |-> root]

MCMax == 9
Value(shape, b) == [shape |-> shape, bytes |-> b]

MCInputs ==
  {Value("array", Bytes(m, p, 8, ok, odd, Reads("beans", in))) :
     m \in Marks, p \in {<<>>, Declares(<<"sjis">>)}, ok \in Bodies, odd \in {{}, {EucKr} \cup Utf16},
     in \in {Utf16, MCEncodings \ Utf16}}
  \cup {Value("array", Bytes(m, p, 8, ok, {}, Reads("beans", MCEncodings \ Utf16))) :
     m \in {<<>>, <<Utf8>>}, p \in Prologs, ok \in Bodies}
  \cup {Value(s, Bytes(m, <<>>, z, {Utf8}, {}, Reads(k, {Utf8}))) :
     s \in Shapes, m \in {<<>>, <<Utf8>>}, z \in {8, 9, 10}, k \in Kinds}
  \cup {Value(s, Bytes(<<>>, <<>>, 0, MCEncodings, {}, Reads("none", {}))) : s \in Shapes}
==============================================================================
