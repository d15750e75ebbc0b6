------------------------------- MODULE AttrScan -------------------------------
(***************************************************************************)
(* scan_attrs_for_tag and the check_entities it calls (src/src/events.rs): *)
(* the attributes of one start tag or empty tag, read leniently from its   *)
(* bytes.                                                                  *)
(*                                                                         *)
(* A position is a byte's, from 1; the end of a span is the position after *)
(* it.  An inner loop that only moves the cursor is one jump here: the     *)
(* state is what a turn of an outer loop leaves behind.                    *)
(* check_unterminated_placeholders is PlaceholderScan's; here an opener is *)
(* one byte, "$", that nothing closes.                                     *)
(***************************************************************************)
EXTENDS Integers, Sequences

CONSTANTS
  Tags,            (* the tags, "<" and ">" included                        *)
  Resolvable,      (* what unescape accepts between & and ;                 *)
  MaxEntityScan    (* MAX_ENTITY_SCAN                                       *)

Quote == {"'", "\""}
Stop  == {">", "/"}
Char  == Quote \cup Stop \cup {"<", " ", "=", "&", ";", "$", "x", "y"}
Break == {";", "&", "<", " "}          (* what the scan of a reference ends at *)

(* A reference has none of them in it: neither a name nor a number does.    *)
ASSUME ConstantsOK ==
  /\ Tags \subseteq Seq(Char)
  /\ Resolvable \subseteq Seq(Char \ Break)
  /\ MaxEntityScan \in Nat \ {0}

VARIABLES
  tag,      (* the bytes of the tag                                        *)
  stage,    (* "name", "scan", "equals", "value", "check", then "done"     *)
  i,        (* the cursor of the attribute loop                            *)
  name,     (* the span of the name it has read                            *)
  j,        (* that of check_entities, in the value under check            *)
  attrs,    (* the attributes, in order; the last is the one under check   *)
  diags,    (* the diagnostics, in order                                   *)
  read      (* history: the names read with a quoted value, in order       *)

vars == <<tag, stage, i, name, j, attrs, diags, read>>

Pos  == Nat \ {0}
Span == [from : Pos, to : Pos]
Attr == [name : Span, value : Span]
Code == {"DuplicateAttribute", "InvalidEntity", "UnterminatedPlaceholder"}
Diag == [code : Code, at : Span]

At(from, to)          == [from |-> from, to |-> to]
Diagnose(code, span)  == diags' = Append(diags, [code |-> code, at |-> span])
TextOf(span)          == SubSeq(tag, span.from, span.to - 1)
-----------------------------------------------------------------------------
End == Len(tag) + 1

(* Where a loop that runs while its byte is not in S stops.                *)
Until(from, S) ==
  CHOOSE k \in from .. End : /\ k = End \/ tag[k] \in S
                            /\ \A l \in from .. k - 1 : tag[l] \notin S
Skip(from) == Until(from, Char \ {" "})

Is(k, S) == k < End /\ tag[k] \in S

Init ==
  /\ tag \in Tags
  /\ stage = "name"
  /\ i = 1 /\ name = At(1, 1) /\ j = 1
  /\ attrs = <<>> /\ diags = <<>> /\ read = <<>>

SkipTagName ==
  /\ stage = "name"
  /\ i' = Until(IF Is(1, {"<"}) THEN 2 ELSE 1, Stop \cup {" "})
  /\ stage' = "scan"
  /\ UNCHANGED <<tag, name, j, attrs, diags, read>>

TagEnds ==
  /\ stage = "scan"
  /\ ~Is(Skip(i), Char \ Stop)
  /\ stage' = "done"
  /\ UNCHANGED <<tag, i, name, j, attrs, diags, read>>

NameRead ==
  /\ stage = "scan"
  /\ Is(Skip(i), Char \ Stop)
  /\ name' = At(Skip(i), Until(Skip(i), Stop \cup {"=", " "}))
  /\ i' = name'.to
  /\ stage' = "equals"
  /\ UNCHANGED <<tag, j, attrs, diags, read>>

(* Mutant of BareAttribute: it ends the tag as an unquoted value does.      *)
BareLeaves ==
  /\ stage = "equals" /\ ~Is(Skip(i), {"="})
  /\ stage' = "done"
  /\ UNCHANGED <<tag, i, name, j, attrs, diags, read>>

(* A name without a value is passed over.                                   *)
BareAttribute ==
  /\ stage = "equals" /\ ~Is(Skip(i), {"="})
  /\ i' = Skip(i)
  /\ stage' = "scan"
  /\ UNCHANGED <<tag, name, j, attrs, diags, read>>

(* What is after the = and is no quote ends the loop.                       *)
Unquoted ==
  /\ stage = "equals" /\ Is(Skip(i), {"="})
  /\ ~Is(Skip(Skip(i) + 1), Quote)
  /\ stage' = "done"
  /\ UNCHANGED <<tag, i, name, j, attrs, diags, read>>

QuoteRead ==
  /\ stage = "equals" /\ Is(Skip(i), {"="})
  /\ Is(Skip(Skip(i) + 1), Quote)
  /\ i' = Skip(Skip(i) + 1)
  /\ stage' = "value"
  /\ UNCHANGED <<tag, name, j, attrs, diags, read>>

(* Mutant of CloseAt: either quote ends the value.                          *)
CloseAtAny == Until(i + 1, Quote)

(* The quote at i is closed, at the end of the tag if nowhere before.       *)
CloseAt == Until(i + 1, {tag[i]})

CutOff ==
  /\ stage = "value" /\ CloseAt = End
  /\ stage' = "done"
  /\ UNCHANGED <<tag, i, name, j, attrs, diags, read>>

HasValue == stage = "value" /\ CloseAt < End

Seen == \E k \in 1 .. Len(attrs) : TextOf(attrs[k].name) = TextOf(name)

(* Mutant of Duplicate: it is passed over without a word.                   *)
DuplicateSilent ==
  /\ HasValue /\ Seen
  /\ i' = CloseAt + 1
  /\ stage' = "scan"
  /\ read' = Append(read, name)
  /\ UNCHANGED <<tag, name, j, attrs, diags>>

Duplicate ==
  /\ HasValue /\ Seen
  /\ Diagnose("DuplicateAttribute", name)
  /\ i' = CloseAt + 1
  /\ stage' = "scan"
  /\ read' = Append(read, name)
  /\ UNCHANGED <<tag, name, j, attrs>>

(* The attribute is pushed after the two checks of its value, which read    *)
(* nothing of attrs.                                                        *)
Attribute ==
  /\ HasValue /\ ~Seen
  /\ attrs' = Append(attrs, [name |-> name, value |-> At(i + 1, CloseAt)])
  /\ i' = CloseAt + 1
  /\ j' = i + 1
  /\ stage' = "check"
  /\ read' = Append(read, name)
  /\ UNCHANGED <<tag, name, diags>>
-----------------------------------------------------------------------------
(* check_entities                                                           *)
Value == attrs[Len(attrs)].value

Checking == stage = "check" /\ j < Value.to

(* Mutant of SemiAt: the limit counts the & as well.                        *)
SemiAtShort ==
  LET k == Until(j + 1, Break)
  IN IF k < Value.to /\ tag[k] = ";" /\ k - j < MaxEntityScan THEN {k} ELSE {}

(* The ; that ends the reference at j, if there is one near enough and      *)
(* nothing comes before it that no reference has in it.                     *)
SemiAt ==
  LET k == Until(j + 1, Break)
  IN IF k < Value.to /\ tag[k] = ";" /\ k - j <= MaxEntityScan THEN {k} ELSE {}

PlainByte ==
  /\ Checking /\ tag[j] # "&"
  /\ j' = j + 1
  /\ UNCHANGED <<tag, stage, i, name, attrs, diags, read>>

Reference ==
  /\ Checking /\ tag[j] = "&"
  /\ \E semi \in SemiAt :
       /\ IF SubSeq(tag, j + 1, semi - 1) \in Resolvable
          THEN UNCHANGED diags
          ELSE Diagnose("InvalidEntity", At(j, semi + 1))
       /\ j' = semi + 1
  /\ UNCHANGED <<tag, stage, i, name, attrs, read>>

(* Mutant of Dangling: the cursor stays.                                    *)
DanglingStays ==
  /\ Checking /\ tag[j] = "&"
  /\ SemiAt = {}
  /\ UNCHANGED vars

Dangling ==
  /\ Checking /\ tag[j] = "&"
  /\ SemiAt = {}
  /\ Diagnose("InvalidEntity", At(j, j + 1))
  /\ j' = j + 1
  /\ UNCHANGED <<tag, stage, i, name, attrs, read>>

(* check_unterminated_placeholders, and the push.                           *)
Checked ==
  /\ stage = "check" /\ j >= Value.to
  /\ LET openers == {k \in Value.from .. Value.to - 1 : tag[k] = "$"}
         first   == CHOOSE k \in openers : \A l \in openers : k <= l
     IN IF openers = {} THEN UNCHANGED diags
        ELSE Diagnose("UnterminatedPlaceholder", At(first, Value.to))
  /\ stage' = "scan"
  /\ UNCHANGED <<tag, i, name, j, attrs, read>>

Next == SkipTagName \/ TagEnds \/ NameRead \/ BareAttribute \/ Unquoted
          \/ QuoteRead \/ CutOff \/ Duplicate \/ Attribute
          \/ PlainByte \/ Reference \/ Dangling \/ Checked

(* Both functions are loops that are never suspended.                       *)
Spec == Init /\ [][Next]_vars /\ WF_vars(Next)
-----------------------------------------------------------------------------
(* Type invariant.                                                          *)
TypeOK ==
  /\ tag \in Seq(Char)
  /\ stage \in {"name", "scan", "equals", "value", "check", "done"}
  /\ i \in Pos /\ name \in Span /\ j \in Pos
  /\ attrs \in Seq(Attr) /\ (stage = "check" => attrs # <<>>)
  /\ diags \in Seq(Diag)
  /\ read \in Seq(Span)

(* Every span is in the tag and stands for what it says: names and values   *)
(* alternate without overlap, a value is exactly what is between two equal  *)
(* quotes, and the cursor is past all of them.                              *)
Quoted(v) ==
  /\ tag[v.from - 1] \in Quote /\ tag[v.to] = tag[v.from - 1]
  /\ \A k \in v.from .. v.to - 1 : tag[k] # tag[v.to]

SpansApart ==
  /\ \A k \in 1 .. Len(attrs) :
       LET a == attrs[k]
       IN /\ a.name.from <= a.name.to /\ a.name.to + 1 < a.value.from
          /\ a.value.from <= a.value.to /\ a.value.to < i
          /\ Quoted(a.value)
  /\ \A k, l \in 1 .. Len(attrs) : k < l => attrs[k].value.to < attrs[l].name.from
  /\ i <= End

(* Whether the l-th name read was there before.                             *)
Again(l) == \E k \in 1 .. l - 1 : TextOf(read[k]) = TextOf(read[l])

(* The first value wins, of every name that is read with a quoted value and *)
(* wherever on a tag with faults: kept is the first attribute of a name and *)
(* no other, and a duplicate is reported of every later one, once, and of   *)
(* nothing else.  The scanner itself compares with what it has kept.        *)
FirstWins ==
  LET names == 1 .. Len(read)
      told  == {n \in 1 .. Len(diags) : diags[n].code = "DuplicateAttribute"}
  IN  /\ {attrs[k].name : k \in 1 .. Len(attrs)} = {read[l] : l \in {l \in names : ~Again(l)}}
      /\ {diags[n].at : n \in told} = {read[l] : l \in {l \in names : Again(l)}}
      /\ \A m, n \in told : m # n => diags[m].at # diags[n].at

(* An ampersand in a kept value that starts no reference that resolves.     *)
StartsReference(k, v) ==
  \E r \in Resolvable : LET semi == k + Len(r) + 1
                        IN  /\ semi < v.to /\ Len(r) < MaxEntityScan
                            /\ SubSeq(tag, k + 1, semi) = Append(r, ";")

Loose(v) == {k \in v.from .. v.to - 1 : tag[k] = "&" /\ ~StartsReference(k, v)}

(* InvalidEntity is reported once for each of them, in order, and for no    *)
(* other ampersand, whatever a scan that finds no ; has run over.           *)
AmpersandsToldOnce ==
  stage = "done" =>
    LET told == {n \in 1 .. Len(diags) : diags[n].code = "InvalidEntity"}
    IN  /\ {diags[n].at.from : n \in told}
              = UNION {Loose(attrs[k].value) : k \in 1 .. Len(attrs)}
        /\ \A m, n \in told : m < n => diags[m].at.to <= diags[n].at.from

(* Every tag is read to its end or to where it stops making sense.          *)
Terminates == <>(stage = "done")
==============================================================================
