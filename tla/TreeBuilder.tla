----------------------------- MODULE TreeBuilder -----------------------------
(***************************************************************************)
(* build_tree (src/src/events.rs): the error-recovering tree builder.      *)
(*                                                                         *)
(* The source text is a range of SourceLen positions.  The tokenizer       *)
(* (quick-xml, external) reports one event at a time and this module says  *)
(* what build_tree does with it: every sequence of events, balanced or     *)
(* not, is a behaviour.  The tree is kept flat: an element is named by the *)
(* position of its `<`, a child is a reference to a span, and nodes holds  *)
(* every element that has been completed.                                  *)
(***************************************************************************)
EXTENDS Integers, Sequences, FiniteSets

CONSTANTS
  Names,         (* qualified tag names                                     *)
  SourceLen,     (* length of the source text                               *)
  MaxTreeDepth,  (* MAX_TREE_DEPTH                                          *)
  Widths,        (* the lengths a token may have                            *)
  BomLengths,    (* how much of the source is leading byte-order marks      *)
  CDataOpen,     (* length of the opening CDATA delimiter (9 in the source) *)
  CDataClose,    (* length of the closing CDATA delimiter (3 in the source) *)
  Flaws,         (* whether a tag's attributes / a text's entities are bad  *)
  Marks          (* what a text run holds: see Depth below                  *)

ASSUME ConstantsOK ==
  /\ SourceLen \in Nat
  /\ MaxTreeDepth \in Nat \ {0}
  /\ Widths \subseteq Nat \ {0}
  /\ BomLengths \subseteq 0 .. SourceLen
  /\ CDataOpen \in Nat \ {0} /\ CDataClose \in Nat \ {0}
  /\ Flaws \subseteq BOOLEAN
  /\ Marks \subseteq {"plain", "open", "close"}

VARIABLES
  base,        (* base_offset: where the current reader starts in the source *)
  rpos,        (* reader.buffer_position(), relative to base                 *)
  stack,       (* the open tags, innermost last                              *)
  nodes,       (* the completed elements                                     *)
  root,        (* Option: {} or the set of one reference                     *)
  suppressed,  (* suppressed_depth                                           *)
  pending,     (* Option: pending_placeholder_span                           *)
  diags,       (* the diagnostics, in order                                  *)
  runs,        (* history: the text runs handed to the placeholder check     *)
  matched,     (* history: the starts of the elements a tag of their own has *)
               (* closed                                                     *)
  phase        (* "reading", or "done" once the loop has been left           *)

vars == <<base, rpos, stack, nodes, root, matched, suppressed, pending, diags, runs, phase>>
tree == <<stack, nodes, root, matched>>

Ref     == [kind : {"element", "text"}, start : Nat, end : Nat]
OpenTag == [name : Names, start : Nat, children : Seq(Ref)]
Element == [name : Names, start : Nat, end : Nat, children : Seq(Ref)]
Run     == [start : Nat, end : Nat, mark : Marks]
Pending == [start : Nat, end : Nat, depth : Nat, opener : Nat]
Code    == {"UnclosedTag", "UnexpectedCloseTag", "NestingLimitExceeded",
            "AttrDiagnostic", "InvalidEntity", "UnterminatedPlaceholder"}
Diag    == [code : Code, start : Nat, end : Nat]

ElementRef(s, e)    == [kind |-> "element", start |-> s, end |-> e]
TextRef(s, e)       == [kind |-> "text", start |-> s, end |-> e]
Diagnose(code, s, e) == [code |-> code, start |-> s, end |-> e]

(***************************************************************************)
(* Positions.  Consume(w) reads a token of length w; Pos is the source     *)
(* position of the next token.                                             *)
(***************************************************************************)
Pos == base + rpos

Consume(w) ==
  /\ phase = "reading"
  /\ Pos + w <= SourceLen
  /\ rpos' = rpos + w
  /\ UNCHANGED <<base, phase>>

Init ==
  /\ base \in BomLengths
  /\ rpos = 0
  /\ stack = <<>> /\ nodes = {} /\ root = {} /\ matched = {}
  /\ suppressed = 0
  /\ pending = {} /\ runs = <<>>
  /\ diags = <<>>
  /\ phase = "reading"

-----------------------------------------------------------------------------
(* push_completed and push_text: the reference goes to the innermost open   *)
(* tag; an element with no open tag around it becomes the root if there is  *)
(* none yet; anything else is dropped.                                      *)
AttachTo(stk, ref) ==
  IF stk = <<>> THEN stk ELSE [stk EXCEPT ![Len(stk)].children = Append(@, ref)]

RootAfter(stk, ref) == IF stk = <<>> /\ root = {} THEN {ref} ELSE root

(* Mutant of Closed: the two ends are swapped.                              *)
ClosedSwapped(i, d, cs, ce) ==
  [name     |-> stack[i].name,
   start    |-> stack[i].start,
   end      |-> IF i = d THEN cs ELSE ce,
   children |-> IF i = Len(stack) THEN stack[i].children
                ELSE Append(stack[i].children, ElementRef(stack[i + 1].start, ce))]

(* Mutant of Closed: an implicitly closed tag is not handed to its parent.  *)
ClosedDetached(i, d, cs, ce) ==
  [name     |-> stack[i].name,
   start    |-> stack[i].start,
   end      |-> IF i = d THEN ce ELSE cs,
   children |-> stack[i].children]

(* The element an open tag becomes when the tags from depth d up are closed *)
(* at once: the innermost first, each attached to the one below it.  The    *)
(* tag at depth d ends at ce, those above it end at cs.                     *)
Closed(i, d, cs, ce) ==
  [name     |-> stack[i].name,
   start    |-> stack[i].start,
   end      |-> IF i = d THEN ce ELSE cs,
   children |-> IF i = Len(stack) THEN stack[i].children
                ELSE Append(stack[i].children, ElementRef(stack[i + 1].start, cs))]

CloseDownTo(d, cs, ce) ==
  LET below == SubSeq(stack, 1, d - 1)
      ref   == ElementRef(stack[d].start, ce)
  IN  /\ nodes' = nodes \cup {Closed(i, d, cs, ce) : i \in d .. Len(stack)}
      /\ stack' = AttachTo(below, ref)
      /\ root' = RootAfter(below, ref)

(* Mutant of Unclosed: the outermost of them is closed without a word.      *)
UnclosedButLast(d, e) ==
  [k \in 1 .. Len(stack) - d |->
     Diagnose("UnclosedTag", stack[Len(stack) + 1 - k].start, e)]

(* One UnclosedTag per open tag at depth d or more, innermost first.        *)
Unclosed(d, e) ==
  [k \in 1 .. Len(stack) + 1 - d |->
     Diagnose("UnclosedTag", stack[Len(stack) + 1 - k].start, e)]

(* What scan_attrs_for_tag and check_entities add to the diagnostics.       *)
AttrDiags(flaw, s, e)   == IF flaw THEN <<Diagnose("AttrDiagnostic", s, e)>> ELSE <<>>
EntityDiags(flaw, s, e) == IF flaw THEN <<Diagnose("InvalidEntity", s, e)>> ELSE <<>>

-----------------------------------------------------------------------------
(* Mutant of StartSuppressed: only the first over-deep tag is counted.      *)
StartUncounted(w) ==
  /\ suppressed > 0
  /\ Consume(w)
  /\ UNCHANGED <<tree, suppressed, pending, diags, runs>>

(* Event::Start                                                             *)
StartSuppressed(w) ==
  /\ suppressed > 0
  /\ Consume(w)
  /\ suppressed' = suppressed + 1
  /\ UNCHANGED <<tree, pending, diags, runs>>

StartAtLimit(w) ==
  /\ suppressed = 0
  /\ Len(stack) >= MaxTreeDepth
  /\ Consume(w)
  /\ diags' = Append(diags, Diagnose("NestingLimitExceeded", Pos, Pos + w))
  /\ suppressed' = 1
  /\ UNCHANGED <<tree, pending, runs>>

StartPush(name, w, flaw) ==
  /\ suppressed = 0
  /\ Len(stack) < MaxTreeDepth
  /\ Consume(w)
  /\ diags' = diags \o AttrDiags(flaw, Pos, Pos + w)
  /\ stack' = Append(stack, [name |-> name, start |-> Pos, children |-> <<>>])
  /\ UNCHANGED <<nodes, root, matched, suppressed, pending, runs>>

(* Mutant of EmptyAtLimit: a self-closing tag is waited for to close.       *)
EmptyStaysOpen(w) == StartAtLimit(w)

(* Event::Empty                                                             *)
EmptySuppressed(w) ==
  /\ suppressed > 0
  /\ Consume(w)
  /\ UNCHANGED <<tree, suppressed, pending, diags, runs>>

EmptyAtLimit(w) ==
  /\ suppressed = 0
  /\ Len(stack) >= MaxTreeDepth
  /\ Consume(w)
  /\ diags' = Append(diags, Diagnose("NestingLimitExceeded", Pos, Pos + w))
  /\ UNCHANGED <<tree, suppressed, pending, runs>>

EmptyPush(name, w, flaw) ==
  LET el == [name |-> name, start |-> Pos, end |-> Pos + w, children |-> <<>>]
  IN  /\ suppressed = 0
      /\ Len(stack) < MaxTreeDepth
      /\ Consume(w)
      /\ diags' = diags \o AttrDiags(flaw, Pos, Pos + w)
      /\ nodes' = nodes \cup {el}
      /\ stack' = AttachTo(stack, ElementRef(Pos, Pos + w))
      /\ root' = RootAfter(stack, ElementRef(Pos, Pos + w))
      /\ matched' = matched \cup {Pos}
      /\ UNCHANGED <<suppressed, pending, runs>>

(* Event::End: saturating_sub inside an over-deep subtree, otherwise        *)
(* close_tag.                                                               *)
EndSuppressed(w) ==
  /\ suppressed > 0
  /\ Consume(w)
  /\ suppressed' = suppressed - 1
  /\ UNCHANGED <<tree, pending, diags, runs>>

EndOrphan(name, w) ==
  /\ suppressed = 0
  /\ \A i \in 1 .. Len(stack) : stack[i].name # name
  /\ Consume(w)
  /\ diags' = Append(diags, Diagnose("UnexpectedCloseTag", Pos, Pos + w))
  /\ UNCHANGED <<tree, suppressed, pending, runs>>

EndMatched(name, w, d) ==
  /\ suppressed = 0
  /\ stack[d].name = name
  /\ \A i \in d + 1 .. Len(stack) : stack[i].name # name
  /\ Consume(w)
  /\ diags' = diags \o Unclosed(d + 1, Pos)
  /\ CloseDownTo(d, Pos, Pos + w)
  /\ matched' = matched \cup {stack[d].start}
  /\ UNCHANGED <<suppressed, pending, runs>>

-----------------------------------------------------------------------------
(* The placeholder check of the text.  A run that is plain holds no brace,  *)
(* an open one has a `${` or `#{` it does not close, a close one has the    *)
(* `}` of an opener before it.  Contiguous runs are read as one text.       *)
Depth(d, mark) ==
  CASE mark = "open"  -> d + 1
    [] mark = "close" -> IF d > 0 THEN d - 1 ELSE 0
    [] OTHER          -> d

FreshPending(run) ==
  [start |-> run.start, end |-> run.end, depth |-> Depth(0, run.mark), opener |-> run.start]

Extended(p, run) ==
  [start  |-> p.start,
   end    |-> run.end,
   depth  |-> Depth(p.depth, run.mark),
   opener |-> IF p.depth = 0 THEN run.start ELSE p.opener]

(* check_unterminated_placeholders on the pending run, if there is one.     *)
PlaceholderDiags(pend) ==
  IF \E p \in pend : p.depth > 0
  THEN LET p == CHOOSE q \in pend : TRUE
       IN  <<Diagnose("UnterminatedPlaceholder", p.opener, p.end)>>
  ELSE <<>>

(* Mutant of Contiguous: whatever was read in between is overlooked.        *)
AnyPending(run) == pending # {}

Contiguous(run) == \E p \in pending : p.end = run.start

(* extend_pending_placeholder_span *)
NextPending(run) ==
  IF Contiguous(run) THEN {Extended(p, run) : p \in pending} ELSE {FreshPending(run)}

BrokenRunDiags(run) == IF Contiguous(run) THEN <<>> ELSE PlaceholderDiags(pending)

(* Event::Text, Event::GeneralRef (a Text whose mark is plain: it holds no   *)
(* brace of its own) and Event::CData.                                      *)
TextSuppressed(w) ==
  /\ suppressed > 0
  /\ Consume(w)
  /\ UNCHANGED <<tree, suppressed, pending, diags, runs>>

TextEvent(run, entityDiags) ==
  /\ diags' = diags \o entityDiags \o BrokenRunDiags(run)
  /\ pending' = NextPending(run)
  /\ runs' = Append(runs, run)
  /\ stack' = AttachTo(stack, TextRef(run.start, run.end))
  /\ UNCHANGED <<nodes, root, matched, suppressed>>

Text(w, mark, flaw) ==
  /\ suppressed = 0
  /\ Consume(w)
  /\ TextEvent([start |-> Pos, end |-> Pos + w, mark |-> mark],
               EntityDiags(flaw, Pos, Pos + w))

CData(w, mark) ==
  /\ suppressed = 0
  /\ w >= CDataOpen + CDataClose
  /\ Consume(w)
  /\ TextEvent([start |-> Pos + CDataOpen, end |-> Pos + w - CDataClose, mark |-> mark], <<>>)

(* Comment, processing instruction, XML declaration, DOCTYPE.               *)
Ignored(w) ==
  /\ Consume(w)
  /\ UNCHANGED <<tree, suppressed, pending, diags, runs>>

-----------------------------------------------------------------------------
(* Leaving the loop: the pending run is checked, then every open tag is     *)
(* closed at the end of the source.                                         *)
Finish ==
  /\ diags' = diags \o PlaceholderDiags(pending) \o Unclosed(1, SourceLen)
  /\ pending' = {}
  /\ IF stack = <<>> THEN UNCHANGED tree
     ELSE CloseDownTo(1, SourceLen, SourceLen) /\ UNCHANGED matched
  /\ phase' = "done"
  /\ UNCHANGED <<base, rpos, suppressed, runs>>

Eof ==
  /\ phase = "reading"
  /\ Pos = SourceLen
  /\ Finish

(* Mutant of Resync: the position found, relative to the old reader, is     *)
(* taken for one in the source.                                             *)
ResyncRelative(skipTo) ==
  /\ phase = "reading"
  /\ skipTo >= rpos + 1
  /\ base + skipTo < SourceLen
  /\ base' = skipTo
  /\ rpos' = 0
  /\ UNCHANGED <<tree, suppressed, pending, diags, runs, phase>>

(* Unparsable markup at Pos: a fresh reader starts at the next `<`, which   *)
(* is searched for from the position after the error ...                    *)
Resync(skipTo) ==
  /\ phase = "reading"
  /\ skipTo >= rpos + 1
  /\ base + skipTo < SourceLen
  /\ base' = base + skipTo
  /\ rpos' = 0
  /\ UNCHANGED <<tree, suppressed, pending, diags, runs, phase>>

(* ... and with no `<` left the document ends here.                         *)
Stuck ==
  /\ phase = "reading"
  /\ Pos < SourceLen
  /\ Finish

StartEvent == \E w \in Widths :
  \/ StartSuppressed(w)
  \/ StartAtLimit(w)
  \/ \E name \in Names, flaw \in Flaws : StartPush(name, w, flaw)

EmptyEvent == \E w \in Widths :
  \/ EmptySuppressed(w)
  \/ EmptyAtLimit(w)
  \/ \E name \in Names, flaw \in Flaws : EmptyPush(name, w, flaw)

EndEvent == \E w \in Widths :
  \/ EndSuppressed(w)
  \/ \E name \in Names : EndOrphan(name, w)
  \/ \E name \in Names, d \in 1 .. Len(stack) : EndMatched(name, w, d)

ContentEvent == \E w \in Widths :
  \/ TextSuppressed(w)
  \/ \E mark \in Marks, flaw \in Flaws : Text(w, mark, flaw)
  \/ \E mark \in Marks : CData(w, mark)

Next ==
  \/ StartEvent
  \/ EmptyEvent
  \/ EndEvent
  \/ ContentEvent
  \/ \E w \in Widths : Ignored(w)
  \/ \E skipTo \in 1 .. SourceLen : Resync(skipTo)
  \/ Stuck
  \/ Eof

(* build_tree is one loop that is never suspended: it always takes its next *)
(* step.                                                                    *)
Spec == Init /\ [][Next]_vars /\ WF_vars(Next)
-----------------------------------------------------------------------------
(* Type invariant.                                                          *)
TypeOK ==
  /\ base \in Nat /\ rpos \in Nat /\ Pos <= SourceLen
  /\ stack \in Seq(OpenTag)
  /\ nodes \subseteq Element
  /\ root \subseteq Ref /\ \A r, s \in root : r = s
  /\ matched \subseteq Nat
  /\ suppressed \in Nat
  /\ pending \subseteq Pending /\ \A p, q \in pending : p = q
  /\ diags \in Seq(Diag)
  /\ runs \in Seq(Run)
  /\ phase \in {"reading", "done"}

(* SB-16: the tree never gets deeper than MAX_TREE_DEPTH, and a subtree is  *)
(* dropped only where the stack stands exactly at the limit: dropping goes  *)
(* with the open tags the counter was started under.                        *)
DepthBounded ==
  /\ Len(stack) <= MaxTreeDepth
  /\ phase = "reading" /\ suppressed > 0 => Len(stack) = MaxTreeDepth

(* The children of one element: in document order, disjoint, within lo..hi. *)
OrderedWithin(children, lo, hi) ==
  /\ \A i \in 1 .. Len(children) :
        lo < children[i].start /\ children[i].start <= children[i].end /\ children[i].end <= hi
  /\ \A i, j \in 1 .. Len(children) : i < j => children[i].end <= children[j].start

(* How far the i-th open tag reaches before p: to the open tag inside it.   *)
OpenUpTo(stk, p, i) == IF i = Len(stk) THEN p ELSE stk[i + 1].start

StackNests(stk, p) ==
  /\ \A i, j \in 1 .. Len(stk) : i < j => stk[i].start < stk[j].start
  /\ \A i \in 1 .. Len(stk) :
       /\ stk[i].start < p
       /\ OrderedWithin(stk[i].children, stk[i].start, OpenUpTo(stk, p, i))

(* Invariant #4 for the whole tree: whatever is closed implicitly and at    *)
(* whichever tag, the span of an element holds the spans of its children,   *)
(* and siblings are ordered and disjoint.                                   *)
SpansNest ==
  /\ \A n \in nodes : n.start < n.end /\ OrderedWithin(n.children, n.start, n.end)
  /\ phase = "reading" => StackNests(stack, Pos)

HasChild(children, n) == \E i \in 1 .. Len(children) : children[i] = ElementRef(n.start, n.end)

(* The starts of the elements, completed or open, n is a child of.          *)
Parents(n) ==
  {m.start : m \in {m \in nodes : HasChild(m.children, n)}}
    \cup {stack[i].start : i \in {i \in 1 .. Len(stack) : HasChild(stack[i].children, n)}}

ElementChildren(children) == {children[i] : i \in {i \in 1 .. Len(children) : children[i].kind = "element"}}

(* push_completed loses nothing and attaches nothing twice: an element has  *)
(* one parent, or none when it is the root or comes after the root; every   *)
(* reference to a child leads to one completed element; and however the     *)
(* document goes wrong its first element is the root and none stays open.   *)
TreeIsWhole ==
  /\ \A n \in nodes :
       \/ Cardinality(Parents(n)) = 1 /\ ElementRef(n.start, n.end) \notin root
       \/ Parents(n) = {} /\ \E r \in root : r = ElementRef(n.start, n.end) \/ r.end <= n.start
  /\ \A n \in nodes : \A c \in ElementChildren(n.children) :
       Cardinality({m \in nodes : m.start = c.start /\ m.end = c.end}) = 1
  /\ \A r \in root : \E n \in nodes : r = ElementRef(n.start, n.end)
  /\ \A r \in root, n \in nodes : r.start <= n.start
  /\ phase = "done" => stack = <<>> /\ (root = {} <=> nodes = {})

(* Rule 1 says of every element that no tag of its own has closed, and of   *)
(* no other, that it was never closed: once, and with the span the element  *)
(* has in the tree, whichever close tag or end of the source took it along. *)
UnclosedReportedOnce ==
  LET said   == {i \in 1 .. Len(diags) : diags[i].code = "UnclosedTag"}
      astray == {n \in nodes : n.start \notin matched}
  IN  /\ {<<diags[i].start, diags[i].end>> : i \in said} = {<<n.start, n.end>> : n \in astray}
      /\ \A i, j \in said : diags[i].start = diags[j].start => i = j

(* The depth of open placeholders after run i, the runs before it that are  *)
(* contiguous with it included.                                             *)
DepthAfter ==
  LET f[i \in 0 .. Len(runs)] ==
        IF i = 0 THEN 0
        ELSE Depth(IF i > 1 /\ runs[i - 1].end = runs[i].start THEN f[i - 1] ELSE 0, runs[i].mark)
  IN  f

(* Rule 6 is applied to every maximal contiguous text, no matter in how     *)
(* many runs it arrives and what is diagnosed in between: one diagnostic    *)
(* for each that leaves an opener unclosed, none for any other.             *)
OpenTextReportedOnce ==
  phase = "done" =>
    LET last  == {i \in 1 .. Len(runs) : i = Len(runs) \/ runs[i].end # runs[i + 1].start}
        open  == {i \in last : DepthAfter[i] > 0}
        said  == {i \in 1 .. Len(diags) : diags[i].code = "UnterminatedPlaceholder"}
    IN  /\ {diags[i].end : i \in said} = {runs[i].end : i \in open}
        /\ Cardinality(said) = Cardinality(open)

(* flush_pending_placeholder_span is called "once contiguity can no longer  *)
(* continue (a non-text event) or at end of input": a pending run is one    *)
(* the reader has just read.  The code calls it at the end of input only.   *)
PendingIsCurrent ==
  phase = "reading" => \A p \in pending : p.end \in {Pos, Pos - CDataClose}

(* Recovery rule 4 always gets on: the builder reaches the end of any       *)
(* source, resynchronising as often as it must.                             *)
Terminates == <>(phase = "done")
==============================================================================
