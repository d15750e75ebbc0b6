---------------------------- MODULE DocumentTree ----------------------------
(***************************************************************************)
(* What build_tree (src/src/events.rs) promises of a document whose tags   *)
(* balance: exactly its elements of depth at most MaxTreeDepth become the  *)
(* tree, each with the extent of its own two tags, and each subtree that   *)
(* starts deeper is reported once, however deep it goes.  There is no      *)
(* recovery, no counter and no stack of half-built elements here, only the *)
(* nesting of the document.                                                *)
(***************************************************************************)
EXTENDS Integers, Sequences

CONSTANTS Names, SourceLen, MaxTreeDepth, Widths, BomLengths

VARIABLES
  at,        (* how much of the document has been read                     *)
  open,      (* the tags open at that point, innermost last                *)
  elements,  (* the elements of the tree that are complete                 *)
  cut        (* the tags a dropped subtree was reported at                 *)

dvars == <<at, open, elements, cut>>

Init == at \in BomLengths /\ open = <<>> /\ elements = {} /\ cut = {}

Advance(w) ==
  /\ at + w <= SourceLen
  /\ at' = at + w

CutAt(w) == IF Len(open) = MaxTreeDepth THEN cut \cup {[start |-> at, end |-> at + w]} ELSE cut

Open(name, w) ==
  /\ Advance(w)
  /\ open' = Append(open, [name |-> name, start |-> at])
  /\ cut' = CutAt(w)
  /\ UNCHANGED elements

Leaf(name, w) ==
  /\ Advance(w)
  /\ elements' = IF Len(open) < MaxTreeDepth
                 THEN elements \cup {[name |-> name, start |-> at, end |-> at + w]}
                 ELSE elements
  /\ cut' = CutAt(w)
  /\ UNCHANGED open

Close(w) ==
  LET top == open[Len(open)]
  IN  /\ open # <<>>
      /\ Advance(w)
      /\ open' = SubSeq(open, 1, Len(open) - 1)
      /\ elements' = IF Len(open) <= MaxTreeDepth
                     THEN elements \cup {[name |-> top.name, start |-> top.start, end |-> at + w]}
                     ELSE elements
      /\ UNCHANGED cut

(* Text, comments, and markup that makes no sense.                          *)
Skip(w) ==
  /\ Advance(w)
  /\ UNCHANGED <<open, elements, cut>>

Next ==
  \/ \E w \in Widths : Close(w) \/ \E name \in Names : Open(name, w) \/ Leaf(name, w)
  \/ \E w \in 1 .. SourceLen : Skip(w)

Spec == Init /\ [][Next]_dvars
==============================================================================
