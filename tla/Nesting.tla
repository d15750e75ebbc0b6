------------------------------- MODULE Nesting -------------------------------
(***************************************************************************)
(* The tree builder beside the nesting of the document it reads.  nest is  *)
(* a history variable: the tags that are open by rules 1 and 2 of          *)
(* close_tag (src/src/events.rs) applied to every tag, over-deep or not.   *)
(* build_tree only has the counter suppressed_depth for the over-deep      *)
(* ones.  Under BalancedSpec every close tag closes the innermost open     *)
(* tag; under AnySpec the document may be malformed.                       *)
(***************************************************************************)
EXTENDS TreeBuilder

VARIABLE nest

nvars == <<vars, nest>>

NInit == Init /\ nest = <<>>

OpenStep(name) ==
  /\ \E w \in Widths :
       StartSuppressed(w) \/ StartAtLimit(w) \/ \E flaw \in Flaws : StartPush(name, w, flaw)
  /\ nest' = Append(nest, [name |-> name, start |-> Pos])

EndStep(name) == \E w \in Widths :
  \/ EndSuppressed(w)
  \/ EndOrphan(name, w)
  \/ \E d \in 1 .. Len(stack) : EndMatched(name, w, d)

OtherStep ==
  /\ \/ EmptyEvent
     \/ ContentEvent
     \/ \E w \in Widths : Ignored(w)
     \/ \E skipTo \in 1 .. SourceLen : Resync(skipTo)
  /\ UNCHANGED nest

FinishStep == (Stuck \/ Eof) /\ UNCHANGED nest

(* A close tag closes the innermost open tag of its name and all inside it; *)
(* without one it is ignored.                                               *)
AfterClose(name) ==
  IF \A i \in 1 .. Len(nest) : nest[i].name # name THEN nest
  ELSE LET d == CHOOSE i \in 1 .. Len(nest) :
                  nest[i].name = name /\ \A j \in i + 1 .. Len(nest) : nest[j].name # name
       IN  SubSeq(nest, 1, d - 1)

AnyNext ==
  \/ \E name \in Names : OpenStep(name)
  \/ \E name \in Names : EndStep(name) /\ nest' = AfterClose(name)
  \/ OtherStep
  \/ FinishStep

BalancedClose ==
  /\ nest # <<>>
  /\ EndStep(nest[Len(nest)].name)
  /\ nest' = SubSeq(nest, 1, Len(nest) - 1)

BalancedFinish == nest = <<>> /\ FinishStep

BalancedNext ==
  \/ \E name \in Names : OpenStep(name)
  \/ BalancedClose
  \/ OtherStep
  \/ BalancedFinish

AnySpec      == NInit /\ [][AnyNext]_nvars
BalancedSpec == NInit /\ [][BalancedNext]_nvars

-----------------------------------------------------------------------------
(* In a balanced document the counter is exactly how far the nesting is     *)
(* over the limit, the stack is the part of the nesting that is not, and no *)
(* rule of recovery is ever applied, to a tag within the limit or over it.  *)
CounterIsExact ==
  /\ Len(nest) = Len(stack) + suppressed
  /\ suppressed > 0 => Len(stack) = MaxTreeDepth
  /\ Len(stack) <= MaxTreeDepth
  /\ \A i \in 1 .. Len(stack) : stack[i].name = nest[i].name /\ stack[i].start = nest[i].start
  /\ \A i \in 1 .. Len(diags) : diags[i].code \notin {"UnclosedTag", "UnexpectedCloseTag"}

(* events.rs of any document: once nesting is back at or under the limit    *)
(* "parsing resumes normally - a sibling after the over-deep subtree still  *)
(* parses".  The code counts the tags of the subtree instead of matching    *)
(* them, so a tag left open in it keeps the suppression on.                 *)
ResumesAtLimit ==
  phase = "reading" /\ Len(nest) <= MaxTreeDepth => suppressed = 0

(* On a balanced document build_tree implements DocumentTree.               *)
limitDiags == {i \in 1 .. Len(diags) : diags[i].code = "NestingLimitExceeded"}

Doc == INSTANCE DocumentTree WITH
  at       <- Pos,
  open     <- nest,
  elements <- {[name |-> n.name, start |-> n.start, end |-> n.end] : n \in nodes},
  cut      <- {[start |-> diags[i].start, end |-> diags[i].end] : i \in limitDiags}

ImplementsDocumentTree == Doc!Spec
==============================================================================
