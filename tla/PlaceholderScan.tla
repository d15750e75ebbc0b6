--------------------------- MODULE PlaceholderScan ---------------------------
(***************************************************************************)
(* The two passes over one run of text that look for ${...} and #{...}:    *)
(* check_unterminated_placeholders (src/src/events.rs), which diagnoses an *)
(* expression that never closes, and extract_from_slice                    *)
(* (src/src/inject_value.rs), which harvests those that do, nested ones    *)
(* included.  Both find the closing brace with scan_braced_expr.           *)
(*                                                                         *)
(* A position is a byte's, from 1, and the end of a slice is the position  *)
(* after it.  extract_from_slice is recursive: its calls are a stack here. *)
(* A call of it knows its slice, read from index 0 on, and `base`, which   *)
(* it is told.  Here `from` says where the slice really begins: index k of *)
(* the code is position from + k, and base + k is what the code makes of k *)
(* when it places an entry, or tells the next call where its slice begins. *)
(***************************************************************************)
EXTENDS Integers, Sequences

CONSTANTS
  Texts,        (* the texts                                               *)
  DepthLimit    (* DEPTH_LIMIT                                             *)

Quote == {"'", "\""}
Sigil == {"$", "#"}
Start == {"x", "$"}              (* what an identifier begins with        *)
Ident == Start \cup {"1"}        (* and what it goes on with              *)
Char  == Quote \cup Sigil \cup Ident \cup {"{", "}", " ", "."}

ASSUME ConstantsOK ==
  /\ Texts \subseteq Seq(Char)
  /\ DepthLimit \in Nat \ {0}

VARIABLES
  text,      (* the run of text                                            *)
  stage,     (* "diagnose", then "harvest", then "done"                    *)
  walks,     (* the calls that walk the text or a slice, innermost last    *)
  scan,      (* Option: scan_braced_expr, called by the innermost walk     *)
  open,      (* Option: the opener UnterminatedPlaceholder is reported at  *)
  stopped,   (* Option: the opener the outermost harvest has stopped at    *)
  found      (* placeholders and spel_refs, in the order of the pushes     *)

vars == <<text, stage, walks, scan, open, stopped, found>>

Option(S)      == {{}} \cup {{x} : x \in S}
IsOption(o, S) == \A x \in o : x \in S /\ o = {x}
Pos   == Nat \ {0}
Level == [aware : BOOLEAN, depth : Pos, quote : Option(Quote)]
Walk  == [from : Pos, base : Pos, to : Pos, i : Pos, aware : BOOLEAN, quote : Option(Quote)]
Scan  == [j : Pos, level : Level, parents : Seq(Level)]
Found == [kind : {"placeholder", "spel_ref"}, from : Pos, to : Pos]
-----------------------------------------------------------------------------
Slice(from, base, to, aware) ==
  [from |-> from, base |-> base, to |-> to, i |-> from, aware |-> aware, quote |-> {}]

LevelFor(opener) == [aware |-> text[opener] = "#", depth |-> 1, quote |-> {}]
ScanFrom(opener) == [j |-> opener + 2, level |-> LevelFor(opener), parents |-> <<>>]

Init ==
  /\ text \in Texts
  /\ stage = "diagnose"
  /\ walks = <<Slice(1, 1, Len(text) + 1, FALSE)>>
  /\ scan = {} /\ open = {} /\ stopped = {}
  /\ found = <<>>

Top        == walks[Len(walks)]
WithTop(w) == [walks EXCEPT ![Len(walks)] = w]
Moved(i)   == WithTop([Top EXCEPT !.i = i])
Rest       == SubSeq(walks, 1, Len(walks) - 1)

OpenerAt(i) == /\ i + 1 < Top.to
               /\ text[i] \in Sigil /\ text[i + 1] = "{"
-----------------------------------------------------------------------------
(* The walks, between their calls of scan_braced_expr.                      *)
Walking(s) == stage = s /\ scan = {}

(* The loop of check_unterminated_placeholders ends one byte earlier.       *)
Ended == IF stage = "diagnose" THEN Top.i + 1 >= Top.to ELSE Top.i >= Top.to

WalkByte ==
  /\ scan = {} /\ stage # "done" /\ ~Ended
  /\ Top.quote = {} /\ ~(Top.aware /\ text[Top.i] \in Quote)
  /\ ~OpenerAt(Top.i)
  /\ walks' = Moved(Top.i + 1)
  /\ UNCHANGED <<text, stage, scan, open, stopped, found>>

WalkOpener ==
  /\ scan = {} /\ stage # "done" /\ ~Ended
  /\ Top.quote = {} /\ OpenerAt(Top.i)
  /\ scan' = {ScanFrom(Top.i)}
  /\ UNCHANGED <<text, stage, walks, open, stopped, found>>

(* Only the harvest of a #{...} looks for quotes.                           *)
WalkQuote ==
  /\ Walking("harvest") /\ ~Ended
  /\ Top.quote = {} /\ Top.aware /\ text[Top.i] \in Quote
  /\ walks' = WithTop([Top EXCEPT !.i = @ + 1, !.quote = {text[Top.i]}])
  /\ UNCHANGED <<text, stage, scan, open, stopped, found>>

WalkQuoted ==
  /\ Walking("harvest") /\ ~Ended
  /\ Top.quote # {}
  /\ walks' = WithTop([Top EXCEPT !.i = @ + 1, !.quote = @ \ {text[Top.i]}])
  /\ UNCHANGED <<text, stage, scan, open, stopped, found>>

(* Mutant of WholeText: the harvest reads the whole text for quotes.        *)
WholeTextAware == <<Slice(1, 1, Len(text) + 1, TRUE)>>

(* The harvest comes after, when the value is built: its outermost call.    *)
WholeText == <<Slice(1, 1, Len(text) + 1, FALSE)>>

DiagnoseEnd ==
  /\ Walking("diagnose") /\ Ended
  /\ stage' = "harvest"
  /\ walks' = WholeText
  /\ UNCHANGED <<text, scan, open, stopped, found>>

Return ==
  /\ walks' = Rest
  /\ stage' = IF Len(walks) = 1 THEN "done" ELSE stage

HarvestEnd ==
  /\ Walking("harvest") /\ Ended
  /\ Return
  /\ UNCHANGED <<text, scan, open, stopped, found>>
-----------------------------------------------------------------------------
(* scan_braced_expr, a byte or a nested opener at a time.                   *)
Cur == CHOOSE s \in scan : TRUE

Reads(s, level) == scan' = {[s EXCEPT !.j = @ + 1, !.level = level]}

Scanning ==
  /\ scan # {} /\ Cur.j < Top.to
  /\ UNCHANGED <<text, stage, walks, open, stopped, found>>

ScanQuoted ==
  /\ Scanning /\ Cur.level.quote # {}
  /\ Reads(Cur, [Cur.level EXCEPT !.quote = @ \ {text[Cur.j]}])

(* Mutant of ScanNested: a nested opener is quote-aware as the outer one.   *)
ScanNestedInherits ==
  /\ Scanning /\ Cur.level.quote = {} /\ OpenerAt(Cur.j)
  /\ Len(Cur.parents) < DepthLimit
  /\ scan' = {[j |-> Cur.j + 2, level |-> [Cur.level EXCEPT !.depth = 1],
               parents |-> Append(Cur.parents, Cur.level)]}

ScanNested ==
  /\ Scanning /\ Cur.level.quote = {} /\ OpenerAt(Cur.j)
  /\ Len(Cur.parents) < DepthLimit
  /\ scan' = {[j |-> Cur.j + 2, level |-> LevelFor(Cur.j),
               parents |-> Append(Cur.parents, Cur.level)]}

OneByte ==
  /\ Scanning /\ Cur.level.quote = {} /\ ~OpenerAt(Cur.j)

ScanQuote ==
  /\ OneByte /\ Cur.level.aware /\ text[Cur.j] \in Quote
  /\ Reads(Cur, [Cur.level EXCEPT !.quote = {text[Cur.j]}])

ScanBrace ==
  /\ OneByte /\ text[Cur.j] = "{"
  /\ Reads(Cur, [Cur.level EXCEPT !.depth = @ + 1])

ScanCloseBrace ==
  /\ OneByte /\ text[Cur.j] = "}" /\ Cur.level.depth > 1
  /\ Reads(Cur, [Cur.level EXCEPT !.depth = @ - 1])

ScanCloseNested ==
  /\ OneByte /\ text[Cur.j] = "}" /\ Cur.level.depth = 1 /\ Cur.parents # <<>>
  /\ scan' = {[j |-> Cur.j + 1, level |-> Cur.parents[Len(Cur.parents)],
               parents |-> SubSeq(Cur.parents, 1, Len(Cur.parents) - 1)]}

ScanByte ==
  /\ OneByte /\ text[Cur.j] \notin {"{", "}"}
  /\ ~(Cur.level.aware /\ text[Cur.j] \in Quote)
  /\ Reads(Cur, Cur.level)

(* It returns: the text has run out, the limit of open levels is reached,   *)
(* or the closing brace is found.                                           *)
Fails ==
  /\ scan # {}
  /\ \/ Cur.j >= Top.to
     \/ Cur.level.quote = {} /\ OpenerAt(Cur.j) /\ Len(Cur.parents) >= DepthLimit

Closes ==
  /\ scan # {} /\ Cur.j < Top.to
  /\ Cur.level.quote = {} /\ ~OpenerAt(Cur.j)
  /\ text[Cur.j] = "}" /\ Cur.level.depth = 1 /\ Cur.parents = <<>>
-----------------------------------------------------------------------------
(* What a walk makes of the answer.                                         *)
(* Mutant of DiagnoseClosed: the walk stays at the opener.                  *)
DiagnoseClosedStuck ==
  /\ stage = "diagnose" /\ Closes
  /\ scan' = {}
  /\ UNCHANGED <<text, stage, walks, open, stopped, found>>

DiagnoseClosed ==
  /\ stage = "diagnose" /\ Closes
  /\ walks' = Moved(Cur.j + 1)
  /\ scan' = {}
  /\ UNCHANGED <<text, stage, open, stopped, found>>

DiagnoseOpen ==
  /\ stage = "diagnose" /\ Fails
  /\ open' = {Top.i}
  /\ scan' = {}
  /\ stage' = "harvest"
  /\ walks' = WholeText
  /\ UNCHANGED <<text, stopped, found>>

(* leading_bean_ref_candidate: the identifier the trimmed text starts with. *)
Candidate(from, to) ==
  {f \in [kind : {"spel_ref"}, from : from .. to, to : from .. to] :
    /\ \A k \in from .. f.from - 1 : text[k] = " "
    /\ f.from < f.to /\ text[f.from] \in Start
    /\ \A k \in f.from .. f.to - 1 : text[k] \in Ident
    /\ f.to < to => text[f.to] \notin Ident}

Key(from, to) ==
  {f \in [kind : {"placeholder"}, from : {from}, to : {to}] : from < to}

(* What one closed expression adds: nothing, or one entry.                  *)
Entry(opener, to) ==
  IF text[opener] = "#" THEN Candidate(opener + 2, to) ELSE Key(opener + 2, to)

(* Where the call at hand takes a position of its slice to be in the text:  *)
(* its base and the index in the slice.                                     *)
Absolute(position) == Top.base + (position - Top.from)

Placed(e) == [e EXCEPT !.from = Absolute(@), !.to = Absolute(@)]

(* Mutant of Inner: the next call is told where it begins in the slice at   *)
(* hand, and not in the text.                                               *)
InnerInSlice(opener, to) ==
  Slice(opener + 2, 1 + (opener + 2 - Top.from), to, text[opener] = "#")

(* The slice of the recursive call.                                         *)
Inner(opener, to) == Slice(opener + 2, Absolute(opener + 2), to, text[opener] = "#")

(* The depth of a call is the number of calls around it.                    *)
Descends == Len(walks) - 1 < DepthLimit

HarvestClosed ==
  /\ stage = "harvest" /\ Closes
  /\ \/ Entry(Top.i, Cur.j) = {} /\ UNCHANGED found
     \/ \E e \in Entry(Top.i, Cur.j) : found' = Append(found, Placed(e))
  /\ walks' = IF Descends THEN Append(Moved(Cur.j + 1), Inner(Top.i, Cur.j)) ELSE Moved(Cur.j + 1)
  /\ scan' = {}
  /\ UNCHANGED <<text, stage, open, stopped>>

HarvestStops ==
  /\ stage = "harvest" /\ Fails
  /\ stopped' = IF Len(walks) = 1 THEN {Top.i} ELSE stopped
  /\ scan' = {}
  /\ Return
  /\ UNCHANGED <<text, open, found>>

Walks == WalkByte \/ WalkOpener \/ WalkQuote \/ WalkQuoted \/ DiagnoseEnd \/ HarvestEnd

Scans == ScanQuoted \/ ScanNested \/ ScanQuote \/ ScanBrace \/ ScanCloseBrace
           \/ ScanCloseNested \/ ScanByte

Returns == DiagnoseClosed \/ DiagnoseOpen \/ HarvestClosed \/ HarvestStops

Next == Walks \/ Scans \/ Returns

(* The passes are plain loops, never suspended.                             *)
Spec == Init /\ [][Next]_vars /\ WF_vars(Next)
-----------------------------------------------------------------------------
(* Type invariant.                                                          *)
TypeOK ==
  /\ text \in Seq(Char)
  /\ stage \in {"diagnose", "harvest", "done"}
  /\ walks \in Seq(Walk)
  /\ IsOption(scan, Scan) /\ IsOption(open, Pos) /\ IsOption(stopped, Pos)
  /\ found \in Seq(Found)
  /\ stage = "done" <=> walks = <<>>
  /\ stage = "done" => scan = {}
  /\ stage = "diagnose" => Len(walks) = 1

(* However deep openers are nested, neither the levels that one scan keeps  *)
(* on its heap nor the calls of the recursive harvest exceed the limit.     *)
DepthBounded ==
  /\ Len(walks) <= DepthLimit + 1
  /\ \A s \in scan : Len(s.parents) <= DepthLimit

(* No index is out of bounds, on any text: a cursor is inside its slice, a  *)
(* slice is inside what its caller has passed, and so is an entry's span.   *)
SlicesNest ==
  /\ \A k \in 1 .. Len(walks) : walks[k].i <= walks[k].to /\ walks[k].to <= Len(text) + 1
  /\ \A k, l \in 1 .. Len(walks) : k < l => walks[l].to < walks[k].i
  /\ \A s \in scan : walks # <<>> /\ Top.i + 2 <= s.j /\ s.j <= Top.to
  /\ \A k \in 1 .. Len(found) : found[k].from < found[k].to /\ found[k].to <= Len(text)

(* The harvest meets the braces the scan of the outer expression matched:   *)
(* inside a closed expression every scan finds its brace, so that the slice *)
(* at hand, which ends before the rest of the text, never cuts one short.   *)
InnerAlwaysCloses == stage = "harvest" /\ Fails => Len(walks) = 1

(* An expression is diagnosed as never closing exactly if the harvest stops *)
(* at it.                                                                   *)
DiagnosedIffNotHarvested == stage = "done" => stopped = open

(* The entries come in the order of the text, and no text is harvested      *)
(* twice: the spans of two entries are apart, or the later one is inside    *)
(* the earlier.                                                             *)
FoundInOrder ==
  \A i, j \in 1 .. Len(found) : i < j =>
    /\ found[i].from < found[j].from
    /\ found[j].from >= found[i].to \/ found[j].to <= found[i].to

(* Both passes end, on every text.                                          *)
Terminates == <>(stage = "done")
==============================================================================
