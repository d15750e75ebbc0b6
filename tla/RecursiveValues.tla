--------------------------- MODULE RecursiveValues ---------------------------
(***************************************************************************)
(* What the engine of ValueEngine stands in for: the recursion             *)
(* parse_bean -> begin_resolve_value -> parse_bean / parse_collection_value *)
(* the comments of bean.rs and collection.rs describe, without a stack.    *)
(* The value an element comes to does not depend on what is found inside   *)
(* it, so that the items a bean or a collection gathers are had without    *)
(* recursion; what is said on the way, and which calls gather what, is the *)
(* recursion itself.                                                       *)
(***************************************************************************)
EXTENDS ValueEngine

(* The first n sequences of s one after the other: from each of them on,    *)
(* and all.                                                                 *)
Onward(s, n) == LET on[k \in 1 .. n + 1] == IF k > n THEN <<>> ELSE s[k] \o on[k + 1]
                IN  on
Joined(s, n) == Onward(s, n)[1]

Earliest(S) == {i \in S : \A j \in S : i <= j}
-----------------------------------------------------------------------------
(* The values.  An element at depth d is null past the limit and has a      *)
(* value of its own otherwise.                                              *)
Form(c)      == IF doc[c].kind = "bean" THEN "inner" ELSE "collection"
Yields(c, d) == IF Descends(c, d) THEN {Val(Form(c), c)} ELSE Resolved(c, d)

(* An <entry>.  Its key is the first <key> with something in it that        *)
(* resolves; the <key>s after it are not looked at.  Its value is the first *)
(* child that is no <key>, whether it resolves or not.                      *)
Keys(e)     == {i \in 1 .. Len(Kids(e)) : IsKey(Kids(e)[i])}
Filled(e)   == {i \in Keys(e) : Kids(Kids(e)[i]) # <<>>}
InKey(e, i) == Kids(Kids(e)[i])[1]
Found(e, d) == {i \in Filled(e) : Yields(InKey(e, i), d) # {}}
Tried(e, d) == {i \in Filled(e) : \A j \in Found(e, d) : i <= j}
ValueAt(e)  == Earliest(1 .. Len(Kids(e)) \ Keys(e))

EntryKey(e, d)   == UNION {Yields(InKey(e, i), d) : i \in Earliest(Found(e, d))}
EntryValue(e, d) == UNION {Yields(Kids(e)[i], d) : i \in ValueAt(e)}

(* What the child c adds to a bean or a collection n whose children are     *)
(* resolved at depth d, and all it gathers, in document order.              *)
Adds(n, d, c) ==
  CASE doc[n].kind = "bean" /\ Injects(c) ->
         <<Injected(c, UNION {Yields(v, d) : v \in Candidate(c)})>>
    [] doc[n].kind = "list" /\ Yields(c, d) # {} ->
         <<Entering("item", c, CHOOSE v \in Yields(c, d) : TRUE)>>
    [] doc[n].kind = "map" /\ doc[c].kind = "entry" ->
         MapEntry(c, EntryKey(c, d), EntryValue(c, d))
    [] OTHER -> <<>>

AddsOf(n, d)  == [i \in 1 .. Len(Kids(n)) |-> Adds(n, d, Kids(n)[i])]
Gathers(n, d) == Joined(AddsOf(n, d), Len(Kids(n)))
-----------------------------------------------------------------------------
(* What is resolved on the way, at depth d: the candidate of an injection,  *)
(* an item of a list, the keys an <entry> tries and its value.              *)
Asked(e, d, i) ==
  CASE i \in Tried(e, d) -> {InKey(e, i)}
    [] i \in ValueAt(e)  -> {Kids(e)[i]}
    [] OTHER             -> {}

Looked(n, d, c) ==
  CASE doc[n].kind = "bean" /\ Injects(c)           -> Candidate(c)
    [] doc[n].kind = "list"                         -> {c}
    [] doc[n].kind = "map" /\ doc[c].kind = "entry" -> UNION {Asked(c, d, i) : i \in 1 .. Len(Kids(c))}
    [] OTHER                                        -> {}

(* The calls in the call for a bean or a collection n whose children are    *)
(* resolved at depth d, and what they and it gather.                        *)
Below(n, d) ==
  {c \in UNION {Looked(n, d, Kids(n)[i]) : i \in 1 .. Len(Kids(n))} : Descends(c, d)}

Facts[d \in 0 .. DepthLimit] == [n \in Nodes |->
  {[node |-> n, items |-> Gathers(n, d)]} \cup UNION {Facts[d + 1][c] : c \in Below(n, d)}]

(* What is said when c is resolved and the call for it, if there is one,    *)
(* says inside[d + 1][c].                                                   *)
Saying(inside, c, d) ==
  ResolveDiags(c, d) \o IF Descends(c, d) THEN inside[d + 1][c] ELSE <<>>

SayingAny(inside, C, d) == IF C = {} THEN <<>> ELSE Saying(inside, CHOOSE c \in C : TRUE, d)

EntryConflicts(e) ==
  ConflictDiags(doc[e].key, doc[e].keyRef, e) \o ConflictDiags(doc[e].value, doc[e].valueRef, e)

EntrySays(inside, e, d) == [i \in 1 .. Len(Kids(e)) |-> SayingAny(inside, Asked(e, d, i), d)]

SaysOfOther(c) ==
  DiagnoseIf(doc[c].kind # "meta" /\ (doc[c].kind = "other" => doc[c].flawed), "BeanChild", c)

ChildSays(inside, n, d, c) ==
  CASE doc[n].kind = "bean" /\ Injects(c) ->
         InjectionConflict(c) \o SayingAny(inside, Candidate(c), d) \o InjectionDiags(c)
    [] doc[n].kind = "bean" /\ ~Injects(c) -> SaysOfOther(c)
    [] doc[n].kind = "list" -> Saying(inside, c, d)
    [] doc[n].kind = "map" /\ doc[c].kind = "entry" ->
         EntryConflicts(c) \o Joined(EntrySays(inside, c, d), Len(Kids(c))) \o MapEntryDiags(c)
    [] OTHER -> <<>>

Says(inside, n, d) == [i \in 1 .. Len(Kids(n)) |-> ChildSays(inside, n, d, Kids(n)[i])]

Said[d \in 0 .. DepthLimit] == [n \in Nodes |-> Joined(Says(Said, n, d), Len(Kids(n)))]

(* parse_bean of the outermost <bean>.                                      *)
RecursionSays ==
  DiagnoseIf(doc[RootBean].flawed, "BeanAttributes", RootBean) \o Said[0][RootBean]
-----------------------------------------------------------------------------
(* "The exact same diagnostic sequence": at every moment the engine has     *)
(* said the first diagnostics of the recursion, in its order, and when it   *)
(* returns it has said them all.                                            *)
SameDiagnostics ==
  \E said \in {RecursionSays} :
    /\ Len(diags) <= Len(said)
    /\ \A k \in 1 .. Len(diags) : diags[k] = said[k]
    /\ result # {} => diags = said

(* Every bean and collection ends up with the values the recursion gives    *)
(* it, in order, each resolved once; nothing else is built.                 *)
SameValues ==
  \E facts \in {Facts[0][RootBean]} :
    /\ built \subseteq facts
    /\ result # {} => built = facts /\ result = {Val("inner", RootBean)}
==============================================================================
