--------------------------- MODULE BodiesAsDeclared ---------------------------
(***************************************************************************)
(* What BeansBody must come to, said of the document without an engine: no *)
(* cursor, no stack of scopes and no order of delivery.  A namespace is    *)
(* the one declared nearest around an element, a body holds the children   *)
(* of its element, and everything is reported in document order.           *)
(***************************************************************************)
EXTENDS BeansBody

KidsOf(d, n) == {d[n].kids[i] : i \in DOMAIN d[n].kids}

(* The elements are numbered by their start tags: an element comes before   *)
(* its children, these in their order, and what comes between an element    *)
(* and a child of its own stands in the element, too.                       *)
InDocumentOrder(d) ==
  /\ \A n \in Nodes : \A i, j \in DOMAIN d[n].kids : i < j => d[n].kids[i] < d[n].kids[j]
  /\ \A n \in Nodes : \A c \in KidsOf(d, n) :
       /\ n < c /\ \A m \in Nodes : c \in KidsOf(d, m) => m = n
       /\ \A k \in Nodes : n < k /\ k < c => \E m \in Nodes : k \in KidsOf(d, m) /\ n <= m

ASSUME DocumentOrder ==
  /\ IsFiniteSet(Nodes) /\ Nodes = 1 .. Cardinality(Nodes) /\ RootElement = 1
  /\ \A d \in Documents : InDocumentOrder(d)

Children(n) == KidsOf(doc, n)
Parent(n)   == {m \in Nodes : n \in Children(m)}

(* An element and those it stands in: from the start tag of such a one on   *)
(* nothing has a parent before it.                                          *)
Above(n) == {m \in Nodes : m <= n /\ \A k \in m + 1 .. n : \E b \in Parent(k) : m <= b}

(* The nearest declaration of a prefix, from the element outwards.          *)
Declaring(n, p) == {m \in Above(n) : doc[m].xmlns[p] # {}}
Nearest(n, p) ==
  UNION {doc[m].xmlns[p] : m \in {b \in Declaring(n, p) : \A k \in Declaring(n, p) : k <= b}}

(* The namespace of an element, and what that and its name make it.         *)
NamespaceOf(n) == Bound([p \in NsPrefixes |-> Nearest(n, p)], doc[n].prefix)

ArmOf(n) ==
  IF doc[n].local = "beans" /\ IsBeansNs(NamespaceOf(n)) THEN "nested_profiles"
  ELSE ArmNamed(NamespaceOf(n), doc[n].local)

(* The <beans> elements that stand in nothing but such, and those of them   *)
(* that are read.                                                           *)
IsBody(n) == Above(n) \cap root # {} /\ \A m \in Above(n) : ArmOf(m) = "nested_profiles"
Opened(n) == IsBody(n) /\ Cardinality(Above(n)) <= DepthLimit
Stub(n)   == IsBody(n) /\ Cardinality(Above(n)) = DepthLimit + 1

(* What a body has, of the children in S, in each field: of descriptions    *)
(* the last.                                                                *)
Kind(S, slot)     == {c \in S : ArmOf(c) = slot}
Declared(S, slot) == IF slot = "description"
                     THEN {c \in Kind(S, slot) : \A b \in Kind(S, slot) : b <= c}
                     ELSE Kind(S, slot)

(* The elements of S in document order, each once.                          *)
Listed(s, S) ==
  /\ {s[i] : i \in 1 .. Len(s)} = S
  /\ \A i, j \in 1 .. Len(s) : i < j => s[i] < s[j]

AsDeclared(f) ==
  \/ Opened(f.node) /\ \A slot \in Slot : Listed(f.ctx[slot], Declared(Children(f.node), slot))
  \/ Stub(f.node) /\ f.ctx = EmptyCtx

(* A bean is a duplicate if another bean before it stands in the same body. *)
Repeats(n) ==
  \E b \in Parent(n) : \E m \in Children(b) :
    m < n /\ ArmOf(m) = "beans" /\ SameId(m, n)

Say(b, code, n) == IF b THEN {[code |-> code, at |-> {n}]} ELSE {}

SaidOf(n) ==
  IF \A b \in Parent(n) : ~Opened(b) THEN {}
  ELSE CASE ArmOf(n) = "unknown"    -> Say(TRUE, "UnknownElement", n)
         [] ArmOf(n) = "namespaced" -> Say(doc[n].flawed, "NamespacedDiagnostic", n)
         [] ArmOf(n) = "beans"      -> Say(doc[n].flawed, "BeanDiagnostic", n)
                                         \cup Say(Repeats(n), "DuplicateBeanId", n)
         [] OTHER                   -> Say(Stub(n), "NestingLimitExceeded", n)

IsDocument == \E n \in root : IsBody(n)

Said == IF IsDocument THEN UNION {SaidOf(n) : n \in Nodes}
        ELSE {[code |-> "NotBeansRoot", at |-> root]}

(* The order of the report: that of the elements, and of one bean first     *)
(* what parse_bean says.                                                    *)
Before(d, e) == \E m \in d.at, n \in e.at :
  m < n \/ (m = n /\ d.code = "BeanDiagnostic" /\ e.code = "DuplicateBeanId")
-----------------------------------------------------------------------------
(* The diagnostics come in document order, each where its element stands    *)
(* and none left out on the way: DuplicateBeanId for the beans of one body  *)
(* and never across bodies, NestingLimitExceeded for the outermost <beans>  *)
(* over the limit only.                                                     *)
SaidInOrder ==
  /\ \A i \in 1 .. Len(diags) : diags[i] \in Said
  /\ \A i, j \in 1 .. Len(diags) : i < j => Before(diags[i], diags[j])
  /\ \A d \in Said : \A i \in 1 .. Len(diags) :
       Before(d, diags[i]) => \E j \in 1 .. i : diags[j] = d
  /\ stage = "done" => \A d \in Said : \E i \in 1 .. Len(diags) : diags[i] = d

(* Every body ends up with exactly the children its element has, in the     *)
(* field their namespace and name call for and in document order; a         *)
(* duplicate is kept, and a body over the limit is kept, empty.             *)
FilesAsDeclared ==
  /\ \A f \in files : AsDeclared(f)
  /\ stage = "done" =>
       /\ {f.node : f \in files} = {n \in Nodes : Opened(n) \/ Stub(n)}
       /\ result = {n \in root : IsBody(n)}
==============================================================================
