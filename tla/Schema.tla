-------------------------------- MODULE Schema --------------------------------
(* The serialised form of what is injected: src/src/model.rs writes a value *)
(* as a kind and its content and reads it back with a Deserialize of its    *)
(* own, in which a kind it does not know is no error.                       *)
(*                                                                          *)
(* A JSON object is a record; a member that was not written is a field it   *)
(* does not have.  A writer may be another version of the library: one that *)
(* has other names for some kinds, or one from before value_type and merge. *)
EXTENDS Files

CONSTANT Writers

Kinds   == {"ref", "idref", "value", "inner", "collection", "null"}
Shapes  == {"list", "set", "array", "map", "props"}
Unknown == [is |-> "unrecognized"]

ASSUME WritersAssumption ==
  \A w \in Writers : w.early \in BOOLEAN /\ DOMAIN w.names = Kinds \cup Shapes

ThisBuild == [early |-> FALSE, names |-> [k \in Kinds \cup Shapes |-> k]]

KindOf(v) == IF v.is \in Shapes THEN "collection" ELSE v.is

(* serde's derived Serialize                                                *)
RECURSIVE Encode(_, _)

EncodeAll(values, w) == [i \in DOMAIN values |-> Encode(values[i], w)]

EncodeBean(bean, w) ==
  [bean EXCEPT
     !.properties = [i \in DOMAIN @ |-> [@[i] EXCEPT !.value = Encode(@, w)]],
     !.constructor_args = [i \in DOMAIN @ |-> [@[i] EXCEPT !.value = Encode(@, w)]]]

EncodeEntries(entries, w) ==
  [i \in DOMAIN entries |-> [entries[i] EXCEPT !.key = Encode(@, w), !.value = Encode(@, w)]]

Content(v, w) ==
  CASE v.is = "props" /\ w.early -> [entries |-> v.entries]
    [] v.is = "props" /\ ~w.early -> [entries |-> v.entries, merge |-> v.merge]
    [] v.is = "map" /\ w.early -> [entries |-> EncodeEntries(v.entries, w)]
    [] v.is = "map" /\ ~w.early -> [entries |-> EncodeEntries(v.entries, w),
                                    key_type |-> v.key_type, value_type |-> v.value_type,
                                    merge |-> v.merge]
    [] v.is \notin {"props", "map"} /\ w.early -> [items |-> EncodeAll(v.items, w)]
    [] OTHER -> [items |-> EncodeAll(v.items, w), value_type |-> v.value_type, merge |-> v.merge]

Tagged(kind, content) == [kind |-> kind, content |-> content]

Encode(v, w) ==
  CASE v.is \in {"ref", "idref"} -> Tagged(w.names[v.is], v.ref)
    [] v.is = "value"            -> Tagged(w.names["value"], v)
    [] v.is = "inner"            -> Tagged(w.names["inner"], EncodeBean(v.bean, w))
    [] v.is = "null"             -> Tagged(w.names["null"], v.span)
    [] v.is \in Shapes           ->
         Tagged(w.names["collection"], [value |-> Tagged(w.names[v.is], Content(v, w)), span |-> v.span])
    [] OTHER                     -> [kind |-> "unrecognized"]
-----------------------------------------------------------------------------
(* Deserialize for InjectValue and Collection, with derived ones around     *)
(* them; an optional member that is missing is as one that is null.         *)
RECURSIVE Decode(_)

Member(json, name) == IF name \in DOMAIN json THEN json[name] ELSE {}

DecodeAll(values) == [i \in DOMAIN values |-> Decode(values[i])]

DecodeBean(bean) ==
  [bean EXCEPT
     !.properties = [i \in DOMAIN @ |-> [@[i] EXCEPT !.value = Decode(@)]],
     !.constructor_args = [i \in DOMAIN @ |-> [@[i] EXCEPT !.value = Decode(@)]]]

(* Mutant of DecodeCollection: whatever it is, it is read as a list.        *)
DecodeAsList(json, span) ==
  LET c == json.content IN
  [is |-> "list", span |-> span,
   items |-> IF "items" \in DOMAIN c THEN DecodeAll(c.items) ELSE <<>>,
   value_type |-> Member(c, "value_type"), merge |-> Member(c, "merge")]

DecodeCollection(json, span) ==
  LET c == json.content IN
  CASE json.kind \in {"list", "set", "array"} ->
         [is |-> json.kind, span |-> span, items |-> DecodeAll(c.items),
          value_type |-> Member(c, "value_type"), merge |-> Member(c, "merge")]
    [] json.kind = "map" ->
         [is |-> "map", span |-> span, key_type |-> Member(c, "key_type"),
          value_type |-> Member(c, "value_type"), merge |-> Member(c, "merge"),
          entries |-> [i \in DOMAIN c.entries |->
                         [c.entries[i] EXCEPT !.key = Decode(@), !.value = Decode(@)]]]
    [] json.kind = "props" ->
         [is |-> "props", span |-> span, merge |-> Member(c, "merge"), entries |-> c.entries]
    [] OTHER -> [is |-> "unrecognized collection", span |-> span]

Decode(json) ==
  CASE json.kind \in {"ref", "idref"} -> [is |-> json.kind, ref |-> json.content]
    [] json.kind = "value"            -> json.content
    [] json.kind = "inner"            -> [is |-> "inner", bean |-> DecodeBean(json.content)]
    [] json.kind = "null"             -> [is |-> "null", span |-> json.content]
    [] json.kind = "collection"       ->
         DecodeCollection(json.content.value, json.content.span)
    [] OTHER                          -> Unknown
-----------------------------------------------------------------------------
(* What a reader of this build is left with: the values whose kind the      *)
(* writer named otherwise are unknown, and nothing else is lost.            *)
RECURSIVE Left(_, _)

LeftOfBean(bean, w) ==
  [bean EXCEPT
     !.properties = [i \in DOMAIN @ |-> [@[i] EXCEPT !.value = Left(@, w)]],
     !.constructor_args = [i \in DOMAIN @ |-> [@[i] EXCEPT !.value = Left(@, w)]]]

Optional(w, member) == IF w.early THEN {} ELSE member

LeftOfCollection(v, w) ==
  CASE w.names[v.is] # v.is -> [is |-> "unrecognized collection", span |-> v.span]
    [] w.names[v.is] = v.is /\ v.is = "props" -> [v EXCEPT !.merge = Optional(w, @)]
    [] w.names[v.is] = v.is /\ v.is = "map" ->
         [v EXCEPT !.key_type = Optional(w, @), !.value_type = Optional(w, @),
                   !.merge = Optional(w, @),
                   !.entries = [i \in DOMAIN @ |-> [@[i] EXCEPT !.key = Left(@, w),
                                                               !.value = Left(@, w)]]]
    [] OTHER ->
         [v EXCEPT !.value_type = Optional(w, @), !.merge = Optional(w, @),
                   !.items = [i \in DOMAIN @ |-> Left(@[i], w)]]

Left(v, w) ==
  CASE v.is = "unrecognized" \/ w.names[KindOf(v)] # KindOf(v) -> Unknown
    [] v.is \in Shapes /\ w.names["collection"] = "collection" -> LeftOfCollection(v, w)
    [] v.is = "inner" /\ w.names["inner"] = "inner" -> [v EXCEPT !.bean = LeftOfBean(@, w)]
    [] OTHER -> v
=============================================================================
