# A TLA+ verification of beans-xml

`beans-xml` reads Spring `<beans>` XML leniently: whatever the bytes are, it
returns a tree of beans and a list of diagnostics with source spans, never an
error and never a panic. It is a single-threaded, pure function, so there is no
interleaving to get wrong inside it. What is hard here is of another kind:
hand-written loops that stand in for recursion or for a stricter parser, each
with a cursor, a stack, a counter or a pending buffer; second ways of writing
the same thing, each with code of its own; and entry points that must agree on
the same bytes. All of them promise to behave well on *every* input. A test
reaches some inputs. These modules take all of them, up to a size with TLC and,
for what matters most, at any size with TLAPS.

## Inventory

| Component | Code | State it keeps | Operations | Module |
|---|---|---|---|---|
| Event layer: tree builder | `events.rs` `build_tree` 224-520, 544-661, 1029-1072 | reader position and base, stack of open tags, root, `suppressed_depth`, pending text span, diagnostics | one per event: start, empty, end, text, CDATA, other, error, end of input | `TreeBuilder`, `Nesting`, `DocumentTree` |
| Event layer: scanners | `events.rs` 678-1014 | a byte cursor; a stack of open braces | the attributes of a tag, the entities of a value, the placeholders of a text | `AttrScan`, `TagGrammar`; `PlaceholderScan`, `BracedGrammar` |
| Event layer: `Drop` | `events.rs` 183-196 | a worklist | drop a tree without recursion | `Walks` |
| Value engine | `depth_engine.rs`, `bean.rs`, `collection.rs`, `inject_value.rs`, `property.rs`, `constructor_arg.rs` | a stack of frames (child cursor, depth, what it waits for), the value to deliver | step, deliver, finish of each frame | `ValueEngine`, `RecursiveValues` |
| Injection leaves | `inject_value.rs`, `collection.rs` | none; the harvest of placeholders recurs into slices | literals from text segments, references, `<null>`, `<props>` | `Elements`, `Leaves`; `PlaceholderScan` for nested expressions |
| Bean leaf parsers | `bean.rs` | none | attributes, meta, qualifier, lookups, decorators, `p:`/`c:` | `Leaves`, `Files` |
| Body engine, root dispatch | `dispatch.rs` | a stack of `<beans>` frames, the contexts they fill | step, deliver, finish; dispatch of a root child; duplicate ids | `BeansBody`, `BodiesAsDeclared`; what each handler reads in `Files` |
| Namespace scope | `dispatch.rs` 75-130 | a chain of maps | child scope, resolve a name | in `BeansBody` |
| Namespaced elements | `namespaced.rs` | recursion depth | harvest of references | `Leaves` |
| Encoding chain | `encoding.rs` | none | marks, label, UTF-8, EUC-KR, replacement | `EntryPoints` |
| Entry points | `lib.rs` | none | `parse`, `parse_bytes`, `is_beans_doc` | `EntryPoints` |
| WebAssembly boundary | `wasm/src/lib.rs` | a buffer that JavaScript owns and may detach | argument probes around the entry points | `EntryPoints` |
| Model types | `model.rs` | none | two hand-written `Deserialize` | `Schema` |
| Examples | `examples/` `bean_list.rs`, `dep_graph_dot.rs`, `k_harness.rs` | what they have emitted for the files so far | walk each file of a corpus | `Walks` |
| Generators, benches, fixtures, schema | | none | | not modelled |

How they interact: bytes go through the encoding chain to one `String`; the
tree builder turns it into at most one `XmlElement` tree; root dispatch checks
that the root is a `<beans>`, and the body engine walks its children, keeping
the namespace scope; for every `<bean>` it calls the value engine, which reads
the leaves; an element of another namespace is recorded and its references are
harvested. All of them append to one list of diagnostics, whose order is part of
the result. There are no callbacks and no shared state; calls are nested, never
interleaved. Only at the boundary to JavaScript does something change between
two calls: the buffer.

What is hard, and makes each component correct:

* **Tree builder.** Recovery: a close tag may close several elements, or none;
  subtrees over the depth limit are dropped and *counted*, not matched; a fresh
  reader takes over after unparsable markup; text is diagnosed later than it is
  read. It is correct when the tree is a tree whose spans nest, when it is the
  document's own tree if nothing was malformed, when each error is said once,
  and when the loop ends.
* **Attributes.** A scanner of its own finds names and quoted values in a tag
  that may be anything. It is correct when what it finds lies apart and in order,
  when it reads a well-formed tag as XML does and loses nothing before a fault,
  when the first of a name wins, and when each stray `&` is told once.
* **Placeholders.** Two passes over one text, with one scan of braces between
  them: the first says which expression never closes, the second harvests those
  that do, and those nested in them. They are correct when they agree, though
  only the second looks for quotes; when every index is inside its slice; when
  nothing is harvested twice or forgotten, the limit included.
* **Value engine.** It replaces recursion by frames that hand results down to the
  frame that waits. It is correct when it cannot be told from the recursion: same
  values, same diagnostics, same order; when no result is lost or misdelivered;
  when depth, counted in two ways, means one thing; and when it ends.
* **Body engine.** The same handshake for nested `<beans>`, but `deliver` keeps no
  record of the child it waits for. It is correct when each body holds what its
  element declares, under the namespaces in scope there, and says what is wrong
  in document order; ids are unique per body, and the nested bodies' ids are
  their own.
* **Leaves.** Everything read has a span, computed from the value and not from the
  source; attributes, children and `p:`/`c:` shorthands are three ways to write one
  thing. They are correct when a span slices the source to what it names, when
  the short form means what the long form means, and when a reference that is
  chosen to be injected and has no target is told of.
* **Encoding and entry points.** A chain whose first success must be the right one,
  and five ways into the library that must make the same of the same bytes.

## Modules

*Event layer*

* `TreeBuilder` - the loop of `build_tree`. The source is a range of positions,
  `base` and `rpos` are the code's `base_offset` and `buffer_position()`. An
  action is one arm of the `match`, with the function it calls: `StartSuppressed`,
  `StartAtLimit`, `StartPush` are the three branches of `Event::Start`, `EndMatched`
  is the whole of `close_tag` with every implicit close. The tree is kept flat: an
  element is named by its span, `nodes` holds the completed ones, and a child is a
  reference. The tokenizer, quick-xml, is external: its next event is a
  nondeterministic choice, so that every sequence of events is a behaviour, those
  no real tokenizer produces included. `runs`, the texts read so far, and `matched`, the
  elements that a tag of their own has closed, are history variables.
* `DocumentTree` - what the builder promises of a document that balances; it has
  no recovery, no counter and no half-built elements.
* `Nesting` - the builder with the history variable `nest`, the tags open by
  close_tag's rules whether over the limit or not; `BalancedSpec` is the builder on
  balanced documents and implements `DocumentTree` with `open <- nest`, the
  completed elements for `elements` and the NestingLimitExceeded spans for `cut`. The mark
  a document may begin with is a constant of `DocumentTree`, `BomLengths`.
* `AttrScan` - `scan_attrs_for_tag` over the bytes of one tag, with `check_entities`
  on each value. An action is one branch of the loop: the tag ends, a name is
  read, a bare name, a missing quote, a duplicate, an attribute; and for the
  value a plain byte, a reference, a stray ampersand. `i` and `j` are its cursors;
  `read`, a history variable, has every name that was read with a quoted value, kept or not.
  `Loose` says which ampersands begin no reference, by what stands behind them.
* `TagGrammar` - what XML reads in a tag, up to the first fault: a recursive function of
  the position, without a cursor that goes from attribute to attribute.
* `PlaceholderScan` - `check_unterminated_placeholders` (stage `"diagnose"`), then
  `extract_from_slice` (stage `"harvest"`), on one text. Both call
  `scan_braced_expr`, whose state is `scan`: position, current level, the levels it
  has left for nested ones. An action is one byte of a walk or of a scan, or the
  return of a scan to the walk that called it. The recursion of the harvest is the
  stack `walks`, one slice each. Cursors are positions in the text, and `from` is the one where
  the slice begins, so that an index of the code is a position less `from`. `base` is where the
  call has been *told* that it begins: entries are placed (`Placed`) and the next base is computed
  (`Inner`) from it as the code does, `base + inner_start`, and nothing else keeps the two equal.
* `BracedGrammar` - the same language as a recursive grammar: an expression is an
  opener, an inside of pieces, a brace.

*Engines*

* `ValueEngine` - `depth_engine::run` with `BeanFrame`, `ListLikeFrame` and
  `MapFrame` with its `EntryScan`. The element tree `doc` is an input, chosen
  from `Documents` in `Init`. An action is one turn of a frame's inner loop:
  the frame's cursor moves, or a child's frame is pushed, or the frame finishes.
  `incoming` is the value between a `Finished` and the `deliver` it leads to.
  A finished frame leaves what it gathered in `built`.
* `RecursiveValues` - the recursion the engine replaces. What an element comes to does not
  depend on what is found inside it, so that the items are had without recursion; what is
  said on the way (`Said`) and which calls gather what (`Facts`) are functions of the depth
  and the element, recursive in the depth, as the calls are: none is made past the limit.
  It shares with `ValueEngine` the operators for what a leaf resolves to and says,
  and has its own for every order, cursor and rule of precedence between
  children, which is what the engine could get wrong.
* `BeansBody` - `parse_root`, `run_beans_body` with `BeansBodyFrame`, and
  `dispatch_root_child` with the handlers it calls. An action is one child of the
  body on top, one outcome of the nesting check, or one delivery; `BodyFinished`
  leaves the finished context in `incoming`, `NestedDelivered` is the `deliver`
  that follows. `scope` is a field of the frame; a child's own scope lives for one
  action. As in the code a child is resolved twice, each time with a scope set up from the body's:
  `step` asks whether it is a nested `<beans>` (`TakesBody`), and `dispatch_root_child`, which has
  no arm for one, picks the arm of any other (`Dispatched`).
* `BodiesAsDeclared` - what a document declares: the namespaces in effect at each
  element (the nearest declaration around it), the content of each body, the
  diagnostics in document order. It has no frames, and an element is resolved once, in the
  namespaces in effect at it. Its assumption `DocumentOrder` is
  that elements are numbered by their start tags. This is a way to name them, and every
  tree can be named so: `build_tree` gives an element to its parent, behind its earlier
  siblings, and what is opened before it is closed stands inside it.

*Encoding, entry points, WebAssembly* - `EntryPoints`. One value is handed to the
three entry points and the two JavaScript exports, once each and in any order;
`Detach` may come between two calls. The exports first ask what the value is
(`RequireArray`, `RequireClaimed`, `RequireOther`), then every call is the size cap and the
chain of `decode`, one action a step: `SniffMark`, `StripMark`, `TryUtf8`, `TryDeclared`,
`TryEucKr`, `Lossy`; `StripFeff` is what build_tree takes off the text, and `ParseRoot` and
`CheckRoot` read the root. What a decoder makes of the bytes is external: an input
says in which encodings, with how many marks taken off, it decodes cleanly, and
`Decoded` has the decoder's own look for a mark, as `encoding_rs`'s `decode` does.

*What is read* - pure functions, translated as operators:

* `Elements` - what is read off one element: attributes by name, text segments merged
  where they touch, trimmed texts, lists of names, literals with their harvest,
  references. A handler returns what it got and what it told, and `InOrder` chains
  handlers as the code does.
* `Leaves` - injections and their children, collections, entries, `<props>`, the bean's
  own children, decorators, `p:` and `c:` attributes, the harvest of references of
  other namespaces.
* `Files` - the children of a root: beans, profiles, import with the rules of its
  scheme, alias, component scans, property sources; the bean's attributes.
* `Schema` - how an injected value is written and read back: `Encode` is the derived
  serialisation of a `Writer`, `Decode` the two hand-written `Deserialize`. A writer may be
  another version, with other names for some kinds, or from before `merge`.
* `Walks` - the programs of `examples/` over a corpus. A file is parsed, its tree is dropped by the
  worklist of `Drop`, node by node, and the three programs walk what was parsed.
* `AsWritten` - the properties of these, against the document: what stands in the
  source at which position, the elements below the root, the sugar written out.

*Proofs* - `TreeBuilderProofs`, `NestingProofs`, `ValueEngineProofs`, `BeansBodyProofs`,
`PlaceholderScanProofs`, `AttrScanProofs`, `EntryPointsProofs`, with `StackLemmas` on the ends
of sequences and the least element of a set of numbers.

*Instances* - `MCTreeBuilder`, `MCNesting`, `MCValueEngine`, `MCBeansBody`,
`MCPlaceholderScan`, `MCAttrScan`, `MCEntryPoints`, `MCLeaves`.

Abstractions. In `TreeBuilder` a tag has a name and a width; the attribute and entity
scanners are a Boolean (`Flaws`): one diagnostic or none, at their place in the order. A
text run is plain, leaves a placeholder open, or closes one (`Marks`). In
`ValueEngine`, `value` stands for `<value>` and `<null>`, `ref` for `<ref>` and
`<idref>`, `list` for `<list>`, `<set>` and `<array>`; text children, which every
loop skips, are left out, and names are resolved already. In `BeansBody`, a
bean or a namespaced element says one diagnostic or none (`flawed`), at its place in
the order. In the scanners a character is a member of its class. In `Elements` a
string is a sequence of tokens of one unit of source each, so that entities,
separators and openers are told apart and positions are exact; expressions there
lie side by side, nested ones are `PlaceholderScan`'s. In `EntryPoints` a byte string
is its marks, the tokens of its prolog, its size and how it decodes. The 32-bit
offsets of the code do not overflow: the input is capped at 10 MiB before.

The limits 1 to 3, `MaxEntityScan` 3, `MaxInputBytes` 9, `PrologScanWindow` 8 and `MaxIndex` 11 stand for the
code's 256 levels (2048 open tags), 64 bytes, 10 MiB, 1024 bytes and the largest `u32`.

## Runs

| Run | Question | Bounds |
|---|---|---|
| `tree` | Is the recovered tree a tree, is every error said once, and does the loop end? (`SpansNest`, `TreeIsWhole`, `UnclosedReportedOnce`, `OpenTextReportedOnce`, `Terminates`) | 5 positions, tokens of 1 to 3, 2 names, limit 2, three kinds of text, flawed tags, BOM or none |
| `balanced` | Is a balanced document its own tree? (`CounterIsExact`, `ImplementsDocumentTree`) | 7 tokens, limit 1, BOM or none |
| `values` | Is the engine the recursion? Is no result misdelivered, does a level cost one frame, does the engine return? (`SameDiagnostics`, `SameValues`, `Handshake`, `OneFramePerLevel`, `Terminates`) | all trees of 5 nodes of injections and lists; of 8 that begin bean, property, map, entry; of 6 of nested kinds; limit 2 |
| `bodies` | Is each body what its element declares, under declarations on any element, and delivered where it belongs? (`SaidInOrder`, `FilesAsDeclared`, `DeliversToParent`, `Terminates`) | all trees of 5 elements of one namespace; of 4 with 4 prefixes; nestings of 5; limit 3 |
| `expressions` | Do the two passes agree, with each other and with the grammar? (`InnerAlwaysCloses`, `DiagnosedIffNotHarvested`, `HarvestIsComplete`, `Terminates`) | all texts of 5 tokens with both quotes, or with parts of identifiers; of 7 of openers, closing braces and one quote; of 8 of `${`, `}` and a letter; limit 2 |
| `attributes` | Is a tag read as XML reads it, up to its first fault? (`SpansApart`, `FirstWins`, `WellFormedIsKept`, `AmpersandsToldOnce`, `Terminates`) | all tags with 4 tokens of any kind before or in a value; 4 whole attributes; values of 5 bytes around a reference |
| `entry` | Do five ways in agree, and is the encoding the right one? (`BoundariesAgree`, `JsAgrees`, `TextAgrees`, `NoSilentLoss`, `TrueLabelIsBelieved`, `LabelIsOfTheProlog`) | up to 2 marks, 9 sets of encodings the body fits, 18 prologs, sizes around the cap, 4 shapes of buffer, detached at any time |
| `leaves` | Does the model say what is written, can it be read back, and do the walks agree? (`SpansSlice`, `TokensCoverTheList`, `SegmentsJoin`, `SugarIsNested`, `HarvestIsExact`, `NullIsExplained`, `OldReadersCope`, `WalksAgree`, `AllFreed`) | each kind of element and attribute, one or two of them in a document, alone and in collections, elements of other namespaces from 2 below to 1 over the limit of 2; corpora of 1 and 3 files; 12 other writers |
| `pending`, `resume`, `reported`, `candidate` | Four comments the code does not agree with (below) | as above; sources of 4 and 5 tokens for the first two |

Why the bounds are enough. Each rule of the builder looks at one token, at the
stack up to the innermost match and at one pending run: five tokens hold two
implicit closes under one close tag, or an element after the root with text around
it; seven hold an over-deep subtree of depth two with a sibling after it. The
limits are 1 to 3 because only the distance to the limit matters; the theorems
say so for every limit. In the engine a frame looks at one child and one frame
below it; five nodes hold a bean in a list in an injection with a sibling after it,
and eight an entry with two keys and two values. A body with a duplicate before, in
and after a nested body has five elements; a prefix that is declared, shadowed and
restored needs a body in a body and a sibling, four. With the limit of expressions
at 2, four nested openers are one too many for the scan, three take the harvest
to its last call, and the base of that call has been computed from a base that is not the first:
`${${${x}}}` and its like have up to eight tokens; `${#{'}'}}`, where the inner expression hides
the outer one's rule for quotes, has seven. A tag's scanner carries only a cursor and the names
it has kept from one attribute to the next, so that four attributes have one of
each relation; an entity scan of 3 is met and passed by values of 5. Each step of
the chain looks at one mark, and what it hands on at a second. A leaf handler looks at
one element and its children; two children show every rule of precedence, and a
collection in a collection every recursion.

The type invariants and the bounds on the stacks
(`TypeOK`, `DepthBounded`, `SlicesNest`, `NothingStrays`, `FoundInOrder`) are proved for every
instance, and are not in the runs.

Deadlock is not checked: every specification here ends, and where the end is worth
a property, `Terminates` is what shows that it does not end elsewhere. `EntryPoints` ends when
every entry point has answered, `Walks` after its last file.

Fairness. `build_tree`, `scan_attrs_for_tag`, `scan_braced_expr` and its two callers,
`depth_engine::run` and `run_beans_body` are plain loops on one thread, entered and
left without waiting for anything. Weak fairness of `Next` says that the loop is not
abandoned, and nothing else. `BalancedSpec`, `AnySpec`, `EntryPoints` and `Walks` have none: of
them only safety is checked. The steps of a call in `EntryPoints` are a fixed chain, and the
worklist of `Drop` is finite because no node is taken twice (`AllFreed`).

Each property of a passing run was tested against a mutant of the code's
definitions (`ClosedSwapped`, `StartUncounted`, `InjectEager`, `LeafScopeLeaks`,
`TakesBodyOutside`, `InnerInSlice`, `DuplicateSilent`, `CoalescedAcross`, ...), kept next to the definition it changes, and is violated by it.

## Findings

* `pending`. `flush_pending_placeholder_span` says it is called "once contiguity
  can no longer continue (a non-text event) or at end of input"
  (`events.rs:1057`). It is called at the end only: a non-text event leaves the
  pending run alone until the next text that is not contiguous. No diagnostic is
  lost (`OpenTextReportedOnce`), but it may come after those of later tags.
* `resume`. "Once nesting returns to at-or-under the limit (`suppressed_depth`
  back to `0`), parsing resumes normally" (`events.rs:262`). In a balanced
  document the two are the same (`CounterIsExact`). In a malformed one they
  are not: the counter counts tags where `close_tag` matches names, so a tag left
  open inside the over-deep subtree keeps the suppression on.
* `reported`. `decode` says it returns "the WHATWG name of the decoder actually
  used" (`encoding.rs:68`). `encoding_rs` looks for a mark itself: on bytes that begin
  with a mark after the one taken off, it uses another decoder than the one
  that is reported. What is a beans document does not depend on it
  (`BoundariesAgree`), the byte offsets do.
* `candidate`. The rule at the head of `property.rs` lets the "first recognized
  value-shaped child element" be injected (line 25). The code takes the first child that is
  not `<meta>`, recognized or not: `<property><description/><ref bean="y"/></property>` injects
  nothing, without a diagnostic.

Noticed while modelling, without a run of their own: of two UTF-8 marks `decode` leaves
the second in the text, and `build_tree` takes it off; a `constructor-arg` with `index="+1"` has an index,
while the attribute `c:_+1` is a name; `k_harness` looks for the schema's name in the raw bytes,
so it never reads a UTF-16 file, though its comment says "regardless of the file's declared or
actual encoding"; an entity in a list of names is split at its semicolon.

## Theorems

All hold for every value of the constants that satisfies the modules' assumptions,
and all but the refinement are of the form `Spec => []Inv`. The assumptions say what kind of thing a constant
is: limits are numbers, inputs have the fields the code reads. Three say more. In `AttrScan`,
no reference that resolves has a `;`, `&`, `<` or blank in its name: check_entities stops at
these, so that `unescape` never sees one. In `EntryPoints`, `BytesAssumption` says
that there is one empty byte string, and that valid UTF-8 begins with no mark but its own: FE and FF are never bytes of it.
`DocumentOrder` of `BodiesAsDeclared` names the elements of a tree, as said above.

*Tree builder* (`TreeBuilderProofs`). The first inductive invariant is
`TypeOK /\ DepthBounded /\ SpansNest`. `SpansNest` needs the stack half
(`StackNests`): an open tag starts after everything its parent already has and
has read up to the next open tag. Without it nothing is known of the children an
implicitly closed tag takes along. `DepthBounded` needs the link between the
counter and the limit. One lemma per action, one general lemma for closing at any
depth, used by `EndMatched` and `Finish` alike.

What the tree is and what is said of it is a second invariant, `WInv`, on top of the first. No two
elements start at one place, so that a start names an element, among those completed and those open. `Whole`
is about the references to children, as edges from a start to an element: each leads to a completed element, no element has
edges from two, and only the root and what comes after it have none. The UnclosedTags are the spans of
the completed elements that are not in `matched`, all of them and each once. Closing down to any depth keeps it
(`Closes`), the rest are instances.

`OpenTextReportedOnce` is about the depth of open braces after each run of text, a recursive
function of the history. `TInv` carries that function along: there is one sequence of numbers that
satisfies the recursion on the runs so far, only one, and what has been reported, and what is pending, is what
that sequence says. Adding a run adds one number to it, so that no induction over the
runs is needed.
Results: `TypeCorrect`, `DepthIsBounded`, `SpansAlwaysNest`, `TreeAlwaysWhole`,
`UnclosedIsReportedOnce`, `OpenTextIsReportedOnce`.

*Balanced documents* (`NestingProofs`). `NestInv` is the builder's invariant with `CounterIsExact`: the
stack is the first tags of `nest`, up to the limit, and the counter is the number of the rest. With it no
close tag finds anything but its own on top, so that neither rule of recovery is applied. `BalancedImplementsDocumentTree` is the
refinement: each step of the builder is a step of `DocumentTree` or leaves its variables alone, action by action.
Results: `BalancedCounterIsExact`, `BalancedImplementsDocumentTree`.

*Value engine* (`ValueEngineProofs`). The first inductive invariant is
`TypeOK /\ Handshake /\ OneFramePerLevel`. `Handshake` is what makes the others
inductive: the frame that finishes is the one the frame below has asked for, so
a delivered value finds a slot. Pushing is one lemma, replacing the top frame is
another, and each action is an instance of one of them. Results: `TypeCorrect`,
`NoResultGoesAstray` (deliver cannot panic), `HeightIsBounded` (at most `DepthLimit + 1`
frames, for every document).

That the engine is the recursion is a second invariant, `RInv`. The recursion is not followed
call by call; its value is divided among the frames. A frame at depth `d` has left to say what is
left of the child it is at, and all that `Said` has of the children after it; what has been said, followed by what each frame
has left from the top down, is at every moment what the recursion says (`SaidSoFar`). In
the same way what is built, with what each frame and the calls it has yet to make gather, is `Facts` of
the root (`GatheredSoFar`). For this to be kept by a step, each frame must fit its element (`FrameFits`): it is
at one of its children, waits for nothing but a value of that child, and the scan of an entry has the key and the value of
the children before its cursor (`ScanFits`); and its items must be those of the children before the cursor (`Gathering`),
without the one that is waited for. A step is then one of three, with a lemma each: the
top frame passes a child (`Walked`), a part of what it has left moves into a new frame (`Entered`), or a
frame with nothing left is taken away (`Left`). The equations of the recursive functions are had from the least
counterexample: at the limit nothing is called, and one depth more is one more layer, of which there is only one. Results:
`RecursionInvariance`, `SaysWhatTheRecursionSays`, `BuildsWhatTheRecursionBuilds`.

*Body engine* (`BeansBodyProofs`). The first inductive invariant is
`TypeOK /\ DeliversToParent /\ NothingStrays /\ DepthBounded`, and that no frame is
ahead of its children (`FrameOK`): every frame holds
children of its own element only, which it has passed, and the frame above it is the
`<beans>` it has just taken. That last fact is the record `deliver` does not keep.
Results: `TypeCorrect`, `DeliveryNeedsNoRecord`, `NoChildGoesAstray`, `DepthIsBounded`.

`DInv` adds what the document has to do with it. The frames are the bodies around the cursor,
and the scope of each has the nearest declaration of every prefix (`FramesDeclared`); a context has what is declared of the children
passed, but the one that is on its way (`ContextsDeclared`); what has been passed is a beginning of the
document, with every body in it open or finished (`ReadInOrder`); finished bodies are as declared (`FilesDeclared`); and
the report is what is to be said of what has been passed (`AllTold`). `ReadInOrder` is why
the rest is inductive: without it a new diagnostic need not come after all of the old. Results: `DeclaredInvariance`,
`ReportIsOfTheDocument`, `BodiesAreOfTheDocument`.

*Placeholders* (`PlaceholderScanProofs`). The first inductive invariant is
`TypeOK /\ DepthBounded /\ SlicesNest /\ BasesAreStarts`: each slice lies in its caller's, before
the brace at which the caller goes on, and each call has been told where its slice begins, so that
every entry is placed where it is. `FoundInOrder` needs more: every opener that a call has
yet to meet lies after the start of every entry, and either after its end or in a
slice which the entry encloses (`Ahead`).

The two theorems about the passes together need the scan as a whole, which the machine takes byte by
byte. A scan is a function of the text (`StepOf`, `FailsAt`, `ClosesAt`), and a run of it a *set* of
scan states, closed under the step up to its last (`Runs`): a later scan that begins in the set cannot leave
it, so that no recursion is needed. The current scan is always the end of a run (`ScanRuns`). For `InnerAlwaysCloses`, a call inside a closed expression walks over
the run that closed it, one level further in (`Follows`, `Under`): wherever the call meets an opener, the outer run
has met it too and has come back to that level, hence the inner scan closes before the slice ends. This
covers the difference between the two, that only the harvest knows about quotes. For
`DiagnosedIffNotHarvested`, the positions the first pass has walked are a set (`Way`), which is kept as a
witness through the second: the outermost walk of the harvest is always on it (`OnWay`, `Meets`), until
both are stuck at the same opener.
Results: `TypeCorrect`, `DepthIsBounded`,
`SlicesAlwaysNest` (no index is out of bounds), `FoundAlwaysInOrder` (nothing is
harvested twice), `InnerCloses`, `DiagnosedWhatIsNotHarvested`.

*Attributes* (`AttrScanProofs`). The first inductive invariant is `TypeOK /\ SpansApart /\
FirstWins` with `ReadBefore` and `NameBefore`: the name in hand stands after every attribute and
every name read, and before the cursor. With it, an attribute that is pushed begins after the last
one ended, and no name is read twice, so that what is reported now has not been reported. That the scanner, which
compares with the names it has *kept*, finds every name it has *read* is the least number again: the first
of a name is among the kept. That the search for the
next byte of a class stops where it should is the well-ordering of the numbers
(`Least`, `UntilStops`). For `AmpersandsToldOnce`, `AInv` says the same of every moment: what has been
told is what is due, the loose ampersands of all values but those of the last value that
`j` has not reached (`AllTold`, `Due`); reports are in order and end before `j`. A reference is read off the
text backwards, from what resolves (`RefersFrom`), and forwards, from where the scan stops (`RefersTo`).
For `WellFormedIsKept`, `WInv` says how far XML has read where the scanner is: up to some `w`, and what it read before `w`
is what has been kept and reported there. Either the scanner is in what XML reads at `w`
(`Along`), or XML reads nothing there, and whatever the scanner makes of the rest starts at `w` or after it
(`Over`), from which there is no way back. That the recursive function of `TagGrammar` has a value, and one only, is again a least counterexample:
every attribute and every bare name ends after it began.
Results: `TypeCorrect` (no index is out of bounds), `SpansAlwaysApart`,
`FirstAlwaysWins`, `AmpersandsAlwaysToldOnce`, `WellFormedIsAlwaysKept`.

*Entry points* (`EntryPointsProofs`). The calls run at different times, and
each answer is therefore compared with a function of the bytes alone. `Chain` is what decode
makes of them, the diagnostics included, and `Says` what a call that reads them may answer: at most one mark is left for the
decoder itself and one for build_tree, whichever there is. `Settled` says at every stage of a call what it has
found out so far (`Reached`): no decoder sniffed by a mark, the label the prolog has, not UTF-8, and so on. The
agreements are then facts about `Says` alone; `JsAgrees` also needs that an array which was never detached is
read. `LabelIsOfTheProlog` is about the searches of detect_declared_encoding (`Found`) in the
window, `NeverSilent` an invariant of its own. Results:
`TypeCorrect`, `BoundariesAlwaysAgree`, `JsAlwaysAgrees`, `TextAlwaysAgrees`, `TrueLabelAlwaysBelieved`,
`LabelAlwaysOfTheProlog`, `NeverSilent`.

Only model-checked: termination (liveness is out of the prover's reach), `HarvestIsComplete`,
whose grammar is mutually recursive over slices of the text, and all of `AsWritten`: there both
sides are recursive operators over trees and token lists, and what such a definition computes for every input needs an induction over data, which
the provers do not have. The recursions that are proved about are recursive functions over a range of
numbers, where the least counterexample does it.

## Not modelled

quick-xml's tokenizer and encoding_rs's decoders are libraries: their results are
nondeterministic or inputs. The derived serialisation of the types of `model.rs` other than
injected values, and the JSON schema generated from them, have no code of their own.
`gen_fixtures` and `gen_schema` write data, the benchmarks measure. How the examples format
a line is left out.

## Plan

What is left to prove is `HarvestIsComplete`. It would take `BracedGrammar` written as functions of a position
and a level, as `TagGrammar` is one of a position, and an invariant that has an expression of the grammar for each run of a
scan (`Runs`), for the outermost walk as for those in the slices. Of `AsWritten`, `SegmentsJoin` and
`TokensCoverTheList` are about one pass over one list, and could be stated of folds.
