# A TLA+ verification of JES

JES (JSON for Embedded Systems) is a C library that parses, edits and writes
JSON in a workspace the caller provides: it never allocates memory.  This
directory holds TLA+ models of it, the TLC configurations that check them, and
proofs for TLAPS.  The models are written from the C source; where the header,
the documentation, a comment or a test says something else, the run that shows
the difference is listed under *Divergences*.

## The system

| component | source | state | operations |
|---|---|---|---|
| node pool | `jes_tree.c` 20-78, 415-458 | bump index `next_free`, LIFO list `freed`, `node_count` | `jes_allocate`, `jes_free`, reset |
| tree | `jes_tree.c` 80-413 | per node: type, text, `parent`, `sibling`, `first_child`, `last_child`; `root` | insert (root, first child, behind a sibling), insert key, delete a subtree, linear key search |
| key table | `jes_hash_table.c` | slots (hash, key node), tombstones, `entry_count` | find, add, remove, reset |
| editing calls | `jes.c` 180-698 | `ctx->status` | `jes_add_element`, `jes_add_key(_before,_after)`, `jes_append_array_value`, `jes_add_array_value`, `jes_update_key_value`, `jes_update_array_value`, `jes_delete_element`, `jes_reset` |
| parser | `jes_parser.c`, `jes_load` | state, `iter` | one token at a time, builds the tree |
| tokenizer | `jes_tokenizer.c` | cursor, token | next token; validation of numbers and strings for the editing calls |
| tree serializer | `jes_serializer.c` 1-497 | state, `iter`, length, buffer | two passes over the tree: measure, render |
| streaming serializer | `jes_serializer.c` 501-1387 | state, container stack, room in the buffer, `sticky_error` | `jes_render_...` calls |
| navigation | `jes.c` 96-371 | none (sets `status`) | getters, `jes_get_key` on a path, array access, `jes_get_stat` |
| workspace | `jes.c` 14-94 | sizes of pool and table | `jes_init`, `jes_reset` |
| logger, status block | `jes_logger.c`, `jes.c` 700-848 | none | formatting, copies |

The editing calls and the parser both work through the same few functions of
the tree; these use the pool and, in hashed mode, the key table.  The pool, the
tree and the table refer to each other by node index, so a mistake in one shows
up as a dangling link or entry in another.  The streaming serializer shares
nothing with the rest.

Everything runs in the caller's thread: there are no callbacks into the client,
no interrupts and no locks.  What is hard about this code is not interleaving
but *sequences*: links, table entries and counters that must stay consistent
under every order of insertions, deletions, failures in the middle of a call,
reuse of freed nodes, full pools and full tables.  The places where this bites
are listed, each at its line, under `hazards` in `PROJECT.json`, with the
properties that watch them.

What makes each component correct:

- pool: a node is never handed out twice, never from beyond the pool; a full
  pool is usable again after a deletion or a reset;
- tree: the links form one ordered tree at every step, even inside a deletion;
- key table: every entry can be found, once, and the table agrees with the tree;
- editing calls: they do to the *document* what their names say, and a refused
  call does nothing;
- parser: it refuses no JSON, loads what it reads, and leaves a tree the editing
  calls can work on, whatever the text and however the load ended;
- tree serializer: what it renders is the tree, in exactly the size it measured,
  or nothing and an error; it ends on any tree;
- tokenizer: it cuts a text into the tokens of JSON, refuses none of them, and
  what its checks pass into the document can be read back;
- navigation: a path or an index finds the element it names and no other;
- workspace: the parts of the buffer do not overlap and no index is out of range;
- streaming serializer: what comes out is JSON as long as the buffer has room.

## The modules

| module | models | state and actions |
|---|---|---|
| `JesNodePool` | the allocator | `next_free`, `freed` (the list, head last), `node_count`; `Allocate`, `FreeNode`, `ResetPool`. `Live`, the nodes in use, is derived: the code keeps no such set. `PoolSpec` is the allocator with any client that returns only nodes in use. |
| `JesHashTable` | the key table | `slots`, `entry_count`; `HashAdd`, `HashRemove`, `HashReset`, the search as `HashFind`. The operators say where a probe sequence stops (`FoundAt`, `StopsAt`) instead of walking it. |
| `JesHashTableProofs` | | theorems about `HashSpec`; its last part is about `JesWorkspace`, for every buffer size |
| `JesKeyDictionary` | what the table promises | a function from keys to nodes |
| `JesTree` | tree, pool, table and the editing calls together (extends `JesNodePool`, instantiates `JesHashTable`) | the C variables; one action per call. `jes_tree_delete_node` is a loop, so a call that deletes is several steps: `pc` says whether it is at the loop head (`"search"`), in `jes_get_leaf` (`"leaf"`), or behind the deletion (`"add"`, `"retype"`); all other calls wait until `pc` is `"idle"`. A failed `assert()` is `"aborted"`. |
| `JesTreeProofs` | | theorems about `PoolSpec`; about `Spec` that hold for every client; about clients that keep the rules; the walk along the children, lookups by name, path and index, the two search modes |
| `JsonDocument` | what the editing calls promise: an ordered JSON document, a whole subtree deleted in one step | it leaves open where among its siblings a new element lands; `LandsAsAsked` says that, for every insertion next to siblings |
| `JesTreeDocument` | the refinement mapping from `JesTree` to `JsonDocument` and the properties of clients that keep the rules | nodes of a subtree being deleted are already gone for the document |
| `JesDocumentProofs` | | the tree implements the document |
| `JesParser` | `jes_load` (extends `JesTreeDocument`) | `state`, `iter`; `read`, the tokens taken so far, and `grammar`, what the grammar makes of them, are history; one action `Read(t)` per token, with one operator per parser state |
| `JesParserProofs` | | theorems about loads (`SessionSpec`) |
| `JsonGrammar` | the grammar of JSON over tokens, as a recogniser: what may come next, or that the text is wrong or complete | no counterpart in the code; parser and streaming serializer are compared with it |
| `JesNavigation` | lookups on a path and on an array index (extends `JesTreeDocument`) | no state: operators over the tree's variables, compared with definitions that read the links the other way (from the element up) |
| `JesSerializer` | `jes_render`, `jes_evaluate`, `jes_get_stat` (extends `JesParser`, so that every tree a load leaves is rendered) | `writer`: the two passes' lengths, indentation and text; one action per turn of the loop (`VisitKey`, `VisitValue`, `AfterValue`) and one per end of a pass (`FirstPassDone`, `SecondPassDone`, `EvaluateDone`) |
| `JesSerializerProofs` | | theorems about renderings (`SessionSpec`): the two passes, and the walk over the tree; its last part puts texts together |
| `JesRenderingProofs` | | the text of a tree: what a rendering puts out, its size, and what a load reads |
| `JesTokenizer` | `jes_tokenizer_get_token` and the two checks of values | the character at the cursor and the one behind it, the token being built, the escape being read; one action per loop body. The rest of the text is chosen as the cursor gets to it, so texts have no bound |
| `JsonLexicon` | the tokens of JSON as a recogniser over classes of characters | no counterpart in the code; `read` in `JesTokenizer` follows it |
| `JesTokenizerProofs` | | theorems about the tokenizer, for every text |
| `JesWorkspace` | the division of the buffer by `jes_init` | no state: the arithmetic of `jes_partition_workspace`, `jes_tree_init`, `jes_hash_table_resize` and `JES_REQUIRED_SIZE` |
| `JesStreaming` | the streaming serializer | `state`, `stack`, `room`, `sticky_error`; `text` is what the grammar makes of the bytes written |
| `JesStreamingProofs` | | theorems about it |
| `MCJes...` | instances for TLC: the home slots of the key table, array indices, and the assumption that some buffer yields the instance's pool and table (`WorkspaceAssumption`) | |

Operators marked *faulty* in a comment are mutated forms of the definition that
follows them, used to check that a property can fail; nothing else uses them.

### What is abstracted

- Scalars (strings, numbers, true, false, null) are one type `SCALAR`: nothing
  in the tree, the parser or the key table treats them differently, except for
  the check of a text by the tokenizer, which is an input (`valid`) of the calls.
- Key names are members of a small set. A hash is the pair (parent, name) it is
  computed from; two different pairs are never taken for each other because the
  code compares the name as well and the FNV-1a hash of one name is injective in
  the 16-bit parent index (checked once by enumeration of the 65536 prefixes).
  The name of an entry is the one it was made with; the code compares the text
  that the entry's node has at the time of the search (`jes_hash_table.c` 93-95,
  131-132, 162-164). The two differ only for an entry that has outlived its key,
  which the rule `shallow_update` excludes (theorem `EntriesCompareByText`), and
  of which TLC finds none on the three nodes of `any_client` either.
  Collisions of the home slot are the interesting case; `Home` makes them happen.
- Calls get elements that are in the tree (no stale handles), and no NULL
  argument where NULL is turned away first thing; `jes_load` gets a text that is
  neither NULL nor of length zero (`JES_INVALID_PARAMETER`, `jes.c` 730).
- The array calls take any type, as the code does, which checks none; only the
  rule `grammar` keeps `KEY` out of arrays.
- A freed node's old links are dropped: `jes_allocate` sets them again before
  anything reads them.
- In `JesSerializer` a text is as long as `TextLength`, and `Quoted` says which
  scalars are strings, which the parser's tokens do not tell; everything else
  about lengths (quotation marks, colon, space, indentation) is exact.
- In `JesTokenizer` a character is its class, one class per distinction that the
  code or JSON makes (`"8"` for 8 and 9, because of the surrogates). Whether the
  rest of `true`, `false` or `null` follows is one step; lines and columns are
  left out. What lies behind the end of a text is any character.
- Surrogates have to come in pairs, as the comment in `jes_tokenizer.c` demands;
  ECMA-404 itself leaves lone ones open.
- `JesWorkspace` has the constants of the default build for 64-bit machines.
- Failed assertions: in the tree the program ends (the build with assertions);
  in the parser and the streaming serializer both builds are modelled, the one
  with `-DNDEBUG` goes on.
- In `JesStreaming` an out-of-buffer `snprintf` leaves bytes behind the last
  complete token; they are overwritten by the next one and not counted as text.

### What the client keeps to

`Rules` in `JesTree` names obligations of the client, each of which can be
switched on: `grammar` (elements are only put where JSON allows them),
`keep_root` (the root is not deleted), `table_room` (no more keys than the key
table has slots), `shallow_update` (`jes_update_array_value` only on elements
with at most one child; `JsonShape` and `EntriesCurrent` need it),
`spare_node` (no key is added below a valueless key in
a full pool), `in_range` (no index equal to the array's size in
`jes_update_array_value`). The last five are exactly the places where the code
falls short of its documentation; the run *any_client* keeps none of them.
`Rules` in `JesStreaming`: `plain_arrays` (a container in an array is its only
element), `short_containers` (fewer members than `member_count` can count),
`depth` (no deeper than the workspace has room for).

`Lax` in `JsonLexicon` and `Known` in `JesTokenizer` are no obligations but
exceptions: where the tokenizer and its checks differ from JSON in a known way.
A property with such a set says that there is no other way. Each element is a
divergence listed below, and was found by leaving it out.
`RendersTheTree` has its exception, `TakesForeignValue`, spelled out; the run
`valueless_key` is the property without it.

## The runs

| run | configuration | bounds | shows |
|---|---|---|---|
| `hash_table` | `JesHashTable.cfg` | 3 slots, 5 hashes, 3 home slots | entries stay reachable, unique and counted through tombstones, reuse and a full table; no room is lost; the table implements the dictionary |
| `any_client` | `JesTreeAnyClient.cfg` | 3 nodes, 1 name, 1 table slot, hashed | for a client that keeps no rule: tree, pool and table are consistent at every step, every call ends |
| `typed` | `JesTreeTyped.cfg` | 4 nodes, 2 names, 2 slots, hashed; paths of 1 and 2 names | with the rules, the tree is JSON, names are unique, the table agrees with the tree and has no entry of a key that is gone, elements land where they should, paths and indices find what they name |
| `document` | `JesTreeDocument.cfg` | 4 nodes, 2 names, linear | the calls implement `JsonDocument` |
| `session` | `JesSession.cfg` | texts of up to 9 tokens, 6 nodes, 2 names, 2 slots, hashed, load after load, rendering and evaluation after any of them | JSON is accepted and loaded as it is; any text leaves a well-formed tree in which every key is found, but one at most; the rendering is the tree and its size is the promised one; every rendering ends |
| `streaming` | `JesStreaming.cfg` | depth 3, counters below 4, buffer of 18 bytes | output is JSON in every order of calls, failing ones included |
| `tokenizer` | `JesTokenizer.cfg` | no bound on the text; 27 classes of characters | tokens are exactly the texts JSON calls so, nothing JSON is refused, and what the checks pass can be read back, but for the exceptions in `Lax` and `Known` |
| `full_table`, `deep_update`, `mismatched_closers`, `nested_array`, `valueless_key` | | as above, with one rule or exception dropped | the divergences below |

Why the bounds are enough. The code treats nodes by their position only: first,
last, only or inner child, with or without children. Three nodes already have a
parent with an only, a first and a last child, and a chain of two; four nodes
have an inner child, and a key with a value in an object that is itself a
value. Pools this small are full, emptied and full again in most behaviours, so
every insertion also meets a recycled node and an exhausted pool. Three slots
with five keys at home in them give probe sequences that wrap round, run over tombstones, and
find no empty slot at all. Nine tokens open two containers, fill them and close
them in every wrong order, with one-token texts behind them; six nodes are a
key with a value in an object in an array, with one element behind it, which is
where the serializer has to climb two levels, and a third key in front of two
slots, which is where a load meets a full table; more text than fits the pool
is read in every way.  Two names on a path go through one key's value, which is
what a longer path repeats.  The tokenizer looks one character ahead and counts
to two (is the token empty, one character, more) and, in an escape, to ten; all
of this is in its state, so the run covers texts of every length.

Fairness. `FairSpec` assumes weak fairness of `CallStep`, the steps inside a
call. The library is single-threaded and its loops never wait for anything, so
a call that has started keeps running.  `SessionSpec` assumes the same of
`RenderStep`, the turns of a rendering (`RenderReturns`).  Nothing is assumed of the client: it may
stop calling at any time, and the model may stop (hence `CHECK_DEADLOCK FALSE`
only where an assertion may end the program).

## Divergences

Found by a run that TLC finds violated; the quoted line is in `PROJECT.json`.

- `full_table`: a key that finds the key table full is in the tree but not
  findable, and its name can be added again.
- `deep_update`: `jes_update_array_value` deletes the first child only. The other
  children stay below an element of another type, and the entry of a key among
  them stays in the key table.
- `mismatched_closers`: `"a"]`, `{"a":1]`, `[{"a":1]` and the like are loaded.
- `nested_array`: the streaming serializer writes `[1{}`.
- `valueless_key`: `[[{"a":],1]` is refused by the load, but the tree it leaves is
  rendered as `[[{"a":1]` without an error.

Found by a passing run, as an exception or a rule it cannot do without:

- A load that meets a full key table ends with an error but leaves the key it
  stopped at in the tree, where a search does not find it (`LosesOneKey`). The
  division of the workspace makes such sizes: 378 bytes give 4 nodes and 1 slot,
  443 give 6 and 2.
- `root` survives the deletion of the root element (`keep_root`).
- `jes_update_array_value` lets the index equal to the size through to an
  assertion (`in_range`).
- `-01` is a number; `1.e5` is one; control characters, the form feed, a low
  surrogate in front and a NUL are let through (`Lax`).
- The check of a string refuses the empty one and every escape but `\u`, reads
  an uninitialised variable, and reads behind a value that ends in an escape; the
  check of a number ignores what follows the number (`Known`).

Found while modelling, without a run: `jes_add_array_value` inserts behind the
index; `jes_get_key` asserts on a path through a key without a value;
`JES_REQUIRED_SIZE` is too small in hashed mode (theorem `RequiredSizeFallsShort`)
and `jes_init` aborts on the smallest buffers (`AssertsOnlyWhatIsTooSmall`); the
nesting limit of the streaming serializer is four times the documented one, and
after an error that was taken it goes on out of step; `jes_init_streaming` leaves
`sticky_error` as it finds it (`jes_serializer.c` 971), so that on a workspace that
is not zero every call returns an old error, while test G1-05 of
`test_jes_streaming_serializer.c` has it that it is clear after initialisation.

## The proofs

All proofs are for every value of the constants: pools, tables, names, texts,
buffers and depths of any size, both search modes.  The assumptions are those on
the constants, and nothing else: `CapacityAssumption`, `NilAssumption`,
`NameAssumption`, `TreeAssumption`, `TableAssumption`, the three of `JesHashTable`,
`ParserAssumption`, `SerializerAssumption`, `StreamingAssumption`.  They say that the
pool holds a node, the table a slot if there is one, and that markers (`NIL`,
`TOMBSTONE`, token names) are none of the things they are put among.  TLC evaluates
them in the runs.  Where a theorem needs the client to keep a rule, or has an
exception (`Lax`, `Known`), it is in its `ASSUME`.

### Pool: `JesTreeProofs`, first part

For `PoolSpec`, any client that returns only nodes in use:

- `PoolInvariant`, `PoolSafety` (`PoolOK`): free list and bump index agree,
  `node_count` is the number of nodes in use, and the next node handed out is
  neither in use nor beyond the pool.

`PoolOK` is almost inductive. Allocation takes the last element of `freed`; that
the remaining list is still free of duplicates and that exactly one node becomes
live is `AllocateLemma`. A return appends a live node, which is below `next_free`
and not on the list (`FreeLemma`). The live nodes are the interval below
`next_free` without the elements of an injective sequence (`LiveFinite`).

### Key table: `JesHashTableProofs`

- `TableInvariant`, `TableSafety` (`HashOK`), `TableTypes`, `TableRoom`
  (`RoomIsUsable`), and `TableImplementsDictionary`, the refinement to
  `JesKeyDictionary`.

A slot once used never becomes empty again (a removal leaves a tombstone), so the
way from an entry's home to the entry stays open (`RemoveLemma`); a new entry is
put behind taken slots only (`AddLemma`).  With reachability and uniqueness the
search finds exactly the entry of its key (`FindLemma`), so a key that is not found
has no entry that an addition could duplicate behind a tombstone.  Probing is a walk
through all slots (`ProbeAll`), so it meets a free slot when there is one
(`RoomLemma`).  For the refinement, a step changes one slot and thus what is found
for one key (`OthersFound`), and the keys found are no more than the entries because
they are met in different slots (`FoundKeysFit`).  That a key is looked up before it
is added is the guard of `HashNext`; that the tree does so is
`TreeKeepsTableProtocol`.

### Tree: `JesTreeProofs`, second part

For `Spec` with any set of rules, the empty one included:

- `TreeInvariant` (`IInv`), `TreeTypes` (`TypeOK`), `TreeStaysOne` (`TreeOK`),
  `UpdateFindsRoom` (`UpdateHasRoom`);
- `TreeKeepsPoolProtocol`, and with it `TreePoolOK`: the tree is a client of the kind
  `PoolSafety` is about, so that theorem holds of the pool inside the tree;
- `TreeKeepsTableProtocol`: likewise for the key table.

`TreeOK` is inductive for the single link operations (insert at the root, in front,
behind; take a leaf off), but the steps inside a deletion need to know what they
work on.  `IInv` adds `DeletionOK`: the target is live, and `cur` is below it.  "Below"
is put without recursion (`BelowTarget`: a set of nodes with `cur` in it that is left
through the target only), so that stepping to a first child or a parent keeps it by
naming the set.  `FinishOK` says that the node a call finishes on outlives the
deletion: the deletion stays below the target, and `call.node` is the target's
parent.  Every step is then shown to be *sound*: it keeps `IInv`, does to the pool a
step of `PoolNext` and to the table one of `HashNext`.

### What the rules give: `JesTreeProofs`, third part

| theorem | property | rules needed |
|---|---|---|
| `RootStaysLive` | `RootLive` | `keep_root` |
| `EntriesStayCurrent` | `EntriesCurrent` | `shallow_update` |
| `ShapeIsJson` | `JsonShape` | `grammar`, `shallow_update` |
| `KeysStayUnique` | `UniqueKeys` | the same, and in hashed mode `table_room` |
| `SearchModesAgree` | `LookupAgrees` | the same |
| `PathsFindKeys` | `PathFindsKey` | the same |
| `InsertionsLandAsAsked` | `LandsAsAsked` | none |
| `EntriesCompareByText` | | `shallow_update` |
| `IndexesFindValues` | `IndexFindsValue` | none |

Each step of the tree is one of a few kinds (`StepKind`): it leaves the elements
alone, inserts one, retypes one, takes a leaf off, or resets all.
What each kind does to types, names, parents and entries is shown once; the
theorems go through the kinds.

`EntriesCurrent` is not inductive for every client, which TLC shows only from four
nodes on: an object with two keys in an array, updated to an array value, keeps its
second key, and the key's entry names an object that is none.  Hence
`shallow_update`, and `ArrayUpdateOK`, which follows such an update from the call to
the retyping: the element it is for has no child then.  `KeyUpdateOK` does the same
for the update of a key.  `UniqueKeys` follows in hashed mode from the table having
exactly the keys there are (`EntriesInv`), since a table has no entry twice; in
linear mode from the search that precedes an insertion.

The search is the walk along the children.  `Children` is a recursive function; its
value is described by showing that a function with its equation
exists and taking the equation from there.  That the walk meets every child, once
and in order, is proved by taking the least counterexample, with
`NatLessThanWellFounded`, in place of the induction rule, which the provers cannot
instantiate; that it ends is the pigeonhole principle on the nodes of the pool.

### The document: `JesDocumentProofs`

- `TreeImplementsDocument`: `Spec => ImplementsDocument` under `grammar` and
  `shallow_update`, and `table_room` in hashed mode.

The nodes below the target of a deletion (`Going`) are gone for the document at the
call's first step.  `Going` is shown to be the set that is closed under "child of"
and reaches nothing but the target (`IsBelow`), after which every step is an equation
between sets of nodes: an insertion adds one element to one sequence of children;
the first step of a deletion takes the target's subtree out; taking a leaf off below
the target changes nothing that is not already gone, so it is a stutter; the
insertion or retyping behind a deletion is the second step of the document's update.
`DocumentInv` is `NamesInv` with the types of the pending call.

### Loads: `JesParserProofs`

For `SessionSpec`, with no rule of the client, since `jes_load` is the client:

- `LoadsLeaveTrees` (`LeavesTree`): at every token, and however the load ends, one
  tree of the shape of JSON, names unique, no stale entry;
- `LoadsLoseOneKey` (`LosesOneKey`): every key is found by its name but the one at
  which a load met a full table;
- `NoJsonIsRefused` (`RefusesNoJson`): the parser stops with an error of its own, or
  asserts, only where the grammar is violated.

`LoadInv` is `LoadedTree` (the tree's invariants, and that the table lacks at most
one key, which is then the last and has no value) with `PlacesOK`: what `iter` is, by
the parser's state.

The parser keeps no stack: it climbs parent links.  `NoJsonIsRefused` compares it with
a recogniser that has one.  The invariant is that the containers around `iter`, from
the root down, are the recogniser's stack (`OpenAround`), and that state and
expectation go together (`Agrees`).  It holds as long as the text is a beginning of
JSON; once it is not, nothing is claimed.  The direction proved is the one that
holds: `AcceptsOnlyJson` is violated (`mismatched_closers`).

### Renderings: `JesSerializerProofs`

- `SessionTypes` (`SessionTypeOK`): the unsigned `indention` never goes below zero,
  whatever tree a load left;
- `NothingIsWrittenPastTheBuffer` (`WritesWhatWasMeasured`): the second pass stays
  inside what the first one measured, and fills it exactly.

A depth is assigned to every node (`IsDepth`), which exists because the tree is
built top down, and `indention` is at least the tab size for every level of the
element the loop comes to next (`WellIndented`), so closing it has something to take away.
For the second theorem the invariant remembers the first pass: a sequence of
configurations, each of which *follows* the one before (`Passes`).  In the second pass
there is a configuration of that sequence at which everything but the mode of the
writer is as now (`AlikeAt`), so the next turn of the second pass is the next one in
the sequence, and what is written never exceeds what was measured in the end.  That
the tree does not change in between is `Keep`.

- `EveryElementIsCounted` (`CountsEveryElement`): the walk that the renderer shares
  with `jes_get_stat` meets every element in use, each once, and ends.

The walk has no stack: behind a leaf it climbs to the nearest element above that has a
right neighbour.  Every live node is on a level, the number of links up to the root
(`LevelFacts`); `TurningPoint`, which is the first hit in a sequence of ancestors, is
described through levels (`StopLevel`).  The successor function is one-to-one
(`NextDiffers`), so the walk meets no element twice (`WalkOnce`) and, nodes being
finite, ends (`WalkEnds`).  That it meets all of them is shown on the set of visited
nodes: it has the root and with a node its first child, and when the walk
leaves what is below a node it does so to the node's right neighbour (`StaysBelow`,
`SiblingVisited`).

### The text, written and read: `JesRenderingProofs`

- `WrittenTextIsTheTree` (`RendersTheTree`): a successful `jes_render` has written the
  text of the tree;
- `SizeOfTheTextIsReturned` (`ResultIsTheSize`): the size that is returned is that
  text's length, formatted by depth, with the NUL.

`Text` and `TextLengthBelow` say what the text of a tree is by recursion on its levels.
The renderer recurses on nothing: it goes from element to element, climbs, and counts
its indention.  The two meet in the middle.  Every element has a *place* in the text:
`pre`, all that is in front of it, and `upto`, all up to its end.  They are given by
local equations along the links (`Places`: a first child's `pre` is its parent's with the
opening bracket, a sibling's is its neighbour's `upto` with a comma, and so on), and
functions with these equations exist because every element is reached from the root
through first children and siblings (`PlacesExist`).  One half of the proof is that
every turn leads from a place to the next one (`TurnGoes`): the renderer in front of an
element has put out its `pre`, behind one its `upto` (`IsAt`), also through the closing
brackets of all containers that end together.  `WellKnown` is needed where a key has no
value: behind it comes a key, and the pass ends with an error (`ValuelessNext`).  The
other half is that the `upto` of the root is what the recursion computes
(`WrittenWholes`, `MeasuredWholes`, joined in `PlacedAnew`): equations between sums over
the children, by taking the least level at which they fail.

The two passes are one proof.  What a pass has emitted is a sequence in both; in the
first, which only counts, it is a sequence of as many marks (`Emitted`, `Marks`), so
that lengths add up as texts do.  `OutcomeInv` then carries the result from the end of
the first pass, where the length is known, through the second, to the call's return.

- `LoadedTreeIsTheText` (`LoadsWhatItReads`): when `jes_load` succeeds on a JSON text,
  the tree it leaves is that text, token for token.

`Text` goes through the finished tree from the root down; the parser makes that tree
from left to right and has only `iter`.  The proof uses the same places, for a tree
that is not finished (`ReadInto`): `pre` as above, `upto` for the elements that have
ended, and `open`, the elements that have not, which are one below the other.  The
invariant (`ReadingInv`) is that there are such functions and that what was read is, by
the parser's state, what is in front of the next child of `iter` (`EXPECT_KEY`,
`EXPECT_VALUE`), the `pre` of `iter` and its name (`EXPECT_COLON`), or all up to the last
child of the container around it (`HAVE_VALUE`, `EXPECT_EOF`): `Spot`.  Whether a string
was a key shows one token later only, when the colon is read; `Normalised` is therefore
put over the text that was read; `NormalisedMore` says how it grows.  A token adds an
element behind the last child of `iter`, which is where the next text goes
(`ReadMore`), or ends the innermost open element (`EndInnermost`), and with it a key
whose value that was (`ValueEnds`).  At the end of the text nothing is open, so these
places obey all the equations of `Places`, and `upto` of the root is the text that the
recursion gives, by the same lemmas as for the renderer (`AllIsRead`).  That the
parser's climb along the parents closes the right elements is `TextInvariant` of
`JesParserProofs`.  Only JSON texts and loads that succeed are spoken of: behind a wrong
token nothing is claimed (`mismatched_closers` shows what the parser makes of some).

### Streaming serializer: `JesStreamingProofs`

- `StreamingTypes` (`TypeOK`), for every caller;
- `StreamingInvariant`, `StreamingText` (`StreamsJson`), `StreamingStack`
  (`StackMirrorsText`), for callers that keep to `plain_arrays` and
  `short_containers`, at any depth (`depth` is not needed).

`StreamInv`: state and stack agree with what the grammar makes of the bytes
(`InStep`, `StackMatches`), unless a call has found too little room; then only the
types are left until the serializer is initialised again.

### Tokenizer: `JesTokenizerProofs`

For texts of any length and `Spec` of `JesTokenizer`:

- `TokenizerTypes` (`TokenizerTypeOK`) and `TokensAreTheirText` (`TokenIsItsText`),
  whatever `Lax` and `Known` are;
- `OnlyTokensAreDelivered` (`DeliversTokens`), if `Lax` holds the six indulgences
  (`FullLax`);
- `NoTokenIsRefused` (`RefusesNoToken`), if `Known` holds `empty_value` and
  `short_escape`, with any `Lax`: what strict JSON has is not refused either;
- `WhatPassesIsReadBack` (`PassesWhatIsReadBack`), if `FullLax` and `Known` holds
  the other three.

These hypotheses are the exceptions that the run makes; TLC finds one of the
properties violated when any of them is left out.

The code and the recogniser go over a text in different ways.  The code looks one
character ahead, counts the digits of an escape and tests the first digit of a
number when it meets the second; the recogniser has a state for each of these
places.  `TokenizerInv` says for the head of each loop which states of the
recogniser go with it (`AtInteger`, `AtSymbol`, ..., `AtCheckEscape`; `InStep` for
the thirteen places in an escape) and how far behind the cursor the text of the
token ends, which is another distance in the integer loop than in the others.
Where the recogniser is stricter than the code (`Astray`) nothing is said of it any
more, but for what is refused later.  There is one lemma per action, one for
each way a call returns (`NumberDelivered`, `RefuseStep`, `OneCharDelivered`), and
the recogniser enters through five lemmas on `Advance`.  The invariant has been
checked by TLC under 21 choices of `Lax` and `Known` before it was proved.

The proof asks for definitions whose `CASE` arms do not overlap, since TLA+ leaves
open which of two true arms is taken where TLC takes the first; `JsonLexicon` and
`FirstUnit` are written so.

### Workspace: `JesHashTableProofs`, last part

For every buffer size:

- `PartsDisjoint`: context, pool and table do not overlap and end in the buffer;
- `IndexesFit`: a node's index, and the count of nodes, is never 65535, "no node";
- `RequiredSizeSuffices` and `RequiredSizeFallsShort`: `JES_REQUIRED_SIZE(n)` gives
  exactly n nodes in linear mode and never n in hashed mode;
- `AssertsOnlyWhatIsTooSmall`: the assertion on the table's start concerns only
  buffers that hold no node;
- `TableHasRoomForDocuments`: as long as every key has a value, the pool runs full
  before the table does.  This is why the run `full_table` needs keys without
  values, and what the rule `table_room` amounts to for a finished document.

The argument is arithmetic on three roundings (the percentage, the alignment,
whole nodes and entries), each bounded in a lemma of its own (`PercentBounds`,
`AlignedBounds`, `NodeBounds`, `EntryBounds`).  There are no assumptions: the
constants are those of the build.  The theorems are about the division alone;
that the tree and the table stay below their capacities is `PoolOK` and `HashOK`.

### Only model-checked

- `CallsReturn` and `RenderReturns`: liveness under fairness is out of the prover's
  reach.

Every invariant and every other action property of the passing runs is a theorem.

## Not modelled

- Handles of deleted elements: `jes_validate_node` accepts them (it looks at the
  address and the links only), and what a call does with one depends on what was
  allocated there since. Calls get live elements.
- NULL arguments and uninitialised contexts, which every call turns away first.
- The width of the length field (16 bits) and of the index (32 bits).
- The path separator, `JES_PATH_TOO_LONG`, and the getters of a single link.
- `jes_render` on trees that were edited into something that is not JSON; the
  session renders what loads leave, broken-off ones included.
- The logger, and the status block, which copies what other components hold.
- The builds for 32-bit machines and with 32-bit node indices.
- Dead code: `jes_parser_process_start_state`, `jes_tree_resize`,
  `jes_hash_table_turn_off` and what it installs.

## Plan

1. (done) `JesNodePool`, `JesHashTable`, `JesTree` with `JsonDocument` and
   `JesKeyDictionary`; `JesParser` and `JesStreaming` with `JsonGrammar`.
2. (done) `JesSerializer` on the parser's trees, `JesTokenizer` with `JsonLexicon`,
   `JesNavigation`, `JesWorkspace`.
3. (done) Proofs: the pool, the key table, the workspace; the links and the pool's
   and the table's part of `JesTree`; the document; lookups; the streaming
   serializer; loads and renderings.
4. (done) Proofs: the walk over the tree, text and size of a rendering, that what is
   loaded is what was read, and the tokenizer.
5. Next: handles of deleted elements, which need a client that keeps them.
