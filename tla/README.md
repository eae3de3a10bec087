# TLA+ models of the v8-aotc save/load engine

This directory holds TLA+ models of the ahead-of-time code cache in
`src/src/`: the engine that serialises a Crankshaft Lithium chunk and loads it
back. Each module models one part of that code, and the TLC runs listed below
check it. `PROJECT.json` records the same information for tools:
- the components and the modules that model them;
- the runs and their mutants;
- the source lines behind each definition (`map`);
- the findings, and the hazards of the code.

## The system

| Part | Source | What it does |
|---|---|---|
| Stream & status | `saveload.h`, `lithium-saveload.h` | `SavePrimitive`/`LoadPrimitive` append to and read from a byte list. `LChunkSaveloadBase` holds `status_`/`reason_`, and `Fail(reason)` sets both. |
| Heap value codec | `lithium-saveload.cc` 44-567, 1415-1531 | `SaveObject`/`LoadObject` write a type tag (NULL, SMI, HEAP_OBJECT), then a DetailedInstanceType and a per-type payload: oddballs, heap numbers, strings, symbols, regexps, fixed arrays, JS arrays, array buffers, typed arrays, JS objects and values, accessor infos, foreigns, and zero-payload singletons. |
| Shape graph codec | `lithium-saveload.cc` 967-1412 | `MapSaver` walks a map's back pointers to its root, rejecting a chain that meets a map already on `map_cache_`. It then writes the root (a stable root index, or the root's properties), and for each step one of: copy, special transition, or the index of the added descriptor. Each map is written in two halves: `SavePropertiesOnEnter` before its step, and `SavePropertiesOnExit` (descriptor values, then constructor or prototype) after it. `MapLoader` rebuilds the chain with `CopyDropDescriptors`, `ConnectTransition` or `CopyReplaceDescriptors`, then tries to swap in an existing equivalent map (`TryDeduplicate`). |
| Function reference resolver | `lithium-saveload.cc` 560-965 | Saves a JSFunction as one of several keys (builtin, name in scope, start position, global constructor, identifier in source). It fails on inner functions and on functions it cannot name. |
| IR chunk codec | `x64/lithium-saveload-x64.cc` | `LChunkSaver::Save`/`LChunkLoader::Load`: blocks, constants, instructions with their environments and pointer maps, and inlined closures. |
| Hydrogen shims | `hydrogen-shim.h`, `x64/hydrogen-shim-x64.h`, `x64/lithium-saveload-x64.cc` 1541-2701 | Data carriers that stand in for Hydrogen instructions in a loaded chunk. Each class has a `Save<X>Shim` that writes its base and then its fields, and a `Load<X>Shim` that reads them back into locals and calls the loader constructor. |
| Code block database | `code-block-database.{h,cc}` | A map from function to a saved code block, read from and written to a file. |

The IR chunk codec calls the heap value codec for every constant and every
map, and the heap value codec calls the shape codec for the map of every JS
object. The shape codec calls back into the value codec for descriptor values
and prototypes. So the recursion runs through all three, and one
`map_cache_` and one status register are shared by the whole save.

## Modules

- **ShapeSave**: the saver side of the shape and value codecs, for JS objects
  whose maps form a tree.
  - The call stack is a sequence of frames. Each frame is a SaveJSObject
    (`ObjFrame`) or a MapSaver (`MapFrame`), with its own loop position.
  - The recursion SaveJSObject → SaveMap → SavePropertiesOnExit → SaveObject →
    SaveJSObject is therefore explicit, and each loop iteration of the code is
    one step:
    - `MapChain` is CreateMapChain plus the root;
    - `MapEnter` is EnterMap and the step selector;
    - `MapValues` is one descriptor value, then the constructor or prototype;
    - `MapExit` is the pop of `map_cache_` and the rest of ExitMap.
  - `stream` is a sequence of tokens, one per SavePrimitive group.
  - `status`/`reason` are the status register, and `cache` is `map_cache_`.
  - `crashed` is the UNIMPLEMENTED() at cc:1020, reached when a transition was
    overwritten (`MapEnterLost`).
  - Which object, map, descriptor value and function appear in the heap is
    given by CONSTANTS. A function's save outcome is a constant (`FnSave`):
    saved, inner, or unsavable.
- **ShapeLoad**: the loader side, in the same style.
  - A stack of frames; `input`/`pos` are the stream and its cursor.
  - `lmaps` is the maps the loader created or found, each with its layout,
    back pointer, how it was made, its values and its constructor or prototype.
  - `lfault` records the null dereference at cc:1317.
- **ShapeCodec**: composes the two. It saves, hands the stream over, then loads.
  - `Den`/`LDen` give the denotation of a saved value in the source heap and
    of a loaded value in the destination.
  - `RoundTrip` compares the two denotations.
- **MCShapeSave**, **MCShapeCodec**: the model values for TLC. The
  `shape_codec` run checks the saver's invariants and the round trip
  together, on the heaps with no Smi 0 descriptor. `MCShapeSave.cfg` checks
  the same three invariants on the saver alone, over all heaps.
  - Nine maps cover every kind of step: stable and unstable roots, a
    descriptor step, a copy step, a special transition, and an overwritten
    transition. Four objects use them.
  - There are four functions, one per save and load outcome.
  - Each initial state is one heap: what descriptors x and y hold, the
    property fields of o1 and o2, and the prototype of maps E and L.

- **CodeBlockDB**: `CodeBlockDatabase`. Its variables:
  - `blocks` is `code_blocks_`, and `buffer` is `buffer_`;
  - `heap`/`mem` is the process's memory, split into allocations;
  - `file` is the database file, and `exists` whether it is there.

  Its actions:
  - `Create` and `Load` are the two constructors. `Load` runs Read, which
    parses the file byte by byte (`ReadFile`, `ParseBlocks`).
  - `SetCode`, `RemoveCode` and `Write` are the methods of the same names.
  - `Destroy` is the destructor.
  - `Crash` kills the process between operations. `CrashInWriteChars` kills
    it after WriteChars has truncated the file, once part of the new bytes is
    written.

  A Vector is a slice `[a, off, len]` of an allocation. `Dispose` faults on a
  freed array, or on a slice that does not start its array. The integer widths
  are scaled to 1 and 2 bytes, keeping the x64 ratio of int to size_t.
  Nothing in this repository calls the database, so its operations run in any
  order. SetCode is handed fresh arrays only.
- **MCCodeBlockDB**: two positions, code of 0 to 2 bytes, three allocations
  per process, and DCHECKs on.

- **ChunkCodec**: `LChunkSaver::Save` and `LChunkLoader::Load`
  (`x64/lithium-saveload-x64.cc`), one step per section of the code:
  - save: header, basic blocks, live constants, the instruction count, one
    instruction per step, inlined closures;
  - load: the same sections in the same order. After each section, `After`
    makes the RETURN macros' status check (`lithium-saveload.h` 18-40).
  - `w` is the saver: the stream `out` and the status register. `r` is the
    loader: its cursor `pos`, the status register, the value last read and
    `fault`. Every token carries the name of the field it was written for.
    A read of another field (`misaligned read`) or past the end (`oob read`)
    stops the loader. So does a failed `Synchronize` CHECK (debug builds) or
    a null handle dereferenced (`null dereference`). The code would go on
    reading garbage there.
  - `chunk` is the saved chunk; `lchunk` is the blocks, instructions and
    constant table the loader rebuilt.
  - The heap is constants too: whether each function, map and
    SharedFunctionInfo loads (`loadFn`, `loadMap`, `loadSfi`). Each initial
    state is one heap.
  - Instructions keep their control: inputs, gap moves, payload, hydrogen
    shim (with LoadHCheckMapsShim's map loop), result, environment chain
    (LoadEnvironment is recursive, outermost first), pointer map.
    LInstanceOfKnownGlobal's payload is its deferred lazy deoptimization
    environment (`denv`). SaveLInstanceOfKnownGlobal (x64:294) writes it,
    and LoadLInstanceOfKnownGlobal (x64:1483) reads it with no status check
    before the hydrogen shim. LiveConstants (x64:72) does not scan it.
    Its constants are in the table only because V8's chunk builder makes it
    the environment of the LLazyBailout that follows the call. That builder
    is not in this repository, and the MC chunk follows it. Their
    values are abstract: an operand is a register or a constant id.
  - Each loader operator hands the reader state after a read on to a local
    operator as an argument, so TLC computes each read once.
- **MCChunkCodec**: two chunks.
  - One has a loop header, a block that is the inline return target of an
    earlier block (the spec's end-to-end case), and three constants: int,
    named, and one that only an environment uses. It has four instructions:
    a label with a START move, LConstantT, LCheckMaps of two maps, and a call
    in an inlined function.
  - The other is an OSR chunk whose block 1 names the later block 2 as its
    inlined entry, with a context constant. Its instructions are a call,
    an LInstanceOfKnownGlobal whose deferred environment holds that
    constant, and the LLazyBailout that has the same environment.
  - `MCChunksEnv` and `MCChunksMaps` hold one instruction each, for the two
    violation runs.

- **FunctionKeys**: the abstract specification of the function resolver
  (spec section 4.5). Saving a sequence of JSFunction and SharedFunctionInfo
  references writes, for each, the first applicable key in priority order:
  builtin id, name in scope, name in the global object, start position
  (inner functions rejected), global constructor descriptor, preceding
  identifier in the source. It fails when none applies. A load after a
  complete save gives back each saved object, or fails. `LiveSpec` adds weak
  fairness: both loops run to their end.
- **FunctionResolver**: the code of the resolver, checked to refine
  FunctionKeys through `Abstract == INSTANCE FunctionKeys WITH keys <- ...`
  (tag "prototype" maps to "constructor"; a fault is a stutter step there).
  - `heap`/`lheap` are the source and destination processes: SFI trees
    (outer, inner_infos, start position, native, builtin id, script),
    context-chain and global bindings, the global property dictionary,
    descriptor arrays, script sources as character sequences, builtin ids,
    js_builtins_object and the live functions.
  - `SaveJSFunction` and `SaveSharedFunctionInfo` are written strategy by
    strategy, with the code's loops as RECURSIVE operators (`ChildIndex`,
    `PathUp`, `ScanGlobalConstructors`, `ScanBack`); `LoadJSFunction` and
    `LoadSharedFunctionInfo` with the loader's walk from
    `info()->shared_info()`'s root.
  - `SaveStep`/`LoadStep` are one reference of SaveObject/LoadObject each,
    with the status check of the RETURN macros. `fault` records a failed
    DCHECK (debug build) or a cast of undefined.
  - GetJSFunctionByStartPosition is an Isolate method outside `src/` and is
    modelled from the spec (`ByStartPosition`).
- **MCFunctionResolver**: a user script `sRoot{sTop{sInner,sHelper},
  sTop2{sX}}` compiled for `fTop`, a library script `sLRoot{sLib}`, and
  natives whose source `"function map() function () x=("` puts an
  identifier, the function token and no identifier before three start
  positions. One function or SFI per strategy and per failure; the
  destination is either the same heap or one where `sHelper` is not
  compiled and `fTop` is gone (`HLazy`).

- **HydrogenShims**: the payload of every shim class, saved and loaded once.
  - Each class of `hydrogen-shim.h` is a definition named after it
    (`HCompareMapShim`, ...): its base class, the members its loader
    constructor takes in parameter order, and the kind of each member that
    is not a primitive (a nested value shim, or a map, function, SFI, heap
    object, fixed array, string or name).
  - Each `Save<X>Shim`/`Load<X>Shim` pair is a definition `SaveLoadH<X>Shim`:
    the items the saver writes, the items the loader reads (each primitive
    with the C++ type it is read as, `LoadBool` being a `char`), whether a
    nested load is followed by `RETURN_VALUE_ON_FAIL`, and the arguments of
    the constructor call. `SaveClass` and `LoadClass` interpret these tables;
    `LoadHConstantShim` is written out, switch case by switch case, and so
    is the saver's ConstantType choice.
  - `Read` is `LoadPrimitive<T>`: it gets the saved value only when the
    token at the cursor has the width of T. A misaligned read, or one past
    the shim's bytes, puts the cursor out of step (`skew`, with the status
    at that moment), and every later read gets `Garbage`.
  - A nested object is its head (the first primitive its loader reads:
    the map's root index, an int length, a size_t length, ...) and its rest.
    `heap` says how each nested load ends: it reads the whole object; it
    fails part way with the rest unread; it reads everything and then
    fails; or, for a named constant's map, the object was re-laid out. An
    object loader that gets a garbage head is a wild read (`fault`).
  - `Save` is `SaveHydrogenShim`, `Load` is `LoadHydrogenShim` with
    LoadInstruction's status check after it.
- **MCHydrogenShims**: every class of `HYDROGEN_CONCRETE_SHIM_OWNER_LIST`,
  with both forms of HCheckInstanceType, null optional handles, and one
  HConstant per ConstantType (and per way to reach kInteger and kDouble).

- **HeapValues**: SaveObject/LoadObject and every variant codec they
  dispatch to, as RECURSIVE operators over a value tree.
  - The saver is a record `wr` (`out`, `st`, `reason`, `fault`). Each
    SavePrimitive appends a token `[t |-> C++ type, v |-> value]`, and a
    string's bytes are one `char` token each. So SaveJSRegExp's hand-written
    flags string (count, chars, SaveFalse) is checked against what LoadString
    reads.
  - The loader `rd` reads a token only if its type is the one asked for.
    Anything else, or a read past the end, is a `misread` abort.
    UNREACHABLE, a failed CHECK or DCHECK, and a null handle dereferenced are
    aborts too. Status checks are where the code has RETURN_ON_FAIL or
    RETURN_VALUE_ON_FAIL, and nowhere else.
  - Functions, SFIs, maps and JS objects are external objects (`Ext`). Per
    object, `ext` says whether its save and its load fail, and a failure
    calls Fail with the object's name as the reason.
  - `Save` runs SaveObject on `src`. `Load` runs LoadObject on the bytes,
    but only after a save that succeeded: only those bytes are stored.
  - `Den` is the reference for what a load should give. `ExtsInOrder` is
    the order in which a depth-first walk meets the external objects.
- **MCHeapValues**: one or two values of every variant, arrays that nest,
  hold Smi 0, hold two external objects, or stop short of their capacity,
  and two external objects.

Data is abstracted throughout. Instance types, sizes and bit fields are
modelled as the identity of the map they come from (`layout`). Names are
model values. TryDeduplicate is left out: it only replaces the loaded map
with an existing one that no property tells apart from it.

## Runs

| Run | Expect | Checks |
|---|---|---|
| `shape_codec` (MCShapeCodec.cfg) | pass | `TypeOK`. `CacheIsOpenMaps`: `map_cache_` is exactly the maps whose exit is pending, after any mix of successes, failures and nesting. `SaveRecursionBounded`: on field-acyclic heaps the recursion depth is at most two frames per object. `RoundTrip`: when save and load both succeed, every loaded object equals the saved one in map chain, steps, descriptor values, constructor or prototype, and fields. 142,742 states. |
| `shape_codec_null` | violation | `NoNullDereference`: a descriptor holding Smi 0 is written as NULL_TYPE, loads as an empty handle, and is dereferenced at cc:1317. |
| `shape_codec_reason` | violation | `PoisonPropagation` (spec §8, both directions; defined in ShapeCodec as `FirstFailureReasonKept /\ LoadFirstFailureReasonKept`): on the save side SavePropertiesOnExit keeps going after a failed value, so "refs to inner JSFs" is overwritten by "cyclic map chains" when the prototype's map chain meets the cache; on the load side "function not found by start position" is overwritten by cc:1410's "deduplication failed". TLC reports the save-side overwrite first. |
| `codeblock_db` (MCCodeBlockDB.cfg) | pass | `TypeOK` (blocks keyed uniquely). `NoDanglingCode`: no block points into freed memory. `DisposeSafe`: no double or interior delete[]. `PersistRoundTrip`: loading a file from a completed Write gives back the code that was written. Any sequence of operations is checked, crashes and torn writes included. 419,740 states. CHECK_DEADLOCK is off: `Crash` is always enabled, so only a failed DCHECK or an out-of-bounds read has no successor, and those are where the process stops. |
| `codeblock_db_leak` | violation | `NoLeakOnDestroy`: SetCode, then RemoveCode, then destroy leaves the managed array live. RemoveCode (cc:93) never disposes it. |
| `codeblock_db_truncated` | violation | `ReadStaysInBuffer`: a crash inside WriteChars leaves a prefix of the file. Read then reads past `buffer_` with DCHECKs on. This happens for an empty file (the count at cc:22 is unchecked), and for a file cut inside a size field (cc:26 checks 2 ints where an int and a size_t are read). |
| `chunk_codec` (MCChunkCodec.cfg) | pass | `TypeOK`. `ChunkRoundTrip`: when Save and Load both succeed, the loaded blocks (with the deferred inline-return-target links), the instructions (operands, moves, shims, environments, pointer maps) and the constant table equal what was saved. `ConstantsResolved`: every constant a loaded instruction refers to, environments and deferred environments included, is in the table. Every heap outcome of every function, map and SharedFunctionInfo is tried, so every failure path runs. 29,112 states. CHECK_DEADLOCK is off: Load ends in the final phase `done`. |
| `function_resolver` (MCFunctionResolver.cfg) | pass | `TypeOK`. `NoFault`: no DCHECK or cast fails in either direction. `FunctionKeysLive`: under `FairSpec` the resolver implements FunctionKeys' fair specification. So every key is the first applicable strategy, every load gives back the saved object or fails, and the loader consumes every key or fails. Every one- and two-reference sequence of the savable references, loaded into the same heap and into `HLazy`. 1,264 states. CHECK_DEADLOCK is off: a save and load end. |
| `chunk_codec_env_closure` | violation | `LoadFailsCleanly`: an inlined frame whose closure is keyed by start position and not found fails LoadEnvironment before its values are read (cc:1679). LoadInstruction has no status check after LoadEnvironment (x64:603), so it reads the pointer-map flag from the middle of the values. |
| `hydrogen_shims` (MCHydrogenShims.cfg) | pass | `TypeOK`. `ShimRoundTrip`: when every nested object loads, the shim loads with no fault; and a shim that loads with no fault has every member the saved one had. HInvokeFunction's `known_function_`/`formal_parameter_count_` are fixed by design, and a constant is compared by its value. `AlignedWhileOk`: while the status is ok, no loader reads at another width than the saver wrote, or past the shim. Every owner class and every outcome of its nested loads, 285 states. CHECK_DEADLOCK is off: the codec is one-shot, and `done` is its end. |
| `heap_values` (MCHeapValues.cfg) | pass | `TypeOK`. `ValueRoundTrip`: after a save that succeeded, the load succeeds when every external object loads. A load that succeeds reads exactly the saved bytes and gives `Den(src)`: an allocation site is undefined, an accessor pair is null, a JS array shows only its elements below its length, and a null handle counts as the Smi 0 a slot gets. `FirstFailureReported`: a failed save or load reports the first external object, in walk order, that failed. `FailsCleanly`: neither side aborts. Every value of MCHeapValues under each of the 16 save/load outcomes of the two external objects, 1,128 states. CHECK_DEADLOCK is off: the codec is one-shot. |
| `hydrogen_shims_regexp` (MCHydrogenShimsRegExp.cfg) | violation | `LoadFailsCleanly`: LoadHRegExpLiteralShim (x64:2642-2645) reads `literal_index` and two strings after LoadFixedArray fails part way. The first LoadString takes its size_t length from the array's unread elements, then reads that many bytes. |

**Further findings.** Eight configurations are kept beside the runs; TLC
reports the violation of each:
- `MCShapeSaveFieldCycle.cfg` (MCShapeSave), `SaveRecursionBounded` on all
  heaps: o.f = o makes SaveJSObject recurse without limit, because only map
  chains are checked for cycles (cc:1419).
- `MCChunkCodecMaps.cfg` (MCChunkCodec), `LoadFailsCleanly`:
  LoadHCheckMapsShim calls LoadMap in a loop with no status check
  (x64:2218). A map whose deduplication fails returns a null handle, which
  Unique<Map>::CreateImmovable dereferences. HydrogenShims shows the same
  (a `null dereference` fault) for every HCheckMaps with a failing map.
- `MCHydrogenShimsCheckValue.cfg` (MCHydrogenShims), `LoadFailsCleanly`:
  LoadHCheckValueShim passes a null handle from a failed LoadHeapObject to
  the loader constructor, whose `DCHECK(object->IsHeapObject())`
  (hydrogen-shim.h:883) dereferences it in a debug build.
- `MCShapeSaveReason.cfg` (MCShapeSave), `FirstFailureReasonKept`: the
  save half of `PoisonPropagation` on the saver alone; the run
  `shape_codec_reason` checks both halves together.
- `MCHeapValuesSmiZero.cfg` (MCHeapValues), `FailsCleanly`: new Number(0)
  holds Smi 0, which SaveObject writes as NULL_TYPE. LoadJSValue then
  dereferences the null handle (cc:1454). LoadExecutableAccessorInfo does
  the same with a Smi 0 setter (cc:1476). This is the root cause of
  `shape_codec_null` again.
- `MCHeapValuesSymbolFor.cfg`, `ValueRoundTrip`: a Symbol.for symbol loaded
  into a process whose registry lacks the name. LoadSymbol's unchecked cast
  (cc:347) turns undefined into the "symbol".
- `MCHeapValuesLongArray.cfg`, `FailsCleanly`: an array of length 2^32 - 1
  has a heap number as its length, and LoadJSArray's DCHECK IsSmi (cc:518)
  fails.
- `MCHeapValuesLocalSymbol.cfg`, `FailsCleanly`: SaveSymbol reaches
  UNREACHABLE (cc:328) for Symbol('a'), which is in no registry.

Four configurations of MCFunctionResolver are kept beside the runs; each gives the resolver one reference the code mishandles,
and TLC reports the violation (`tlc -config X.cfg MCFunctionResolver`):
- `MCFunctionResolverCrossScript.cfg`, `FunctionKeysSpec`: an SFI inlined
  from another script is saved by its path from its own script's root, but
  loaded from the compiled function's root (cc:682). `sLib` loads as `sTop`.
- `MCFunctionResolverUncompiled.cfg`, `NoFault`: SaveSharedFunctionInfo casts
  an undefined, uncompiled earlier sibling in `inner_infos` (cc:636-637).
- `MCFunctionResolverNativeSfi.cfg`, `NoFault`: an inlined native SFI with no
  indexed builtin id fails the DCHECK at cc:621. Release builds reach
  UNREACHABLE at load.
- `MCFunctionResolverEmptyName.cfg`, `FunctionKeysSpec`: a function preceded
  by `=(` is saved by an empty original name (cc:864) instead of failing.

Each property of a passing run has a mutant in `PROJECT.json`, and TLC finds
the property violated under each mutant:
- `Fail` that forgets the reason breaks `TypeOK`;
- a cycle check against the leaf only breaks `SaveRecursionBounded`;
- `ExitMap` that skips the pop after a failure breaks `CacheIsOpenMaps`;
- a copy step that does not set the back pointer breaks `RoundTrip`;
- a lookup loop that starts at the second block breaks `TypeOK`;
- writing the code size as an int breaks `PersistRoundTrip`;
- CodeBlock::SetCode that assigns before disposing breaks `NoDanglingCode`;
- a DisposeIfNeeded that ignores `managed_` breaks `DisposeSafe`;
- an instruction count one too high in Save breaks `TypeOK` (the loader
  reads past the stream);
- MarkAsInlineReturnTarget with the block and the entry swapped breaks
  `ChunkRoundTrip`;
- a LiveConstants that skips environment values breaks
  `ConstantsResolved`;
- writing the SFI path leaf first breaks `FunctionKeysLive`;
- a path walk that casts an undefined inner info breaks `NoFault`;
- a start-position lookup that returns undefined instead of failing breaks
  `TypeOK`;
- a load loop that stops one key early breaks `FunctionKeysLive` (and no
  safety property);
- a width table without the one-byte `ToBooleanStub::Types` breaks
  `TypeOK` (HBranch's saver writes a type of no width);
- an HBoundsCheck loader that passes `allow_equality` and `skip_check` to
  the constructor in each other's place breaks `ShimRoundTrip`;
- an HLoadRoot loader that reads one field more than its saver writes
  breaks `AlignedWhileOk`;
- in HeapValues, a `Fail` that leaves `reason_` null breaks `TypeOK`;
- SaveFixedArrayData without its RETURN_ON_FAIL breaks
  `FirstFailureReported`: an array of two failing functions reports the
  second;
- a LoadString that always internalizes breaks `ValueRoundTrip`;
- a SaveJSRegExp that omits the closing SaveFalse breaks `FailsCleanly`.
  The loader reads past the end.

**Bounds.** There are at most two top-level saves (`MaxSaves = 2`). That is
enough for a stale `map_cache_` entry from the first save to matter in the
second. Objects reference each other through descriptor values, prototypes
and fields, so nested saves reach depth 6. Every kind of step appears on some
chain, and every failure reason is reachable. In ChunkCodec each chunk has
every kind of operand position a constant can take (input, gap move,
environment value, the constant instruction itself), environment chains of
length one and two, and block links both backwards and forwards. Each
function, map and SharedFunctionInfo ranges over all of its load outcomes.
In HydrogenShims every owner class is saved once, which is all the codec
does with one: classes do not interact except through their base's codec,
and each base is inside every class derived from it. Every nested object
takes each outcome its loader has, one combination per state.
In FunctionResolver every strategy and every failure reason has a reference
that takes it; sequences of two references are enough for a failure to stop
the rest of the save or load, and the two destination heaps give each load
both a hit and a miss.
In HeapValues every variant has a value, and every loop (fixed array
items, string bytes, doubles) runs zero, one and two times. Two external
objects, each trying every save and load outcome, are enough for a second
failure after a first one. Values nest to depth three (an array in an
array, a JS array's elements, a regexp's pattern string).

**Fairness.** Only `function_resolver` assumes any: weak
fairness of the resolver's next-state relation. The save and load loops run
in one compiler thread, and each step is a bounded computation that waits for
nothing (spec: "single-threaded, synchronous, no suspension points"), so an
enabled step is eventually taken. The other runs check safety only.

## Not modelled yet (plan)

1. **Composing ChunkCodec with ShapeLoad and FunctionResolver** through
   LoadMap and LoadJSFunction, in place of the `loadMap`/`loadFn` outcomes.
   ShapeSave/ShapeLoad still take a function's outcome as a constant too.
2. The hydrogen shims' save-only constructors, which copy fields out of
   Hydrogen instructions: they read no codec state, and HydrogenShims starts
   from the members they produce. ChunkCodec still abstracts the payload of
   an instruction's shim to a value id; HydrogenShims checks the payloads
   one shim at a time. HDeoptimize's loader copies the reason into a Vector
   that is never freed; memory is not modelled there.
3. Sharing between heap values: HeapValues saves and loads trees. The
   codec writes no back references, so two typed arrays on one buffer load
   onto two buffers (hazard at cc:562). SaveName/LoadName, BitVector,
   TypeFeedbackVector, Representation and HType are one-token codecs with
   no control. Trace printing is pure I/O.
4. CodeBlock::SetCode with an argument aliasing its own code: callers are
   outside the repository, so the model hands SetCode fresh arrays only.
