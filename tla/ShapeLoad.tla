----------------------------- MODULE ShapeLoad -----------------------------
(***************************************************************************)
(* The loading half of the shape codec: LChunkLoaderBase::MapLoader and    *)
(* the object loaders it recurses through (src/src/lithium-saveload.cc).   *)
(*                                                                         *)
(* The loader reads a token stream written by ShapeSave.  A map is rebuilt *)
(* from its root down: a stable root is taken from the heap's roots, any   *)
(* other root is made with NewMap; each further step is a copy without     *)
(* descriptors, a special transition (reused when the parent has it, else  *)
(* connected), or a property transition made by CopyReplaceDescriptors.    *)
(* Each new map then gets its descriptor values and its constructor or     *)
(* prototype by LoadPropertiesOnExit, which may load further objects.      *)
(* There is no map cache on this side: the saver never writes a back       *)
(* reference to a map.                                                     *)
(***************************************************************************)
EXTENDS Naturals, Sequences, SequencesExt

CONSTANTS
  StableRoots,   \* the root maps the saver refers to by root index
  NotFound,      \* Heap::kNotFound
  NoMap,         \* no back pointer
  FnLoad         \* FnLoad[f]: whether LoadJSFunction finds f again

VARIABLES
  input,    \* the stream being loaded
  pos,      \* the read position in it
  lstack,   \* the loader's call stack of frames, innermost last
  lstatus,  \* status_ of the loader
  lreason,  \* reason_ of the loader
  lfault,   \* "none", or how the loader process died
  lmaps,    \* the maps of the loading heap: stable roots first
  loaded    \* the values of the top-level loads, in order

lvars == <<input, pos, lstack, lstatus, lreason, lfault, lmaps, loaded>>

(* Loaded values: a primitive or function by name, or an object as the    *)
(* map it was made with and its property fields.  NullH is an empty       *)
(* Handle<Object>, what LoadObject returns for NULL_TYPE and on failure.  *)
Prim(v) == [obj |-> FALSE, v |-> v]
Object(m, fs) == [obj |-> TRUE, v |-> [map |-> m, fields |-> fs]]
NullH == Prim("nullh")
IsNull(x) == ~x.obj /\ x.v = "nullh"

\* The loading heap before anything is loaded: just its stable roots.
InitialMaps ==
  LET rs == SetToSeq(StableRoots) IN
  [j \in 1..Len(rs) |-> [layout |-> rs[j], keys |-> <<>>, parent |-> 0,
                          via |-> "stable", vals |-> <<>>, proto |-> NullH,
                          ctor |-> "none"]]
RootMap(r) == CHOOSE j \in DOMAIN lmaps : lmaps[j].via = "stable" /\ lmaps[j].layout = r

LFrame(proc, pc) == [proc |-> proc, pc |-> pc, m |-> 0, n |-> 0, keys |-> <<>>,
                     i |-> 0, len |-> 0, vals |-> <<>>, fields |-> <<>>,
                     got |-> NullH, root |-> FALSE]
LTop == lstack[Len(lstack)]
LWithTop(f) == [lstack EXCEPT ![Len(lstack)] = f]
Read(k) == input[pos + k]

\* A frame returns v to its caller's `got`, or, at the bottom, to `loaded`.
LReturn(v) ==
  IF Len(lstack) = 1
  THEN lstack' = <<>> /\ loaded' = Append(loaded, v)
  ELSE /\ lstack' = LET s == Front(lstack) IN [s EXCEPT ![Len(s)].got = v]
       /\ UNCHANGED loaded

LFail(r) == lstatus' = "failed" /\ lreason' = r

(* LoadJSFunction of the reference at `at`: kByStartPosition fails when no *)
(* function starts there any more; the other strategies are abstracted to *)
(* FnLoad.  The top frame continues as `cont` with the function in `got`. *)
LoadJSFunction(at, cont) ==
  LET f == input[at].v IN
  /\ pos' = at + 1
  /\ IF FnLoad[f] = "ok"
     THEN lstack' = LWithTop([cont EXCEPT !.got = Prim(f)]) /\ UNCHANGED <<lstatus, lreason>>
     ELSE /\ LFail("function not found by start position")
          /\ lstack' = LWithTop([cont EXCEPT !.got = NullH])

\* Smi::FromInt of a saved integer.
SmiValue(n) == IF n = 0 THEN "smi0" ELSE "smi1"

(* LoadHeapObject of the value whose instance type is at `at`: the null  *)
(* oddball by its kind, a function by LoadJSFunction, a JS object by a    *)
(* LoadJSObject frame.                                                    *)
LoadHeapObject(at, cont) ==
  CASE input[at].v = "ODDBALL" ->
         /\ pos' = at + 2
         /\ lstack' = LWithTop([cont EXCEPT !.got = Prim(input[at + 1].v)])
         /\ UNCHANGED <<lstatus, lreason>>
    [] input[at].v = "JS_FUNCTION" -> LoadJSFunction(at + 1, cont)
    [] input[at].v = "JS_OBJECT" ->
         /\ pos' = at + 1
         /\ lstack' = Append(LWithTop(cont), LFrame("obj", "map"))
         /\ UNCHANGED <<lstatus, lreason>>

(* LoadObject of the value at `at`, on behalf of the top frame, which     *)
(* then continues as `cont` with the value in `got`.  NULL_TYPE loads as  *)
(* an empty handle.                                                       *)
LoadObject(at, cont) ==
  CASE input[at].t = "null" ->
         pos' = at + 1 /\ lstack' = LWithTop([cont EXCEPT !.got = NullH])
         /\ UNCHANGED <<lstatus, lreason>>
    [] input[at].t = "smi" ->
         /\ pos' = at + 1
         /\ lstack' = LWithTop([cont EXCEPT !.got = Prim(SmiValue(input[at].v))])
         /\ UNCHANGED <<lstatus, lreason>>
    [] input[at].t = "heap" -> LoadHeapObject(at + 1, cont)

NewMapRec(layout, parent, via) ==
  [layout |-> layout, keys |-> <<>>, parent |-> parent, via |-> via,
   vals |-> <<>>, proto |-> NullH, ctor |-> "none"]

(* MapLoader::LoadMap, the root: a stable root by its index, or NewMap    *)
(* from the entered properties followed by LoadPropertiesOnExit.          *)
LMapRoot ==
  LET f == LTop  r == Read(0).v  e == Read(1).v IN
  /\ f.proc = "map" /\ f.pc = "root"
  /\ pos' = pos + 2
  /\ IF r # NotFound
     THEN /\ lstack' = LWithTop([f EXCEPT !.m = RootMap(r), !.n = e, !.pc = "loop"])
          /\ UNCHANGED lmaps
     ELSE /\ lmaps' = Append(lmaps, NewMapRec(e.layout, 0, "root"))
          /\ lstack' = LWithTop([f EXCEPT !.m = Len(lmaps) + 1, !.keys = e.keys,
                                  !.i = 0, !.vals = <<>>, !.root = TRUE, !.pc = "values"])
  /\ UNCHANGED <<input, lstatus, lreason, lfault, loaded>>

(* A turn of the loop of MapLoader::LoadMap: LoadPropertiesOnEnter, the   *)
(* selector, and the child map it names, which LoadPropertiesOnExit then  *)
(* gives the entered integer properties.                                  *)
StepTo(f, child, maps, width) ==
  /\ lmaps' = [maps EXCEPT ![child].layout = Read(0).v.layout]
  /\ lstack' = LWithTop([f EXCEPT !.m = child, !.keys = Read(0).v.keys, !.i = 0,
                                  !.vals = <<>>, !.pc = "values"])
  /\ pos' = pos + width
  /\ UNCHANGED <<input, lstatus, lreason, lfault, loaded>>

\* Faulty variant of the copy step: the back pointer is never set.
LMapCopyNoBackPointer ==
  LET f == LTop IN
  /\ f.proc = "map" /\ f.pc = "loop" /\ f.n > 0 /\ Read(1).v = TRUE
  /\ StepTo(f, Len(lmaps) + 1, Append(lmaps, NewMapRec(Read(0).v.layout, 0, "copy")), 2)

\* Map::CopyDropDescriptors, with the back pointer set.
LMapCopy ==
  LET f == LTop IN
  /\ f.proc = "map" /\ f.pc = "loop" /\ f.n > 0 /\ Read(1).v = TRUE
  /\ StepTo(f, Len(lmaps) + 1, Append(lmaps, NewMapRec(Read(0).v.layout, f.m, "copy")), 2)

\* The special transition of the parent for the key when it has one, else
\* a copy connected to it by Map::ConnectTransition.
SpecialChildren(m, key) == {j \in DOMAIN lmaps : lmaps[j].parent = m /\ lmaps[j].via = key}
LMapSpecial ==
  LET f == LTop  key == Read(3).v  old == SpecialChildren(f.m, key) IN
  /\ f.proc = "map" /\ f.pc = "loop" /\ f.n > 0
  /\ Read(1).v = FALSE /\ Read(2).v = TRUE
  /\ IF old # {}
     THEN StepTo(f, CHOOSE j \in old : TRUE, lmaps, 4)
     ELSE StepTo(f, Len(lmaps) + 1, Append(lmaps, NewMapRec(Read(0).v.layout, f.m, key)), 4)

\* Map::CopyReplaceDescriptors with the entered descriptors, keyed by the
\* descriptor whose index was saved.
LMapProperty ==
  LET f == LTop  key == Read(0).v.keys[Read(3).v + 1] IN
  /\ f.proc = "map" /\ f.pc = "loop" /\ f.n > 0
  /\ Read(1).v = FALSE /\ Read(2).v = FALSE
  /\ StepTo(f, Len(lmaps) + 1, Append(lmaps, NewMapRec(Read(0).v.layout, f.m, key)), 4)

\* The end of the loop: TryDeduplicate may hand back an equivalent map of
\* the global object instead, which no property here tells apart.
LMapDone ==
  LET f == LTop IN
  /\ f.proc = "map" /\ f.pc = "loop" /\ f.n = 0
  /\ LReturn(Prim(f.m))
  /\ UNCHANGED <<input, pos, lstatus, lreason, lfault, lmaps>>

(* LoadPropertiesOnExit: the descriptor values, each checked for failure  *)
(* and then stored by dereferencing it; then the descriptors are set,    *)
(* and the constructor, or else the prototype, is loaded.                 *)
LMapValues ==
  LET f == LTop IN
  /\ f.proc = "map" /\ f.pc = "values"
  /\ IF f.i < Len(f.keys)
     THEN LoadObject(pos, [f EXCEPT !.pc = "value"]) /\ UNCHANGED lmaps
     ELSE /\ lmaps' = [lmaps EXCEPT ![f.m].keys = f.keys, ![f.m].vals = f.vals]
          /\ IF Read(0).v = TRUE
             THEN LoadJSFunction(pos + 1, [f EXCEPT !.pc = "ctor"])
             ELSE LoadObject(pos + 1, [f EXCEPT !.pc = "proto"])
  /\ UNCHANGED <<input, lfault, loaded>>

LMapValue ==
  LET f == LTop IN
  /\ f.proc = "map" /\ f.pc = "value" /\ lstatus = "ok"
  /\ IF IsNull(f.got)
     THEN lfault' = "null dereference" /\ UNCHANGED lstack
     ELSE /\ lstack' = LWithTop([f EXCEPT !.vals = Append(f.vals, f.got),
                                         !.i = f.i + 1, !.pc = "values"])
          /\ UNCHANGED lfault
  /\ UNCHANGED <<input, pos, lstatus, lreason, lmaps, loaded>>

\* After LoadPropertiesOnExit succeeded: the number of transitions follows
\* the root; a later map counts one transition done.
AfterExit(f) ==
  IF f.root
  THEN pos' = pos + 1 /\ lstack' = LWithTop([f EXCEPT !.root = FALSE, !.n = Read(0).v, !.pc = "loop"])
  ELSE pos' = pos /\ lstack' = LWithTop([f EXCEPT !.n = f.n - 1, !.pc = "loop"])

LMapCtor ==
  LET f == LTop IN
  /\ f.proc = "map" /\ f.pc = "ctor" /\ lstatus = "ok"
  /\ lmaps' = [lmaps EXCEPT ![f.m].ctor = f.got.v]
  /\ AfterExit(f)
  /\ UNCHANGED <<input, lstatus, lreason, lfault, loaded>>

LMapProto ==
  LET f == LTop IN
  /\ f.proc = "map" /\ f.pc = "proto" /\ lstatus = "ok"
  /\ lmaps' = [lmaps EXCEPT ![f.m].proto = f.got]
  /\ AfterExit(f)
  /\ UNCHANGED <<input, lstatus, lreason, lfault, loaded>>

(* MapLoader::LoadMap returns an empty handle when a value, constructor   *)
(* or prototype failed, and LChunkLoaderBase::LoadMap then calls          *)
(* Fail("deduplication failed").                                          *)
LMapAbort ==
  LET f == LTop IN
  /\ f.proc = "map" /\ f.pc \in {"value", "ctor", "proto"} /\ lstatus = "failed"
  /\ LFail("deduplication failed")
  /\ LReturn(NullH)
  /\ UNCHANGED <<input, pos, lfault, lmaps>>

(* LoadJSObject: LoadMap, then the elements and the properties array,     *)
(* each followed by RETURN_VALUE_ON_FAIL; LoadFixedArrayData stores an    *)
(* empty handle as nullptr, which is Smi 0.                               *)
LObjMap ==
  LET f == LTop IN
  /\ f.proc = "obj" /\ f.pc = "map"
  /\ lstack' = Append(LWithTop([f EXCEPT !.pc = "elements"]), LFrame("map", "root"))
  /\ UNCHANGED <<input, pos, lstatus, lreason, lfault, lmaps, loaded>>

LObjElements ==
  LET f == LTop IN
  /\ f.proc = "obj" /\ f.pc = "elements"
  /\ IF lstatus # "ok"
     THEN LReturn(NullH) /\ UNCHANGED pos
     ELSE /\ pos' = pos + 2
          /\ lstack' = LWithTop([f EXCEPT !.m = f.got.v, !.len = Read(1).v, !.i = 0,
                                          !.fields = <<>>, !.pc = "props"])
          /\ UNCHANGED loaded
  /\ UNCHANGED <<input, lstatus, lreason, lfault, lmaps>>

LObjProps ==
  LET f == LTop IN
  /\ f.proc = "obj" /\ f.pc = "props"
  /\ IF f.i = f.len
     THEN LReturn(Object(f.m, f.fields)) /\ UNCHANGED <<pos, lstatus, lreason>>
     ELSE LoadObject(pos, [f EXCEPT !.pc = "item"]) /\ UNCHANGED loaded
  /\ UNCHANGED <<input, lfault, lmaps>>

LObjItem ==
  LET f == LTop IN
  /\ f.proc = "obj" /\ f.pc = "item"
  /\ IF lstatus # "ok"
     THEN LReturn(NullH)
     ELSE /\ lstack' = LWithTop([f EXCEPT !.fields = Append(f.fields,
                                            IF IsNull(f.got) THEN Prim("smi0") ELSE f.got),
                                         !.i = f.i + 1, !.pc = "props"])
          /\ UNCHANGED loaded
  /\ UNCHANGED <<input, pos, lstatus, lreason, lfault, lmaps>>

\* A top-level LoadObject of the next saved JS object.
LStart ==
  /\ lstack = <<>> /\ lstatus = "ok" /\ pos <= Len(input)
  /\ Read(0).t = "heap" /\ Read(1) = [t |-> "type", v |-> "JS_OBJECT"]
  /\ pos' = pos + 2
  /\ lstack' = <<LFrame("obj", "map")>>
  /\ UNCHANGED <<input, lstatus, lreason, lfault, lmaps, loaded>>

LInit(s) ==
  /\ input = s /\ pos = 1 /\ lstack = <<>> /\ lstatus = "ok" /\ lreason = "none"
  /\ lfault = "none" /\ lmaps = InitialMaps /\ loaded = <<>>

LNext ==
  /\ lfault = "none"
  /\ \/ LStart
     \/ lstack # <<>> /\
          \/ LMapRoot \/ LMapCopy \/ LMapSpecial \/ LMapProperty \/ LMapDone
          \/ LMapValues \/ LMapValue \/ LMapCtor \/ LMapProto \/ LMapAbort
          \/ LObjMap \/ LObjElements \/ LObjProps \/ LObjItem

\* The loader has stopped: it read everything, failed, or died.
LDone == lfault # "none" \/ (lstack = <<>> /\ (pos > Len(input) \/ lstatus = "failed"))
=============================================================================
