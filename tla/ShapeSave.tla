----------------------------- MODULE ShapeSave -----------------------------
(***************************************************************************)
(* The saving half of the shape (hidden-class) codec: MapSaver and the     *)
(* object savers it recurses through (src/src/lithium-saveload.cc).        *)
(*                                                                         *)
(* A map is saved as the chain of maps from its root, walked down through  *)
(* the back pointers.  Every map of the chain is put on map_cache_ when it *)
(* is entered and taken off when it is exited; exiting saves the values of *)
(* its descriptors and its constructor or prototype, which may save other  *)
(* objects and so other maps.  A map chain that meets a map still on the   *)
(* cache is rejected as cyclic.  The C++ recursion is an explicit stack of *)
(* frames; a frame's pc is the point of its function the model is at.     *)
(***************************************************************************)
EXTENDS Naturals, Sequences, SequencesExt

CONSTANTS
  Maps, NoMap,        \* the maps of the heap; NoMap ends a back-pointer chain
  Parent,             \* Parent[m]: the back pointer of m, or NoMap for a root
  OwnKeys,            \* OwnKeys[m]: keys of the NumberOfOwnDescriptors of m
  TransitionKey,      \* key of the transition Parent[m] -> m found by search
  Specials,           \* special transition keys (private symbols)
  NotFound,           \* TransitionArray::kNotFound / Heap::kNotFound
  StableRoots,        \* root maps that are in the heap's stable root list
  Objs, MapOf,        \* plain JS objects and their maps
  Fns, FnSave,        \* functions, and what SaveJSFunction makes of each
  NoFn,               \* a map whose constructor is not a matching JSFunction
  Constructor,        \* Constructor[m] \in Fns \cup {NoFn}
  Heaps,              \* the heaps the saver may be given (values, fields, protos)
  MaxSaves,           \* bound on the number of top-level saves
  MaxDepth            \* the deepest the saver's recursion may go

\* Non-heap values: Smi 0 (the null pointer), another Smi, the null oddball.
Prims == {"smi0", "smi1", "null"}
Vals == Prims \cup Objs \cup Fns
Reasons == {"none", "cyclic map chains", "refs to inner JSFs",
            "could not save a JSF"}

ASSUME /\ \A m \in Maps : Parent[m] \in Maps \cup {NoMap}
       /\ \A f \in Fns : FnSave[f] \in {"ok", "inner", "unsavable"}
       /\ \A m \in Maps : Constructor[m] \in Fns \cup {NoFn}
       /\ MaxSaves \in Nat

Nod(m) == Len(OwnKeys[m])

\* CreateMapChain: the map and its back pointers, leaf first, root last.
RECURSIVE ChainOf(_)
ChainOf(m) == IF Parent[m] = NoMap THEN <<m>> ELSE <<m>> \o ChainOf(Parent[m])

VARIABLES
  heap,     \* the object graph being saved: never changes
  stack,    \* the saver's call stack of frames, innermost last
  cache,    \* LChunkSaverBase::map_cache_
  stream,   \* the byte stream, as a sequence of tokens
  status,   \* LChunkSaveloadBase::status_
  reason,   \* LChunkSaveloadBase::reason_
  crashed,  \* UNIMPLEMENTED() was reached: the process is gone
  saves,    \* top-level saves started
  saved     \* the objects of the top-level saves, in order

vars == <<heap, stack, cache, stream, status, reason, crashed, saves, saved>>

Tok(t, v) == [t |-> t, v |-> v]
ObjFrame(o) == [proc |-> "obj", subj |-> o, chain |-> <<>>, k |-> 0, i |-> 0,
                pc |-> "map"]
MapFrame(m) == [proc |-> "map", subj |-> m, chain |-> ChainOf(m), k |-> 0,
                i |-> 0, pc |-> "chain"]
Top == stack[Len(stack)]
\* The stack with its top frame replaced, and with it popped.
WithTop(f) == [stack EXCEPT ![Len(stack)] = f]
Return == stack' = Front(stack)

\* Faulty variant of Fail: a failure that forgets to record its reason.
FailWithoutReason(r) == status' = "failed" /\ UNCHANGED reason
\* LChunkSaveloadBase::Fail: overwrites status and reason unconditionally.
Fail(r) == status' = "failed" /\ reason' = r

(* SaveJSFunction, its strategies abstracted to their outcome FnSave[f]:  *)
(* a reference the loader can resolve, or one of its two failures.       *)
SaveJSFunction(out, f, caller) ==
  /\ stack' = WithTop(caller)
  /\ CASE FnSave[f] = "ok" ->
            stream' = Append(out, Tok("fn", f)) /\ UNCHANGED <<status, reason>>
       [] FnSave[f] = "inner" ->
            Fail("refs to inner JSFs") /\ stream' = out
       [] FnSave[f] = "unsavable" ->
            Fail("could not save a JSF") /\ stream' = out

(* SaveHeapObject: the instance type, then the saver of that type: the   *)
(* null oddball by its kind, a JS object by a SaveJSObject frame, a       *)
(* function by SaveJSFunction.                                            *)
SaveHeapObject(out, v, caller) ==
  CASE v = "null" -> /\ stream' = out \o <<Tok("type", "ODDBALL"), Tok("oddball", "null")>>
                     /\ stack' = WithTop(caller) /\ UNCHANGED <<status, reason>>
    [] v \in Objs -> /\ stream' = Append(out, Tok("type", "JS_OBJECT"))
                     /\ stack' = Append(WithTop(caller), ObjFrame(v))
                     /\ UNCHANGED <<status, reason>>
    [] v \in Fns -> SaveJSFunction(Append(out, Tok("type", "JS_FUNCTION")), v, caller)

(* SaveObject, writing after `out` on behalf of the top frame, which then *)
(* continues as `caller`.  Smi 0 is the null pointer, so `!object` holds *)
(* and it is saved as NULL_TYPE; another Smi is saved by its value.       *)
SaveObject(out, v, caller) ==
  CASE v = "smi0" -> /\ stream' = Append(out, Tok("null", 0))
                     /\ stack' = WithTop(caller) /\ UNCHANGED <<status, reason>>
    [] v = "smi1" -> /\ stream' = Append(out, Tok("smi", 1))
                     /\ stack' = WithTop(caller) /\ UNCHANGED <<status, reason>>
    [] OTHER -> SaveHeapObject(Append(out, Tok("heap", 0)), v, caller)

(* SavePropertiesOnEnter: the integer properties (abstracted to the map   *)
(* they belong to) and the keys of the own descriptors.                  *)
EnterTok(m) == Tok("enter", [layout |-> m, keys |-> OwnKeys[m]])

(* MapSaver::CreateMapChain and the root part of MapSaver::SaveMap.  A    *)
(* chain that meets a map on the cache fails; a stable root is saved by   *)
(* its index, another root is entered and exited like any map.           *)
\* Faulty variant of the cycle check: only the leaf map is looked up.
MeetsCacheLeafOnly(ch) == ch[1] \in ToSet(cache)
\* Whether some map of the chain is on map_cache_.
MeetsCache(ch) == \E j \in 1..Len(ch) : ch[j] \in ToSet(cache)

MapChain ==
  LET f == Top  ch == f.chain  root == Last(ch) IN
  /\ f.proc = "map" /\ f.pc = "chain"
  /\ IF MeetsCache(ch)
     THEN Fail("cyclic map chains") /\ Return /\ UNCHANGED <<cache, stream>>
     ELSE /\ UNCHANGED <<status, reason>>
          /\ IF root \in StableRoots
             THEN /\ stream' = stream \o <<Tok("root", root), Tok("int", Len(ch) - 1)>>
                  /\ UNCHANGED cache
                  /\ IF Len(ch) = 1 THEN Return
                     ELSE stack' = WithTop([f EXCEPT !.k = Len(ch) - 1, !.pc = "enter"])
             ELSE /\ cache' = Append(cache, root)
                  /\ stream' = stream \o <<Tok("root", NotFound), EnterTok(root)>>
                  /\ stack' = WithTop([f EXCEPT !.k = Len(ch), !.i = 1, !.pc = "values"])
  /\ UNCHANGED <<heap, crashed, saves, saved>>

\* The key of the transition parent -> m that MapSaver::SaveMap looks up.
StepKey(m, p) ==
  IF Nod(p) + 1 = Nod(m) THEN OwnKeys[m][Nod(p) + 1] ELSE TransitionKey[m]
\* DescriptorArray::Search, as a 0-based index.
DescriptorIndex(m, key) == (CHOOSE j \in 1..Nod(m) : OwnKeys[m][j] = key) - 1

(* One turn of the loop of MapSaver::SaveMap: the status check, EnterMap, *)
(* then the selector that tells the loader how the map was made: a copy  *)
(* without descriptors, a special transition by its key, or a property   *)
(* transition by the index of its descriptor.                            *)
MapEnter ==
  LET f == Top  m == f.chain[f.k]  p == f.chain[f.k + 1]  key == StepKey(m, p) IN
  /\ f.proc = "map" /\ f.pc = "enter"
  /\ IF status # "ok"
     THEN Return /\ UNCHANGED <<cache, stream>>
     ELSE /\ Nod(m) > 0 => key # NotFound
          /\ cache' = Append(cache, m)
          /\ stream' = Append(stream, EnterTok(m)) \o
               CASE Nod(m) = 0 -> <<Tok("bool", TRUE)>>
                 [] key \in Specials ->
                      <<Tok("bool", FALSE), Tok("bool", TRUE), Tok("name", key)>>
                 [] OTHER ->
                      <<Tok("bool", FALSE), Tok("bool", FALSE),
                        Tok("int", DescriptorIndex(m, key))>>
          /\ stack' = WithTop([f EXCEPT !.i = 1, !.pc = "values"])
  /\ UNCHANGED <<heap, status, reason, crashed, saves, saved>>

(* The same turn when the transition to the map has been overwritten and *)
(* SearchTransitionForTarget finds nothing: UNIMPLEMENTED() ends the run. *)
MapEnterLost ==
  LET f == Top  m == f.chain[f.k]  p == f.chain[f.k + 1] IN
  /\ f.proc = "map" /\ f.pc = "enter" /\ status = "ok"
  /\ Nod(m) > 0 /\ StepKey(m, p) = NotFound
  /\ cache' = Append(cache, m)
  /\ crashed' = TRUE
  /\ UNCHANGED <<heap, stack, stream, status, reason, saves, saved>>

(* SavePropertiesOnExit: the descriptor values one per step, with no      *)
(* status check between them; then the constructor when it is a function *)
(* whose prototype is the map's, else the prototype itself.              *)
MapValues ==
  LET f == Top  m == f.chain[f.k]  ctor == Constructor[m] IN
  /\ f.proc = "map" /\ f.pc = "values"
  /\ IF f.i <= Nod(m)
     THEN SaveObject(stream, heap.descVal[OwnKeys[m][f.i]], [f EXCEPT !.i = f.i + 1])
     ELSE IF ctor # NoFn
          THEN SaveJSFunction(Append(stream, Tok("bool", TRUE)), ctor,
                              [f EXCEPT !.pc = "exit"])
          ELSE SaveObject(Append(stream, Tok("bool", FALSE)), heap.proto[m],
                          [f EXCEPT !.pc = "exit"])
  /\ UNCHANGED <<heap, cache, crashed, saves, saved>>

(* The rest of ExitMap: map_cache_.RemoveLast(); then the loop goes on    *)
(* with the next map down the chain.  After the root, the number of       *)
(* transitions is written.                                                *)
\* Faulty variant of MapExit: the map stays cached when its exit failed.
MapExitKeepsFailed ==
  LET f == Top  ch == f.chain IN
  /\ f.proc = "map" /\ f.pc = "exit"
  /\ cache' = IF status = "ok" THEN Front(cache) ELSE cache
  /\ stream' = IF f.k = Len(ch) THEN Append(stream, Tok("int", Len(ch) - 1))
               ELSE stream
  /\ IF f.k = 1 THEN Return
     ELSE stack' = WithTop([f EXCEPT !.k = f.k - 1, !.pc = "enter"])
  /\ UNCHANGED <<heap, status, reason, crashed, saves, saved>>

MapExit ==
  LET f == Top  ch == f.chain IN
  /\ f.proc = "map" /\ f.pc = "exit"
  /\ cache' = Front(cache)
  /\ stream' = IF f.k = Len(ch) THEN Append(stream, Tok("int", Len(ch) - 1))
               ELSE stream
  /\ IF f.k = 1 THEN Return
     ELSE stack' = WithTop([f EXCEPT !.k = f.k - 1, !.pc = "enter"])
  /\ UNCHANGED <<heap, status, reason, crashed, saves, saved>>

(* SaveJSObject: RETURN_ON_FAIL(SaveMap(map)), then the elements (always  *)
(* empty here) and the length of the properties array, then               *)
(* SaveFixedArrayData, which returns on the first failed item.            *)
ObjMap ==
  LET f == Top IN
  /\ f.proc = "obj" /\ f.pc = "map"
  /\ stack' = Append(WithTop([f EXCEPT !.pc = "elements"]), MapFrame(MapOf[f.subj]))
  /\ UNCHANGED <<heap, cache, stream, status, reason, crashed, saves, saved>>

ObjElements ==
  LET f == Top IN
  /\ f.proc = "obj" /\ f.pc = "elements"
  /\ IF status # "ok"
     THEN Return /\ UNCHANGED stream
     ELSE /\ stream' = stream \o <<Tok("elements", 0),
                                  Tok("int", Len(heap.fields[f.subj]))>>
          /\ stack' = WithTop([f EXCEPT !.i = 1, !.pc = "props"])
  /\ UNCHANGED <<heap, cache, status, reason, crashed, saves, saved>>

ObjProps ==
  LET f == Top  items == heap.fields[f.subj] IN
  /\ f.proc = "obj" /\ f.pc = "props"
  /\ IF status # "ok" \/ f.i > Len(items)
     THEN Return /\ UNCHANGED <<stream, status, reason>>
     ELSE SaveObject(stream, items[f.i], [f EXCEPT !.i = f.i + 1])
  /\ UNCHANGED <<heap, cache, crashed, saves, saved>>

(* A top-level SaveObject of a JS object, as LChunkSaver::SaveConstants   *)
(* issues them, one after another while the status is SUCCEEDED.         *)
StartSave ==
  /\ stack = <<>> /\ status = "ok" /\ saves < MaxSaves
  /\ \E o \in Objs :
       /\ stack' = <<ObjFrame(o)>>
       /\ stream' = stream \o <<Tok("heap", 0), Tok("type", "JS_OBJECT")>>
       /\ saved' = Append(saved, o)
  /\ saves' = saves + 1
  /\ UNCHANGED <<heap, cache, status, reason, crashed>>

\* The saver stops: the last save returned, a save failed, or it crashed.
Finished ==
  /\ crashed \/ (stack = <<>> /\ (status = "failed" \/ saves = MaxSaves))
  /\ UNCHANGED vars

Init ==
  /\ heap \in Heaps
  /\ stack = <<>> /\ cache = <<>> /\ stream = <<>>
  /\ status = "ok" /\ reason = "none" /\ crashed = FALSE /\ saves = 0
  /\ saved = <<>>

Next ==
  \/ ~crashed /\ StartSave
  \/ ~crashed /\ stack # <<>> /\
       \/ MapChain \/ MapEnter \/ MapEnterLost \/ MapValues \/ MapExit
       \/ ObjMap \/ ObjElements \/ ObjProps
  \/ Finished

Spec == Init /\ [][Next]_vars

-----------------------------------------------------------------------------
Frames == [proc : {"obj", "map"}, subj : Objs \cup Maps, chain : Seq(Maps),
           k : Nat, i : Nat, pc : {"map", "elements", "props", "chain",
                                   "enter", "values", "exit"}]
TypeOK ==
  /\ stack \in Seq(Frames) /\ cache \in Seq(Maps)
  /\ status \in {"ok", "failed"} /\ reason \in Reasons
  /\ crashed \in BOOLEAN /\ saves \in 0..MaxSaves
  /\ (status = "ok") <=> (reason = "none")

\* The maps that are entered and not yet exited, outermost first.
OpenMaps ==
  LET open == SelectSeq(stack, LAMBDA f : f.proc = "map" /\ f.pc \in {"values", "exit"})
  IN [j \in 1..Len(open) |-> open[j].chain[open[j].k]]

(* map_cache_ is exactly the stack of maps whose EnterMap has run and     *)
(* whose ExitMap has not, whatever failed in between: the cycle check of  *)
(* CreateMapChain, and every later save of the same saver, rely on it.    *)
CacheIsOpenMaps == ~crashed => cache = OpenMaps

(* Fail() keeps the reason of the first failure: the spec says a failed   *)
(* save or load reports its first reason, and every later step is a no-op.*)
FirstFailureReasonKept == [][status = "failed" => reason' = reason]_vars

(* A save terminates: its recursion, through descriptor values,          *)
(* prototypes and property fields, stays within MaxDepth frames.  The    *)
(* cycle check of CreateMapChain is what stops a map whose exit saves an *)
(* object of that map, or of a map below it, from recursing forever.     *)
SaveRecursionBounded == Len(stack) <= MaxDepth
=============================================================================
