----------------------------- MODULE ShapeCodec -----------------------------
(***************************************************************************)
(* The shape codec end to end: ShapeSave writes a stream of top-level     *)
(* objects; when every save succeeded the stream is handed to ShapeLoad,  *)
(* which rebuilds the objects in a fresh heap that has the same stable    *)
(* roots.  The round trip is judged by denotations: what an object is,    *)
(* written out through its map chain, descriptor values, constructor or   *)
(* prototype and property fields, on the saving and the loading side.     *)
(***************************************************************************)
EXTENDS ShapeSave

CONSTANT FnLoad

VARIABLES input, pos, lstack, lstatus, lreason, lfault, lmaps, loaded,
          phase   \* "save", then "load" once the saved code is loaded
L == INSTANCE ShapeLoad

lvars == <<input, pos, lstack, lstatus, lreason, lfault, lmaps, loaded>>
cvars == <<vars, lvars, phase>>

(* What a source value is.  A stable root stands for itself; any other    *)
(* map is its layout, keys, how it is reached from its parent, the values *)
(* of its descriptors and its constructor or prototype.                   *)
StepOf(m) ==
  IF Parent[m] = NoMap THEN "root"
  ELSE IF Nod(m) = 0 THEN "copy" ELSE StepKey(m, Parent[m])
RECURSIVE Den(_), MapDen(_)
Den(v) ==
  IF v \in Objs
  THEN [obj |-> TRUE,
        v |-> [map |-> MapDen(MapOf[v]),
               fields |-> [j \in DOMAIN heap.fields[v] |-> Den(heap.fields[v][j])]]]
  ELSE [obj |-> FALSE, v |-> v]
MapDen(m) ==
  IF m \in StableRoots THEN [root |-> m]
  ELSE [layout |-> m, keys |-> OwnKeys[m], via |-> StepOf(m),
        parent |-> IF Parent[m] = NoMap THEN <<>> ELSE <<MapDen(Parent[m])>>,
        vals |-> [j \in 1..Nod(m) |-> Den(heap.descVal[OwnKeys[m][j]])],
        proto |-> IF Constructor[m] # NoFn THEN [ctor |-> Constructor[m]]
                  ELSE [proto |-> Den(heap.proto[m])]]

\* The same for a loaded value, read off the loading heap.
RECURSIVE LDen(_), LMapDen(_)
LDen(x) ==
  IF x.obj
  THEN [obj |-> TRUE,
        v |-> [map |-> LMapDen(x.v.map),
               fields |-> [j \in DOMAIN x.v.fields |-> LDen(x.v.fields[j])]]]
  ELSE x
LMapDen(id) ==
  LET r == lmaps[id] IN
  IF r.via = "stable" THEN [root |-> r.layout]
  ELSE [layout |-> r.layout, keys |-> r.keys, via |-> r.via,
        parent |-> IF r.parent = 0 THEN <<>> ELSE <<LMapDen(r.parent)>>,
        vals |-> [j \in DOMAIN r.vals |-> LDen(r.vals[j])],
        proto |-> IF r.ctor # "none" THEN [ctor |-> r.ctor] ELSE [proto |-> LDen(r.proto)]]

CInit == Init /\ L!LInit(<<>>) /\ phase = "save"

SaveStep == phase = "save" /\ Next /\ UNCHANGED <<lvars, phase>>

(* The code is kept, and later loaded, only when every save succeeded.    *)
Handover ==
  /\ phase = "save" /\ stack = <<>> /\ ~crashed /\ status = "ok" /\ saves > 0
  /\ phase' = "load" /\ input' = stream
  /\ UNCHANGED <<vars, pos, lstack, lstatus, lreason, lfault, lmaps, loaded>>

LoadStep == phase = "load" /\ L!LNext /\ UNCHANGED <<vars, phase>>

LoadFinished == phase = "load" /\ L!LDone /\ UNCHANGED cvars

CNext == SaveStep \/ Handover \/ LoadStep \/ LoadFinished

CSpec == CInit /\ [][CNext]_cvars

-----------------------------------------------------------------------------
LoadSucceeded == phase = "load" /\ L!LDone /\ lstatus = "ok" /\ lfault = "none"

(* Round trip: when the saver accepted every object and the loader read   *)
(* the whole stream without failing, the loader produced one value per    *)
(* saved object, each the same as the saved object: same map chain, the  *)
(* same step to each map, the same descriptor values, constructor or      *)
(* prototype, and the same property fields.                               *)
RoundTrip ==
  LoadSucceeded =>
    /\ Len(loaded) = Len(saved)
    /\ \A j \in 1..Len(saved) : LDen(loaded[j]) = Den(saved[j])

(* The loader never dereferences an empty handle: every value the saver  *)
(* writes loads to a value, Smi 0 included.                              *)
NoNullDereference == lfault # "null dereference"

(* Fail() on the loading side keeps the first reason as well.            *)
LoadFirstFailureReasonKept == [][lstatus = "failed" => lreason' = lreason]_cvars

(* Poison propagation, as the spec states it for both directions: once   *)
(* an operation on a stream has failed, the call reports the reason of    *)
(* that first failure, not of a later one.  Fail() of the SaveLoad base  *)
(* class overwrites reason_ unconditionally, so this holds only when no  *)
(* caller reaches a second Fail() on an already failed stream.            *)
PoisonPropagation == FirstFailureReasonKept /\ LoadFirstFailureReasonKept
=============================================================================
