--------------------------- MODULE FunctionResolver ---------------------------
(***************************************************************************)
(* The function reference resolver of lithium-saveload.cc:                *)
(* LChunkSaverBase::SaveJSFunction / SaveSharedFunctionInfo and           *)
(* LChunkLoaderBase::LoadJSFunction / LoadSharedFunctionInfo. The saver   *)
(* saves the references refs one per step, in the source process heap,    *)
(* and its callers stop at the first failure (RETURN_ON_FAIL); the loader *)
(* loads the saved keys one per step in the fresh process lheap. A key is *)
(* a FunctionRelocationType with its payload; "of" is a ghost field that  *)
(* names the object saved. The heap fields are those of FunctionKeys;     *)
(* two more are read by the loader: ids[k], the function                  *)
(* ResolveBuiltinFunction gives for BuiltinFunctionId k, and builtins,    *)
(* the constant cells of js_builtins_object by name; current is the       *)
(* SharedFunctionInfo of the function being compiled (info()).            *)
(***************************************************************************)
EXTENDS Naturals, Sequences, SequencesExt

CONSTANTS
  Fns, Sfis, Other, NotInContext, NoName, NIds,
  NoSfi,        \* no outer SharedFunctionInfo: the root of a script's tree
  Undef,        \* an inner_infos entry still undefined (not compiled)
  Envs,         \* [save |-> heap, load |-> heap, refs |-> set of sequences]
  DebugBuild    \* whether DCHECKs are compiled in

VARIABLES
  heap, lheap, refs,
  out,          \* the keys written
  si,           \* the next reference to save
  wst, why,     \* the saver's status register
  li,           \* the next key to load
  loaded,       \* the objects the loader returned
  rst, rwhy,    \* the loader's status register
  fault         \* a failed DCHECK or CHECK, or a read the code does not guard

vars == <<heap, lheap, refs, out, si, wst, why, li, loaded, rst, rwhy, fault>>

Abstract == INSTANCE FunctionKeys
  WITH keys <- [i \in DOMAIN out |-> [by |-> IF out[i].tag = "prototype" THEN "constructor"
                                             ELSE out[i].tag,
                                      of |-> out[i].of]],
       sst <- wst, lst <- rst

Space == Abstract!Space
IdentChars == Abstract!IdentChars
FunctionWord == Abstract!FunctionWord

Key(tag, arg, of) == [tag |-> tag, arg |-> arg, of |-> of]

(* An operation's outcome: the key or the value, the failure reason      *)
(* ("" for none), the fault ("none" for none).                            *)
Ok(v) == [val |-> v, why |-> "", fault |-> "none"]
Failed(reason) == [val |-> Other, why |-> reason, fault |-> "none"]
Fault(f) == [val |-> Other, why |-> "", fault |-> f]

(* HasIndexedBuiltinFunctionId.                                           *)
HasIndexedBuiltinFunctionId(h, s) == h.sfi[s].id \in 1..NIds

-----------------------------------------------------------------------------
(* SaveSharedFunctionInfo: a native one by builtin id (a DCHECK that it   *)
(* has one); else the index of each info among its parent's inner_infos, *)
(* the first with its start position, from the leaf up, written root     *)
(* first. Each entry compared is cast to a SharedFunctionInfo.            *)

RECURSIVE ChildIndex(_, _, _, _)
ChildIndex(h, inner, start, i) ==
  CASE i > Len(inner)                  -> -1
    [] inner[i] = Undef                -> -2
    [] h.sfi[inner[i]].start = start   -> i - 1
    [] OTHER                           -> ChildIndex(h, inner, start, i + 1)

(* The path from the leaf up, or a fault.                                 *)
RECURSIVE PathUp(_, _, _)
PathUp(h, s, path) ==
  LET p == h.sfi[s].outer
      i == ChildIndex(h, h.sfi[p].inner, h.sfi[s].start, 1)
  IN  CASE p = NoSfi              -> Ok(path)
        [] i = -2                 -> Fault("cast of undefined")
        [] i = -1 /\ DebugBuild   -> Fault("path length check")
        [] i = -1                 -> PathUp(h, p, path)
        [] OTHER                  -> PathUp(h, p, Append(path, i))

SavePathForward(h, s) ==
  LET up == PathUp(h, s, <<>>)
  IN  IF up.fault # "none" THEN up ELSE Ok(Key("path", up.val, s))

SavePath(h, s) ==
  LET up == PathUp(h, s, <<>>)
  IN  IF up.fault # "none" THEN up ELSE Ok(Key("path", Reverse(up.val), s))

SaveSharedFunctionInfo(h, s) ==
  CASE h.sfi[s].native /\ DebugBuild /\ ~HasIndexedBuiltinFunctionId(h, s) ->
         Fault("indexed builtin id check")
    [] h.sfi[s].native -> Ok(Key("builtin", h.sfi[s].id, s))
    [] OTHER           -> SavePath(h, s)

-----------------------------------------------------------------------------
(* SaveJSFunction.                                                         *)

(* By name: Context::Lookup through the compiled closure's chain; a       *)
(* context slot must hold the function itself, and only a name found in  *)
(* no context is tried on the global object.                              *)
SaveByName(h, f) ==
  LET n == h.sfi[h.fn[f].shared].name
  IN  CASE n = NoName                                  -> Other
        [] h.scope[n] = f                              -> Key("scope", n, f)
        [] h.scope[n] = NotInContext /\ h.global[n] = f -> Key("global", n, f)
        [] OTHER                                       -> Other

(* The first descriptor index of a list holding a function that shares   *)
(* s, or -1.                                                               *)
DescriptorIndex(h, ds, s) ==
  LET is == {i \in DOMAIN ds : ds[i] \in Fns /\ h.fn[ds[i]].shared = s}
  IN  IF is = {} THEN -1 ELSE Min(is) - 1

(* The global dictionary scan: keys that are holes, symbols or deleted,  *)
(* and entries that are not functions, are skipped; a constructor's      *)
(* instance descriptors come before its prototype's.                      *)
RECURSIVE ScanGlobalConstructors(_, _, _)
ScanGlobalConstructors(h, f, k) ==
  LET e    == h.dict[k]
      c    == h.global[e.key]
      inst == DescriptorIndex(h, h.desc[c].inst, h.fn[f].shared)
      prot == DescriptorIndex(h, h.desc[c].proto, h.fn[f].shared)
  IN  CASE k > Len(h.dict) -> Other
        [] e.key \notin DOMAIN h.global \/ e.deleted \/ c \notin Fns ->
             ScanGlobalConstructors(h, f, k + 1)
        [] inst >= 0 -> Key("constructor", <<e.key, inst>>, f)
        [] prot >= 0 -> Key("prototype", <<e.key, prot>>, f)
        [] OTHER     -> ScanGlobalConstructors(h, f, k + 1)

(* The backward scan from offset e over characters of S: the offset     *)
(* where it stops, or -1 when it reads source->Get(-1).                   *)
RECURSIVE ScanBack(_, _, _)
ScanBack(src, e, S) ==
  CASE e = 0            -> -1
    [] src[e] \in S     -> ScanBack(src, e - 1, S)
    [] OTHER            -> e

(* The original name: skip whitespace back from the start position, then *)
(* take the identifier characters before it; "function" is anonymous.     *)
SaveOriginalName(h, f) ==
  LET s   == h.sfi[h.fn[f].shared]
      src == h.source[s.script]
      e   == ScanBack(src, s.start, Space)
      b   == ScanBack(src, e, IdentChars)
      id  == SubSeq(src, b + 1, e)
  IN  CASE e = -1 \/ b = -1     -> Fault("source read before start")
        [] id = FunctionWord    -> Failed("could not save a JSF")
        [] OTHER                -> Ok(Key("original name", id, f))

SaveJSFunction(h, f) ==
  LET s == h.fn[f].shared
      byName == SaveByName(h, f)
      byCtor == ScanGlobalConstructors(h, f, 1)
  IN  CASE HasIndexedBuiltinFunctionId(h, s) -> Ok(Key("builtin", h.sfi[s].id, f))
        [] byName # Other -> Ok(byName)
        [] ~h.sfi[s].native /\ ~h.fn[f].builtin /\ h.fn[f].inner -> Failed("refs to inner JSFs")
        [] ~h.sfi[s].native /\ ~h.fn[f].builtin -> Ok(Key("start", h.sfi[s].start, f))
        [] byCtor # Other -> Ok(byCtor)
        [] OTHER -> SaveOriginalName(h, f)

-----------------------------------------------------------------------------
(* The loader, in the fresh process lh.                                   *)

(* LoadSharedFunctionInfo: a builtin id is resolved (UNREACHABLE for one *)
(* out of the list); a path is walked down from the root of the compiled *)
(* function's own tree, failing at an entry not compiled yet.             *)
RECURSIVE Root(_, _)
Root(h, s) == IF h.sfi[s].outer = NoSfi THEN s ELSE Root(h, h.sfi[s].outer)

RECURSIVE WalkDownUnchecked(_, _, _)
WalkDownUnchecked(h, s, path) ==
  CASE path = <<>>                            -> Ok(s)
    [] Head(path) >= Len(h.sfi[s].inner)     -> Fault("path index check")
    [] h.sfi[s].inner[Head(path) + 1] = Undef -> Fault("cast of undefined")
    [] OTHER -> WalkDownUnchecked(h, h.sfi[s].inner[Head(path) + 1], Tail(path))

RECURSIVE WalkDown(_, _, _)
WalkDown(h, s, path) ==
  CASE path = <<>>                            -> Ok(s)
    [] Head(path) >= Len(h.sfi[s].inner)     -> Fault("path index check")
    [] h.sfi[s].inner[Head(path) + 1] = Undef ->
         Failed("could not reach SharedFunctionInfo - may not be compiled yet")
    [] OTHER -> WalkDown(h, h.sfi[s].inner[Head(path) + 1], Tail(path))

LoadSharedFunctionInfo(h, k) ==
  CASE k.tag = "builtin" /\ k.arg \in 1..NIds -> Ok(h.fn[h.ids[k.arg]].shared)
    [] k.tag = "builtin"                      -> Fault("unreachable")
    [] OTHER                                  -> WalkDown(h, Root(h, h.current), k.arg)

(* GetJSFunctionByStartPosition (an Isolate method outside this source   *)
(* tree): a top-level ordinary function of the process at that start      *)
(* position.                                                               *)
ByStartPosition(h, pos) ==
  {g \in h.live : LET s == h.sfi[h.fn[g].shared]
               IN  s.start = pos /\ ~s.native /\ ~h.fn[g].builtin /\ ~h.fn[g].inner}

LoadByStartPositionNoFail(h, pos) ==
  Ok(IF ByStartPosition(h, pos) = {} THEN Other ELSE CHOOSE g \in ByStartPosition(h, pos) : TRUE)

(* kByStartPosition: a null handle is a failure.                         *)
LoadByStartPosition(h, pos) ==
  IF ByStartPosition(h, pos) = {}
  THEN Failed("function not found by start position")
  ELSE Ok(CHOOSE g \in ByStartPosition(h, pos) : TRUE)

(* The function a DCHECK or a cast requires, or a fault.                  *)
AsFunction(v, check) == IF v \in Fns THEN Ok(v) ELSE Fault(check)

LoadJSFunction(h, k) ==
  LET ctor == h.global[k.arg[1]]
      ds   == IF k.tag = "constructor" THEN h.desc[ctor].inst ELSE h.desc[ctor].proto
  IN  CASE k.tag = "scope"  -> AsFunction(h.scope[k.arg], "context slot check")
        [] k.tag = "global" -> AsFunction(h.global[k.arg], "global property check")
        [] k.tag = "start"  -> LoadByStartPosition(h, k.arg)
        [] k.tag = "builtin" -> Ok(h.ids[k.arg])
        [] k.tag \in {"constructor", "prototype"} ->
             IF k.arg[2] >= Len(ds) THEN Fault("descriptor index check")
             ELSE AsFunction(ds[k.arg[2] + 1], "descriptor cast")
        [] OTHER ->
             IF k.arg \in DOMAIN h.builtins THEN Ok(h.builtins[k.arg])
             ELSE Fault("builtins property cell")

-----------------------------------------------------------------------------
(* The saver and the loader, one reference per step.                      *)

SaveRef(h, ref) ==
  IF ref.kind = "fn" THEN SaveJSFunction(h, ref.x) ELSE SaveSharedFunctionInfo(h, ref.x)

LoadRef(h, k, kind) ==
  IF kind = "fn" THEN LoadJSFunction(h, k) ELSE LoadSharedFunctionInfo(h, k)

Init ==
  /\ \E e \in Envs : heap = e.save /\ lheap = e.load /\ refs \in e.refs
  /\ out = <<>> /\ si = 1 /\ wst = "ok" /\ why = ""
  /\ li = 1 /\ loaded = <<>> /\ rst = "ok" /\ rwhy = "" /\ fault = "none"

(* Save one reference; Fail records the reason and the caller returns.   *)
SaveStep ==
  /\ fault = "none" /\ wst = "ok" /\ si <= Len(refs)
  /\ LET res == SaveRef(heap, refs[si])
     IN  /\ fault' = res.fault
         /\ IF res.why # "" THEN wst' = "failed" /\ why' = res.why /\ UNCHANGED out
            ELSE out' = (IF res.fault = "none" THEN Append(out, res.val) ELSE out)
                 /\ UNCHANGED <<wst, why>>
  /\ si' = si + 1
  /\ UNCHANGED <<heap, lheap, refs, li, loaded, rst, rwhy>>

LoadStepSkipsLast ==
  /\ fault = "none" /\ wst = "ok" /\ si > Len(refs)
  /\ rst = "ok" /\ li < Len(out)
  /\ LET res == LoadRef(lheap, out[li], refs[li].kind)
     IN  /\ fault' = res.fault
         /\ IF res.why # "" THEN rst' = "failed" /\ rwhy' = res.why /\ UNCHANGED loaded
            ELSE loaded' = (IF res.fault = "none" THEN Append(loaded, res.val) ELSE loaded)
                 /\ UNCHANGED <<rst, rwhy>>
  /\ li' = li + 1
  /\ UNCHANGED <<heap, lheap, refs, out, si, wst, why>>

(* Load one key of a complete save.                                       *)
LoadStep ==
  /\ fault = "none" /\ wst = "ok" /\ si > Len(refs)
  /\ rst = "ok" /\ li <= Len(out)
  /\ LET res == LoadRef(lheap, out[li], refs[li].kind)
     IN  /\ fault' = res.fault
         /\ IF res.why # "" THEN rst' = "failed" /\ rwhy' = res.why /\ UNCHANGED loaded
            ELSE loaded' = (IF res.fault = "none" THEN Append(loaded, res.val) ELSE loaded)
                 /\ UNCHANGED <<rst, rwhy>>
  /\ li' = li + 1
  /\ UNCHANGED <<heap, lheap, refs, out, si, wst, why>>

Next == SaveStep \/ LoadStep

Spec == Init /\ [][Next]_vars

(* The saver and the loader are loops of one compiler thread: each step  *)
(* is a bounded computation on the heap that waits for nothing, so a     *)
(* step that is enabled is taken.                                         *)
FairSpec == Spec /\ WF_vars(Next)

-----------------------------------------------------------------------------
(* Properties.                                                             *)

TypeOK ==
  /\ wst \in {"ok", "failed"} /\ rst \in {"ok", "failed"}
  /\ si \in 1..(Len(refs) + 1) /\ li \in 1..(Len(refs) + 1)
  /\ loaded \in Seq(Fns \cup Sfis)
  /\ \A i \in DOMAIN out : out[i].of = refs[i].x

(* No DCHECK, CHECK or unguarded read fails on either side: the saver    *)
(* and the loader either succeed or Fail with a reason, whatever the     *)
(* heaps, in every case SaveJSFunction and SaveSharedFunctionInfo pick.   *)
NoFault == fault = "none"

(* Refinement: the resolver implements FunctionKeys. Each key it writes  *)
(* is the first applicable strategy of spec section 4.5, it fails where  *)
(* none applies, and every object it loads is the object that was saved. *)
FunctionKeysSpec == Abstract!Spec

(* Termination: under the loops' fairness the resolver also implements   *)
(* FunctionKeys' fair specification, so a save that succeeded is loaded  *)
(* key by key to its end or to an explicit failure; the loader never     *)
(* stops early with keys left over.                                       *)
FunctionKeysLive == Abstract!LiveSpec

====
