----------------------------- MODULE ChunkCodec -----------------------------
(***************************************************************************)
(* The IR chunk codec: LChunkSaver::Save and LChunkLoader::Load of        *)
(* x64/lithium-saveload-x64.cc, with the environment, pointer-map and     *)
(* operand codecs of lithium-saveload.cc they call.                        *)
(*                                                                         *)
(* The saver appends to a stream of tokens, one per SavePrimitive call.   *)
(* A token carries the field it was written for and its value. The field  *)
(* is a ghost: the bytes do not hold it, but it tells whether a read of   *)
(* the loader reads the field the saver wrote at that offset.             *)
(*                                                                         *)
(* Each section of Save and Load (header, blocks, constants, one          *)
(* instruction, inlined closures) is one step. The codecs of maps, JS     *)
(* functions and shared function infos are abstracted to the tokens they *)
(* write and to how far into them a failing load reads (ShapeLoad models *)
(* the map loader itself).                                                 *)
(***************************************************************************)
EXTENDS Naturals, Sequences, SequencesExt, FiniteSets

CONSTANTS
  Chunks,       \* the LChunks that can be saved (see ChunkOK)
  Fns,          \* JSFunctions an environment or a constant refers to
  Maps,         \* maps a CheckMaps or a named constant refers to
  Sfis,         \* SharedFunctionInfos of inlined closures
  DebugBuild    \* DEBUG: Synchronize writes and checks the stream offset

Self == "closure"          \* info()->closure(), the function being compiled
NoBlock == -1              \* a block that is not an inline return target
NullOp == [k |-> "none", i |-> 0]   \* a null LOperand*
Null == "null"             \* a null handle or pointer

(* How SaveJSFunction keys a function: by a name or builtin id, by start  *)
(* position, or not at all (an inner function).                            *)
FnKeys == {"byname", "bystart", "inner"}
(* What LoadMap does with a saved map: loads it; fails inside MapLoader   *)
(* with the rest of the map unread; fails at deduplication after reading  *)
(* it; or loads a map whose layout differs from a named object's.         *)
MapLoads == {"ok", "partial", "dedup", "changed"}
(* What the loader finds for an inlined closure: a compiled function with *)
(* deoptimization support; one that gets it; one that cannot get it; an   *)
(* inner SharedFunctionInfo not compiled yet.                              *)
SfiLoads == {"deopt", "ensure", "nodeopt", "unreached"}

VARIABLES
  chunk,     \* the LChunk being saved
  saveFn,    \* per function: how SaveJSFunction keys it
  loadFn,    \* per function: found by GetJSFunctionByStartPosition
  saveMap,   \* per map: MapSaver succeeds (no cyclic chain)
  loadMap,   \* per map: what LoadMap does
  loadSfi,   \* per SharedFunctionInfo: what the loader finds
  w,         \* the saver: bytes_ (out), status_ and reason_
  sphase,    \* the section of Save that runs next
  si,        \* SaveInstructions: the next instruction index
  r,         \* the loader: cursor (pos), status_, reason_, fault, last value
  lphase,    \* the section of Load that runs next
  li,        \* LoadInstructions: instructions left to load
  lchunk     \* the chunk the loader builds

heap == <<saveFn, loadFn, saveMap, loadMap, loadSfi>>
vars == <<chunk, heap, w, sphase, si, r, lphase, li, lchunk>>

stream == w.out

-----------------------------------------------------------------------------
(* The saver: SavePrimitive, Fail and Synchronize of LChunkSaverBase.     *)

Put(wr, f, v) == [wr EXCEPT !.out = Append(@, [f |-> f, v |-> v])]

Fail(wr, why) == [wr EXCEPT !.st = "failed", !.why = why]

Synchronize(wr) == IF DebugBuild THEN Put(wr, "sync", Len(wr.out)) ELSE wr

(* ConditionallySaveLOperand: a presence flag, then LOperand::value_.     *)
SaveOperand(wr, op) ==
  IF op = NullOp THEN Put(wr, "opflag", FALSE)
  ELSE Put(Put(wr, "opflag", TRUE), "operand", op)

SaveOperands(wr, ops) == FoldLeft(SaveOperand, wr, ops)

(* SaveJSFunction: the relocation key and its payload, or a failure that *)
(* writes nothing.                                                         *)
SaveJSFunction(wr, fn) ==
  IF saveFn[fn] = "inner" THEN Fail(wr, "refs to inner JSFs")
  ELSE Put(Put(wr, "fnkey", saveFn[fn]), "fnarg", fn)

(* SaveMap: the MapSaver's records, then Synchronize even on failure.     *)
SaveMap(wr, m) ==
  Synchronize(IF saveMap[m]
              THEN Put(Put(wr, "map", m), "mapend", m)
              ELSE Fail(wr, "cyclic map chains"))

(* SaveSharedFunctionInfo: the path from the root of the SFI tree, ended *)
(* by -1.                                                                  *)
SaveSharedFunctionInfo(wr, s) ==
  Put(Put(Put(wr, "sfikey", "path"), "sfistep", s), "sfiend", -1)

(* SavePointerMap: two counted operand lists and the lithium position.    *)
SavePointerMap(wr, pm) ==
  Put(SaveOperands(Put(SaveOperands(Put(wr, "nptrs", Len(pm.ptrs)), pm.ptrs),
                       "nuntagged", Len(pm.untagged)), pm.untagged),
      "lithium_position", pm.position)

(* One environment value: the operand, then its tagged and uint32 flags. *)
SaveEnvValue(wr, v) == Put(Put(SaveOperand(wr, v), "tagged", 0), "uint32", 0)

(* SaveEnvironment after its outer environment: the frame fields, the     *)
(* closure (with no status check after SaveJSFunction), the values, and   *)
(* the object mapping (left empty).                                        *)
SaveFrame(wr, fr) ==
  LET w1 == Put(wr, "frame", fr.ast)
      w2 == IF fr.fn = Self THEN Put(w1, "own", TRUE)
            ELSE SaveJSFunction(Put(w1, "own", FALSE), fr.fn)
  IN  Put(FoldLeft(SaveEnvValue, Put(w2, "nvalues", Len(fr.vals)), fr.vals),
          "nmapping", 0)

(* SaveEnvironment: an environment chain, outermost frame first.          *)
RECURSIVE SaveEnvironment(_, _)
SaveEnvironment(wr, env) ==
  IF Len(env) > 1
  THEN LET wo == SaveEnvironment(Put(wr, "outer", TRUE), Front(env))
       IN  IF wo.st # "ok" THEN wo ELSE SaveFrame(wo, Last(env))
  ELSE SaveFrame(Put(wr, "outer", FALSE), Last(env))

(* SaveLGap: the block id, then per inner position a presence flag and    *)
(* the counted (source, destination) operand pairs of its parallel move.  *)
SaveMoveOperands(wr, pair) == SaveOperand(SaveOperand(wr, pair[1]), pair[2])

SaveParallelMove(wr, mv) ==
  IF ~mv.present THEN Put(wr, "move", FALSE)
  ELSE FoldLeft(SaveMoveOperands, Put(Put(wr, "move", TRUE), "nmoves", Len(mv.ops)),
                mv.ops)

SaveLGap(wr, ins) == FoldLeft(SaveParallelMove, Put(wr, "block_id", ins.block), ins.moves)

(* SaveHValueShim: id, block id, position, representation, type, flags.   *)
SaveHValueShim(wr, ins) == Put(wr, "hvalue", ins.id)

(* SaveHCheckMapsShim: the value shim, the bit field, the counted maps,   *)
(* returning at the first map that fails.                                  *)
RECURSIVE SaveMaps(_, _)
SaveMaps(wr, ms) ==
  IF ms = <<>> THEN wr
  ELSE LET w1 == SaveMap(wr, Head(ms))
       IN  IF w1.st # "ok" THEN w1 ELSE SaveMaps(w1, Tail(ms))

SaveHCheckMapsShim(wr, ins) ==
  SaveMaps(Put(Put(SaveHValueShim(wr, ins), "bit_field", 0), "nmaps", Len(ins.maps)),
           ins.maps)

(* SaveHydrogenShimTo: a constant instruction saves only the id of its    *)
(* constant, which SaveConstants saved before.                            *)
SaveHydrogenShimTo(wr, ins) ==
  CASE ins.op = "const"     -> Put(wr, "value_id", ins.id)
    [] ins.op = "checkmaps" -> SaveHCheckMapsShim(wr, ins)
    [] OTHER                -> SaveHValueShim(wr, ins)

(* SaveTo: the per-opcode payload (SaveLLabel and SaveLInstructionGap are *)
(* SaveLGap; SaveLInstanceOfKnownGlobal is the deferred lazy              *)
(* deoptimization environment).                                           *)
SaveTo(wr, ins) ==
  CASE ins.op = "gap"          -> SaveLGap(wr, ins)
    [] ins.op = "instanceofkg" -> SaveEnvironment(wr, ins.denv)
    [] OTHER                   -> FoldLeft(LAMBDA a, x : Put(a, "payload", x), wr, ins.pay)

(* The opcode fixes the layout the loader's LoadL<type> reads: the number *)
(* of template inputs and temps, the payload, and the template result.   *)
Opcode(ins) == [op |-> ins.op, nins |-> Len(ins.ins), npay |-> Len(ins.pay),
                hasRes |-> ins.hasRes]

(* SaveInstruction, with SaveTemplateInstruction and                      *)
(* SaveTemplateResultInstruction of lithium-saveload-x64.h.               *)
SaveInstruction(wr, ins) ==
  LET w0 == SaveTo(SaveOperands(Put(wr, "opcode", Opcode(ins)), ins.ins), ins)
      w1 == IF w0.st # "ok" THEN w0 ELSE SaveHydrogenShimTo(w0, ins)
      w2 == IF ins.hasRes THEN SaveOperand(w1, ins.res) ELSE w1
      w3 == IF ins.env = <<>> THEN Put(w2, "env", FALSE)
            ELSE SaveEnvironment(Put(w2, "env", TRUE), ins.env)
      w4 == IF ~ins.pm.present THEN Put(w3, "pmap", FALSE)
            ELSE SavePointerMap(Put(w3, "pmap", TRUE), ins.pm)
  IN  CASE w1.st # "ok" -> w1
        [] w3.st # "ok" -> w3
        [] OTHER        -> Synchronize(w4)

(* LiveConstants: the ids of constant instructions, and the constant      *)
(* operands among inputs, gap moves and the values of every environment   *)
(* of the chain.                                                           *)
ConstIds(ops) == {ops[j].i : j \in {j \in DOMAIN ops : ops[j].k = "const"}}

MoveConstIds(ins) ==
  UNION {UNION {ConstIds(pair) : pair \in Range(ins.moves[p].ops)} :
           p \in DOMAIN ins.moves}

EnvConstIds(ins) == UNION {ConstIds(ins.env[e].vals) : e \in DOMAIN ins.env}

InstrLiveConstantsNoEnv(ins) ==
  (IF ins.op = "const" THEN {ins.id} ELSE {}) \cup ConstIds(ins.ins) \cup MoveConstIds(ins)

InstrLiveConstants(ins) ==
  (IF ins.op = "const" THEN {ins.id} ELSE {})
    \cup ConstIds(ins.ins) \cup MoveConstIds(ins) \cup EnvConstIds(ins)

LiveConstants(c) == UNION {InstrLiveConstants(ins) : ins \in Range(c.instrs)}

(* SaveHConstantShim: the value shim, the bit field and the constant type;*)
(* an integer returns after its value, a named object saves its name, a   *)
(* builtin flag and its map, a context saves its owner; those two then    *)
(* check the status and save int32_value and double_value.               *)
SaveHConstantShim(wr, id, k) ==
  LET w1 == Put(Put(Put(wr, "hvalue", id), "bit_field", 0), "ctype", k.kind)
      w2 == CASE k.kind = "named"   -> SaveMap(Put(Put(w1, "name", k.ref), "builtin", FALSE), k.ref)
              [] k.kind = "context" -> SaveJSFunction(w1, k.ref)
  IN  CASE k.kind = "int" -> Put(w1, "int32", k.ref)
        [] w2.st # "ok"   -> w2
        [] OTHER          -> Put(w2, "values", 0)

(* SaveConstants: the live constants in increasing id order, each as its *)
(* id and its shim, returning at the first that fails.                    *)
RECURSIVE SaveConstantList(_, _)
SaveConstantList(wr, ids) ==
  IF ids = <<>> THEN wr
  ELSE LET w1 == SaveHConstantShim(Put(wr, "const_id", Head(ids)), Head(ids),
                                   chunk.consts[Head(ids)])
       IN  IF w1.st # "ok" THEN w1 ELSE SaveConstantList(w1, Tail(ids))

SaveConstants(wr) ==
  LET live == LiveConstants(chunk)
      w1   == SaveConstantList(Put(wr, "nconsts", Cardinality(live)),
                               SetToSortSeq(live, <))
  IN  IF w1.st # "ok" THEN w1 ELSE Synchronize(w1)

(* SaveBasicBlocks: the count, then per block its ast id (not for block 0),*)
(* the loop-header flag, the inline-return-target flag with the id of the *)
(* inlined entry block, the remaining flags and the instruction range.    *)
SaveBlock(wr, bs, n) ==
  LET b  == bs[n]
      w1 == IF n > 1 THEN Put(wr, "ast_id", n - 1) ELSE wr
      w2 == Put(Put(w1, "loop_header", b.loop), "inline_return_target", b.irt # NoBlock)
      w3 == IF b.irt # NoBlock THEN Put(w2, "inlined_entry", b.irt) ELSE w2
  IN  Put(w3, "flags", b.reachable)

SaveBasicBlocks(wr, bs) ==
  Synchronize(FoldLeftDomain(LAMBDA a, n : SaveBlock(a, bs, n),
                             Put(wr, "nblocks", Len(bs)), bs))

-----------------------------------------------------------------------------
(* The loader: LoadPrimitive, LoadBool and Synchronize of                 *)
(* LChunkLoaderBase. A read past the end of the stream, or of a token     *)
(* written for another field, is a fault: the code reads whatever bytes  *)
(* are there, and every later read is driven by them, so the model stops. *)

Stopped(rd) == rd.fault # "none"

Ret(rd, v) == [rd EXCEPT !.val = v]

Read(rd, f) ==
  CASE Stopped(rd)              -> rd
    [] rd.pos > Len(stream)     -> [rd EXCEPT !.fault = "oob read"]
    [] stream[rd.pos].f # f     -> [rd EXCEPT !.fault = "misaligned read"]
    [] OTHER                    -> [rd EXCEPT !.pos = @ + 1, !.val = stream[rd.pos].v]

(* Each loader operator passes the reader state after a read on to a      *)
(* local operator as its argument, so that TLC computes it once.          *)

(* Synchronize: CHECK that the offset read equals the bytes consumed.     *)
LoadSynchronize(rd) ==
  LET Check(r1) == IF ~Stopped(r1) /\ r1.val # rd.pos - 1
                   THEN [r1 EXCEPT !.fault = "sync check"] ELSE Ret(r1, rd.val)
  IN  IF ~DebugBuild THEN rd ELSE Check(Read(rd, "sync"))

(* ConditionallyLoadLOperand.                                              *)
LoadOperand(rd) ==
  LET Flag(r1) == IF Stopped(r1) \/ ~r1.val THEN Ret(r1, NullOp) ELSE Read(r1, "operand")
  IN  Flag(Read(rd, "opflag"))

RECURSIVE LoadOperandList(_, _, _)
LoadOperandList(rd, n, acc) ==
  LET Step(r1) == LoadOperandList(r1, n - 1, Append(acc, r1.val))
  IN  IF n = 0 \/ Stopped(rd) THEN Ret(rd, acc) ELSE Step(LoadOperand(rd))

CountedOperands(rd, f) ==
  LET Count(r1) == IF Stopped(r1) THEN r1 ELSE LoadOperandList(r1, r1.val, <<>>)
  IN  Count(Read(rd, f))

(* LoadJSFunction: only a function keyed by start position can be missing,*)
(* and its payload is read before the failure.                            *)
LoadJSFunction(rd) ==
  LET Resolve(r1, r2) ==
        CASE Stopped(r2) -> r2
          [] r1.val = "bystart" /\ ~loadFn[r2.val] ->
               Fail(Ret(r2, Null), "function not found by start position")
          [] OTHER -> r2
      Key(r1) == Resolve(r1, Read(r1, "fnarg"))
  IN  Key(Read(rd, "fnkey"))

(* LoadMap: MapLoader, then Synchronize on success, or                    *)
(* Fail("deduplication failed") and a null handle.                        *)
LoadMap(rd) ==
  LET Built(r1) ==
        CASE Stopped(r1) -> r1
          [] loadMap[r1.val] = "partial" -> Fail(Ret(r1, Null), "deduplication failed")
          [] loadMap[r1.val] = "dedup" ->
               Fail(Ret(Read(r1, "mapend"), Null), "deduplication failed")
          [] OTHER -> LoadSynchronize(Read(r1, "mapend"))
  IN  Built(Read(rd, "map"))

(* LoadSharedFunctionInfo: walks the saved path down the SFI tree and     *)
(* fails, with the rest of the path unread, at an entry not compiled yet.*)
LoadSharedFunctionInfo(rd) ==
  LET Walked(r1) ==
        CASE Stopped(r1) -> r1
          [] loadSfi[r1.val] = "unreached" ->
               Fail(Ret(r1, Null), "could not reach SharedFunctionInfo - may not be compiled yet")
          [] OTHER -> Ret(Read(r1, "sfiend"), r1.val)
  IN  Walked(Read(Read(rd, "sfikey"), "sfistep"))

NoPointerMap == [present |-> FALSE, ptrs |-> <<>>, untagged |-> <<>>, position |-> 0]

(* LoadPointerMap.                                                         *)
LoadPointerMap(rd) ==
  LET Position(r1, r2, r3) ==
        Ret(r3, [present |-> TRUE, ptrs |-> r1.val, untagged |-> r2.val, position |-> r3.val])
      Untagged(r1, r2) == Position(r1, r2, Read(r2, "lithium_position"))
      Pointers(r1) == Untagged(r1, CountedOperands(r1, "nuntagged"))
  IN  Pointers(CountedOperands(rd, "nptrs"))

RECURSIVE LoadEnvValues(_, _, _)
LoadEnvValues(rd, n, acc) ==
  LET Step(r1) == LoadEnvValues(Read(Read(r1, "tagged"), "uint32"), n - 1, Append(acc, r1.val))
  IN  IF n = 0 \/ Stopped(rd) THEN Ret(rd, acc) ELSE Step(LoadOperand(rd))

(* LoadEnvironment: the outer environment first, with no status check    *)
(* after it; the frame fields; the closure, with a status check that      *)
(* returns before the values are read; the values; the object mapping.   *)
RECURSIVE LoadEnvironment(_)
LoadEnvironment(rd) ==
  LET Mapping(ro, r2, rc, r5) ==
        Ret(Read(r5, "nmapping"), Append(ro.val, [ast |-> r2.val, fn |-> rc.val, vals |-> r5.val]))
      Values(ro, r2, rc, r4) ==
        Mapping(ro, r2, rc, IF Stopped(r4) THEN r4 ELSE LoadEnvValues(r4, r4.val, <<>>))
      Closure(ro, r2, rc) ==
        IF Stopped(rc) \/ rc.st # "ok" THEN Ret(rc, Null) ELSE Values(ro, r2, rc, Read(rc, "nvalues"))
      Own(ro, r2, r3) ==
        Closure(ro, r2, IF Stopped(r3) \/ r3.val THEN Ret(r3, Self) ELSE LoadJSFunction(r3))
      FrameOf(ro) == LET Fields(r2) == Own(ro, r2, Read(r2, "own")) IN Fields(Read(ro, "frame"))
      Outer(r1) == FrameOf(IF ~Stopped(r1) /\ r1.val THEN LoadEnvironment(r1) ELSE Ret(r1, <<>>))
  IN  Outer(Read(rd, "outer"))

(* LoadLGap, for LoadLLabel and LoadLInstructionGap: the block id, then   *)
(* a parallel move for each inner position whose flag is set.             *)
InnerPositions == 4   \* LGap::FIRST_INNER_POSITION .. LAST_INNER_POSITION

RECURSIVE LoadMovePairs(_, _, _)
LoadMovePairs(rd, n, acc) ==
  LET Pair(src, dst) == LoadMovePairs(dst, n - 1, Append(acc, <<src.val, dst.val>>))
      Source(src) == Pair(src, LoadOperand(src))
  IN  IF n = 0 \/ Stopped(rd) THEN Ret(rd, acc) ELSE Source(LoadOperand(rd))

LoadParallelMove(rd) ==
  LET Listed(r3) == Ret(r3, [present |-> TRUE, ops |-> r3.val])
      Count(r2) == Listed(IF Stopped(r2) THEN r2 ELSE LoadMovePairs(r2, r2.val, <<>>))
      Flag(r1) == IF Stopped(r1) \/ ~r1.val THEN Ret(r1, [present |-> FALSE, ops |-> <<>>])
                  ELSE Count(Read(r1, "nmoves"))
  IN  Flag(Read(rd, "move"))

RECURSIVE LoadParallelMoves(_, _, _)
LoadParallelMoves(rd, n, acc) ==
  LET Step(r1) == LoadParallelMoves(r1, n - 1, Append(acc, r1.val))
  IN  IF n = 0 \/ Stopped(rd) THEN Ret(rd, acc) ELSE Step(LoadParallelMove(rd))

LoadLGap(rd) ==
  LET Gap(r1, r2) == Ret(r2, [block |-> r1.val, moves |-> r2.val])
      Block(r1) == Gap(r1, LoadParallelMoves(r1, InnerPositions, <<>>))
  IN  Block(Read(rd, "block_id"))

(* The payload of the other LoadL<type>: as many values as the opcode has.*)
RECURSIVE LoadPayload(_, _, _)
LoadPayload(rd, n, acc) ==
  LET Step(r1) == LoadPayload(r1, n - 1, Append(acc, r1.val))
  IN  IF n = 0 \/ Stopped(rd) THEN Ret(rd, acc) ELSE Step(Read(rd, "payload"))

(* LoadHCheckMapsShim: the counted maps, loaded with no status check;     *)
(* each goes through Unique<Map>::CreateImmovable, which dereferences the *)
(* handle, null after a failed LoadMap.                                   *)
RECURSIVE LoadMapList(_, _, _)
LoadMapList(rd, n, acc) ==
  LET Step(r1) == IF ~Stopped(r1) /\ r1.val = Null
                  THEN [r1 EXCEPT !.fault = "null dereference"]
                  ELSE LoadMapList(r1, n - 1, Append(acc, r1.val))
  IN  IF n = 0 \/ Stopped(rd) THEN Ret(rd, acc) ELSE Step(LoadMap(rd))

LoadHCheckMapsShim(rd) ==
  LET Shim(r1, r3) == Ret(r3, [id |-> r1.val, maps |-> r3.val])
      Count(r1, r2) == Shim(r1, IF Stopped(r2) THEN r2 ELSE LoadMapList(r2, r2.val, <<>>))
      Value(r1) == Count(r1, Read(Read(r1, "bit_field"), "nmaps"))
  IN  Value(Read(rd, "hvalue"))

(* LoadHydrogenShim: a constant instruction reads the id of its constant *)
(* (chunk()->GetValue(id) resolves it); the others read a value shim.     *)
LoadHydrogenShim(rd, op) ==
  LET Id(r1) == Ret(r1, [id |-> r1.val, maps |-> <<>>])
  IN  CASE op = "const"     -> Id(Read(rd, "value_id"))
        [] op = "checkmaps" -> LoadHCheckMapsShim(rd)
        [] OTHER            -> Id(Read(rd, "hvalue"))

(* LoadInstruction: the opcode dispatch (LoadL<type> reads the template   *)
(* inputs and temps, then the payload, LoadLInstanceOfKnownGlobal its     *)
(* deferred environment with no status check; then LoadHydrogenShim) with a *)
(* status check; the template result; the environment, with no status     *)
(* check after it; the pointer map; Synchronize. The instruction record  *)
(* is filled in as its parts are read.                                    *)
LoadInstruction(rd) ==
  LET Sync(r9, ins) == Ret(LoadSynchronize(r9), [ins EXCEPT !.pm = r9.val])
      PointerMapOf(r8, ins) ==
        Sync(IF ~Stopped(r8) /\ r8.val THEN LoadPointerMap(r8) ELSE Ret(r8, NoPointerMap), ins)
      Env(r7, ins) == PointerMapOf(Read(r7, "pmap"), [ins EXCEPT !.env = r7.val])
      EnvFlag(r6, ins) ==
        Env(IF ~Stopped(r6) /\ r6.val THEN LoadEnvironment(r6) ELSE Ret(r6, <<>>), ins)
      Result(r5, ins) == EnvFlag(Read(r5, "env"), [ins EXCEPT !.res = r5.val])
      Shim(r4, ins) ==
        IF Stopped(r4) \/ r4.st # "ok" THEN Ret(r4, Null)
        ELSE Result(IF ins.hasRes THEN LoadOperand(r4) ELSE Ret(r4, NullOp),
                    [ins EXCEPT !.id = r4.val.id, !.maps = r4.val.maps])
      Body(r3, ins) ==
        Shim(LoadHydrogenShim(r3, ins.op),
             CASE ins.op = "gap" -> [ins EXCEPT !.block = r3.val.block, !.moves = r3.val.moves]
               [] ins.op = "instanceofkg" -> [ins EXCEPT !.denv = r3.val]
               [] OTHER -> [ins EXCEPT !.pay = r3.val])
      Payload(r2, op, n) ==
        CASE op = "gap"          -> LoadLGap(r2)
          [] op = "instanceofkg" -> LoadEnvironment(r2)
          [] OTHER               -> LoadPayload(r2, n, <<>>)
      Inputs(r2, oc) ==
        Body(Payload(r2, oc.op, oc.npay),
             [op |-> oc.op, ins |-> r2.val, pay |-> <<>>, block |-> 0, moves |-> <<>>,
              id |-> 0, maps |-> <<>>, hasRes |-> oc.hasRes, res |-> NullOp,
              env |-> <<>>, pm |-> NoPointerMap, denv |-> <<>>])
      Dispatch(r1) == IF Stopped(r1) THEN r1 ELSE Inputs(LoadOperandList(r1, r1.val.nins, <<>>), r1.val)
  IN  Dispatch(Read(rd, "opcode"))

(* LoadHConstantShim: an integer is read and returned; a named object is *)
(* looked up by name and its loaded map checked against the object's, a  *)
(* context comes from its owner's function; both check the status and    *)
(* read int32_value and double_value.                                     *)
LoadHConstantShim(rd) ==
  LET IntValue(ri) == Ret(ri, [kind |-> "int", ref |-> ri.val])
      Named(rn) ==
        CASE Stopped(rn) \/ rn.st # "ok" -> Ret(rn, Null)
          [] loadMap[rn.val] = "changed" ->
               Fail(Ret(rn, Null), "object layout changed - can't reference by name")
          [] OTHER -> Ret(Read(rn, "values"), [kind |-> "named", ref |-> rn.val])
      Context(rf) ==
        IF Stopped(rf) \/ rf.st # "ok" THEN Ret(rf, Null)
        ELSE Ret(Read(rf, "values"), [kind |-> "context", ref |-> rf.val])
      Kind(r1) ==
        CASE Stopped(r1) -> r1
          [] r1.val = "int" -> IntValue(Read(r1, "int32"))
          [] r1.val = "named" -> Named(LoadMap(Read(Read(r1, "name"), "builtin")))
          [] OTHER -> Context(LoadJSFunction(r1))
  IN  Kind(Read(Read(Read(rd, "hvalue"), "bit_field"), "ctype"))

(* LoadConstants: each id and its shim, then chunk()->SetValue(id, shim), *)
(* returning at the first failure; Synchronize.                           *)
RECURSIVE LoadConstantList(_, _, _)
LoadConstantList(rd, n, acc) ==
  LET Entry(r1, r2) == IF Stopped(r2) \/ r2.st # "ok" THEN Ret(r2, acc)
                       ELSE LoadConstantList(r2, n - 1, (r1.val :> r2.val) @@ acc)
      Id(r1) == Entry(r1, LoadHConstantShim(r1))
  IN  IF n = 0 \/ Stopped(rd) THEN Ret(rd, acc) ELSE Id(Read(rd, "const_id"))

LoadConstants(rd) ==
  LET Sync(r2) == IF Stopped(r2) \/ r2.st # "ok" THEN r2 ELSE LoadSynchronize(r2)
      Count(r1) == Sync(IF Stopped(r1) THEN r1 ELSE LoadConstantList(r1, r1.val, <<>>))
  IN  Count(Read(rd, "nconsts"))

(* LoadBasicBlocks: block 0 exists, the others are created; the           *)
(* inline-return-target links are recorded and made after the loop, since*)
(* a block can name an entry block that comes after it.                   *)
RECURSIVE LoadBlockList(_, _, _, _, _)
LoadBlockList(rd, n, k, bs, recs) ==
  LET Flags(loop, irt, r4, r5) ==
        LoadBlockList(r5, n, k + 1,
                      Append(bs, [loop |-> loop, irt |-> NoBlock, reachable |-> r5.val]),
                      IF irt THEN Append(recs, <<k, r4.val>>) ELSE recs)
      Entry(loop, irt, r3) ==
        LET Read4(r4) == Flags(loop, irt, r4, Read(r4, "flags"))
        IN  Read4(IF irt THEN Read(r3, "inlined_entry") ELSE r3)
      Target(r2, r3) == Entry(r2.val, ~Stopped(r3) /\ r3.val, r3)
      LoopHeader(r2) == Target(r2, Read(r2, "inline_return_target"))
  IN  IF k = n \/ Stopped(rd) THEN Ret(rd, <<bs, recs>>)
      ELSE LoopHeader(Read(IF k > 0 THEN Read(rd, "ast_id") ELSE rd, "loop_header"))

(* MarkAsInlineReturnTarget for each record <<return target, entry>>.     *)
LinkInlineReturnTargetsSwapped(bs, recs) ==
  FoldLeft(LAMBDA b, rec : [b EXCEPT ![rec[2] + 1].irt = rec[1]], bs, recs)

LinkInlineReturnTargets(bs, recs) ==
  FoldLeft(LAMBDA b, rec : [b EXCEPT ![rec[1] + 1].irt = rec[2]], bs, recs)

LoadBasicBlocks(rd) ==
  LET Link(r2) == IF Stopped(r2) THEN r2
                  ELSE Ret(LoadSynchronize(r2), LinkInlineReturnTargets(r2.val[1], r2.val[2]))
      Count(r1) == Link(IF Stopped(r1) THEN r1 ELSE LoadBlockList(r1, r1.val, 0, <<>>, <<>>))
  IN  Count(Read(rd, "nblocks"))

(* The inlined closures of Load: each SharedFunctionInfo is loaded with a *)
(* status check; one without deoptimization support is compiled for it,  *)
(* or the load fails.                                                      *)
RECURSIVE LoadInlinedClosures(_, _)
LoadInlinedClosures(rd, n) ==
  LET Check(r1) ==
        CASE Stopped(r1) \/ r1.st # "ok" -> r1
          [] loadSfi[r1.val] = "nodeopt" ->
               Fail(r1, "could not ensure deoptimization support for inlined function")
          [] OTHER -> LoadInlinedClosures(r1, n - 1)
  IN  IF n = 0 \/ Stopped(rd) THEN rd ELSE Check(LoadSharedFunctionInfo(rd))

-----------------------------------------------------------------------------
(* The heap both sides see, and the start of a save.                      *)

Init ==
  /\ chunk \in Chunks
  /\ saveFn \in [Fns -> FnKeys]
  /\ loadFn \in [Fns -> BOOLEAN]
  /\ saveMap \in [Maps -> BOOLEAN]
  /\ loadMap \in [Maps -> MapLoads]
  /\ loadSfi \in [Sfis -> SfiLoads]
  /\ w = [out |-> <<>>, st |-> "ok", why |-> ""]
  /\ sphase = "header"
  /\ si = 1
  /\ r = [pos |-> 1, st |-> "ok", why |-> "", fault |-> "none", val |-> 0]
  /\ lphase = "header"
  /\ li = 0
  /\ lchunk = [blocks |-> <<>>, values |-> <<>>, instrs |-> <<>>]

UnchangedLoad == UNCHANGED <<r, lphase, li, lchunk>>
UnchangedSave == UNCHANGED <<w, sphase, si>>

(* Save up to its first Synchronize: SavePlatformChunk, this_has_uses,    *)
(* the spill slot count, the OSR flag and frame slots.                    *)
SaveHeader ==
  /\ sphase = "header"
  /\ LET w1 == Put(Put(Put(Put(w, "dehoisted", 0), "this_has_uses", 0),
                       "spill_slot_count", 0), "osr", chunk.osr)
     IN  w' = Synchronize(IF chunk.osr THEN Put(w1, "osr_slots", 0) ELSE w1)
  /\ sphase' = "blocks"
  /\ UNCHANGED <<chunk, heap, si>> /\ UnchangedLoad

(* RETURN_ON_FAIL(SaveBasicBlocks(...)).                                  *)
SaveBlocks ==
  /\ sphase = "blocks"
  /\ w' = SaveBasicBlocks(w, chunk.blocks)
  /\ sphase' = "constants"
  /\ UNCHANGED <<chunk, heap, si>> /\ UnchangedLoad

(* RETURN_ON_FAIL(SaveConstants(chunk)).                                  *)
SaveConstantsStep ==
  /\ sphase = "constants"
  /\ w' = SaveConstants(w)
  /\ sphase' = IF w'.st = "ok" THEN "instructions" ELSE "done"
  /\ UNCHANGED <<chunk, heap, si>> /\ UnchangedLoad

(* SaveInstructions: the count, then one instruction per step, returning *)
(* at the first that fails.                                                *)
SaveInstructionCountOffByOne ==
  /\ sphase = "instructions"
  /\ w' = Put(w, "ninstrs", Len(chunk.instrs) + 1)
  /\ sphase' = IF chunk.instrs = <<>> THEN "closures" ELSE "instruction"
  /\ UNCHANGED <<chunk, heap, si>> /\ UnchangedLoad

SaveInstructionCount ==
  /\ sphase = "instructions"
  /\ w' = Put(w, "ninstrs", Len(chunk.instrs))
  /\ sphase' = IF chunk.instrs = <<>> THEN "closures" ELSE "instruction"
  /\ UNCHANGED <<chunk, heap, si>> /\ UnchangedLoad

SaveInstructionStep ==
  /\ sphase = "instruction"
  /\ w' = SaveInstruction(w, chunk.instrs[si])
  /\ si' = si + 1
  /\ sphase' = CASE w'.st # "ok"            -> "done"
                 [] si = Len(chunk.instrs)  -> "closures"
                 [] OTHER                   -> "instruction"
  /\ UNCHANGED <<chunk, heap>> /\ UnchangedLoad

(* The inlined closures: their count and each SharedFunctionInfo.        *)
SaveClosures ==
  /\ sphase = "closures"
  /\ w' = FoldLeft(SaveSharedFunctionInfo, Put(w, "nclosures", Len(chunk.closures)),
                   chunk.closures)
  /\ sphase' = "done"
  /\ UNCHANGED <<chunk, heap, si>> /\ UnchangedLoad

(* After a section of Load: its status check.                             *)
After(rd, next) == IF Stopped(rd) \/ rd.st # "ok" THEN "done" ELSE next

(* Load up to its first Synchronize. A failed save is never loaded.       *)
LoadHeader ==
  /\ sphase = "done" /\ w.st = "ok" /\ lphase = "header"
  /\ LET r1 == Read(Read(Read(Read(r, "dehoisted"), "this_has_uses"),
                          "spill_slot_count"), "osr")
     IN  r' = LoadSynchronize(IF ~Stopped(r1) /\ r1.val THEN Read(r1, "osr_slots") ELSE r1)
  /\ lphase' = After(r', "blocks")
  /\ UNCHANGED <<chunk, heap, li, lchunk>> /\ UnchangedSave

LoadBlocks ==
  /\ lphase = "blocks"
  /\ r' = LoadBasicBlocks(r)
  /\ lchunk' = [lchunk EXCEPT !.blocks = r'.val]
  /\ lphase' = After(r', "constants")
  /\ UNCHANGED <<chunk, heap, li>> /\ UnchangedSave

LoadConstantsStep ==
  /\ lphase = "constants"
  /\ r' = LoadConstants(r)
  /\ lchunk' = [lchunk EXCEPT !.values = r'.val]
  /\ lphase' = After(r', "instructions")
  /\ UNCHANGED <<chunk, heap, li>> /\ UnchangedSave

(* LoadInstructions: the count, then one instruction per step with a      *)
(* status check after each, and chunk()->AddInstruction.                  *)
LoadInstructionCount ==
  /\ lphase = "instructions"
  /\ r' = Read(r, "ninstrs")
  /\ li' = IF Stopped(r') THEN 0 ELSE r'.val
  /\ lphase' = After(r', IF li' = 0 THEN "closures" ELSE "instruction")
  /\ UNCHANGED <<chunk, heap, lchunk>> /\ UnchangedSave

LoadInstructionStep ==
  /\ lphase = "instruction"
  /\ r' = LoadInstruction(r)
  /\ li' = li - 1
  /\ lchunk' = IF Stopped(r') \/ r'.st # "ok" THEN lchunk
               ELSE [lchunk EXCEPT !.instrs = Append(@, r'.val)]
  /\ lphase' = After(r', IF li' = 0 THEN "closures" ELSE "instruction")
  /\ UNCHANGED <<chunk, heap>> /\ UnchangedSave

LoadClosures ==
  /\ lphase = "closures"
  /\ LET r1 == Read(r, "nclosures")
     IN  r' = IF Stopped(r1) THEN r1 ELSE LoadInlinedClosures(r1, r1.val)
  /\ lphase' = "done"
  /\ UNCHANGED <<chunk, heap, li, lchunk>> /\ UnchangedSave

Next ==
  \/ SaveHeader \/ SaveBlocks \/ SaveConstantsStep
  \/ SaveInstructionCount \/ SaveInstructionStep \/ SaveClosures
  \/ LoadHeader \/ LoadBlocks \/ LoadConstantsStep
  \/ LoadInstructionCount \/ LoadInstructionStep \/ LoadClosures

Spec == Init /\ [][Next]_vars

-----------------------------------------------------------------------------
(* Properties.                                                             *)

Loaded == lphase = "done" /\ ~Stopped(r) /\ r.st = "ok"

TypeOK ==
  /\ chunk \in Chunks
  /\ w.st \in {"ok", "failed"} /\ r.st \in {"ok", "failed"}
  /\ sphase \in {"header", "blocks", "constants", "instructions", "instruction",
                 "closures", "done"}
  /\ lphase \in {"header", "blocks", "constants", "instructions", "instruction",
                 "closures", "done"}
  /\ r.fault \in {"none", "oob read", "misaligned read", "sync check", "null dereference"}
  /\ r.pos \in 1..(Len(stream) + 1)
  /\ si \in 1..(Len(chunk.instrs) + 1)
  /\ li \in 0..Len(chunk.instrs)
  /\ \A t \in Range(stream) : t.f # "sync" \/ DebugBuild

(* Chunk round trip (spec: "load is the mirror, same order, same          *)
(* conditionals"): when Save and Load both succeed, the loaded blocks,    *)
(* with their deferred inline-return-target links, the instructions, with *)
(* their operands, gap moves, shims, environment chains and pointer maps, *)
(* and the constant table, equal what was saved.                          *)
ChunkRoundTrip ==
  Loaded =>
    /\ lchunk.blocks = chunk.blocks
    /\ lchunk.instrs = chunk.instrs
    /\ lchunk.values = [id \in LiveConstants(chunk) |-> chunk.consts[id]]

(* The constants an instruction refers to (spec section 4.4): its own     *)
(* value if it is a constant, its inputs, its gap moves, and the values   *)
(* of every environment of its chain and of its deferred lazy             *)
(* deoptimization environment.                                            *)
ReferencedConstants(ins) ==
  LET consts(ops) == {o.i : o \in {o \in Range(ops) : o.k = "const"}}
  IN  (IF ins.op = "const" THEN {ins.id} ELSE {})
        \cup consts(ins.ins)
        \cup UNION {UNION {consts(pair) : pair \in Range(mv.ops)} : mv \in Range(ins.moves)}
        \cup UNION {consts(fr.vals) : fr \in Range(ins.env) \cup Range(ins.denv)}

(* Liveness-correct constant pool: in a loaded chunk every constant that  *)
(* an instruction refers to, through LConstantOperand or its hydrogen     *)
(* shim (chunk()->GetValue), is in the constant table LoadConstants       *)
(* filled from the ids LiveConstants chose at save time.                  *)
ConstantsResolved ==
  Loaded => \A ins \in Range(lchunk.instrs) : ReferencedConstants(ins) \subseteq DOMAIN lchunk.values

(* Poisoned-status discipline (spec section 4.1: "every higher-level      *)
(* codec function must check status after any call that can fail and     *)
(* return early"): on any saved chunk and any heap, the loader returns a  *)
(* chunk or a failure; it never reads a field other than the one the     *)
(* saver wrote at that offset, never reads past the stream, never fails  *)
(* a Synchronize CHECK and never dereferences a null handle.              *)
LoadFailsCleanly == r.fault = "none"

=============================================================================
