---------------------------- MODULE MCChunkCodec ----------------------------
(***************************************************************************)
(* Chunks for checking ChunkCodec. Each is a chunk Crankshaft can build:  *)
(* constant operands appear only among inputs, gap moves and environment *)
(* values; the closure of an environment is the compiled function or one *)
(* of Fns; a gap has a parallel move slot for each of its four inner      *)
(* positions.                                                              *)
(***************************************************************************)
EXTENDS ChunkCodec

CONSTANTS f1, m1, m2, s1

Reg(n) == [k |-> "reg", i |-> n]
Const(n) == [k |-> "const", i |-> n]
NoMove == [present |-> FALSE, ops |-> <<>>]
Move(pairs) == [present |-> TRUE, ops |-> pairs]
Block(loop, irt) == [loop |-> loop, irt |-> irt, reachable |-> TRUE]
Frame(fn, ast, vals) == [fn |-> fn, ast |-> ast, vals |-> vals]
PMap(ptrs) == [present |-> TRUE, ptrs |-> ptrs, untagged |-> <<>>, position |-> 7]

(* An instruction with default fields, for the ones a kind leaves out.    *)
Instr(op, ins, id) ==
  [op |-> op, ins |-> ins, pay |-> <<>>, block |-> 0, moves |-> <<>>, id |-> id,
   maps |-> <<>>, hasRes |-> FALSE, res |-> NullOp, env |-> <<>>, pm |-> NoPointerMap,
   denv |-> <<>>]

(* A block-entry label whose START move copies constant 1 into a register.*)
Label == [Instr("gap", <<>>, 10) EXCEPT
            !.moves = <<NoMove, Move(<<<<Const(1), Reg(1)>>>>), NoMove, NoMove>>]

(* LConstantT of the named constant 2.                                    *)
ConstantT == [Instr("const", <<>>, 2) EXCEPT !.hasRes = TRUE, !.res = Reg(2)]

(* LCheckMaps of register 2 against two maps, with a deopt environment.   *)
CheckMaps == [Instr("checkmaps", <<Reg(2)>>, 11) EXCEPT
                !.maps = <<m1, m2>>, !.env = <<Frame(Self, 2, <<Reg(2)>>)>>]

(* A call in an inlined function: its environment chain has the inlined  *)
(* frame of f1 inside the frame of the compiled function, whose values   *)
(* hold constant 3; it has a pointer map and a result.                   *)
Call == [Instr("value", <<Reg(1)>>, 12) EXCEPT
           !.pay = <<5>>, !.hasRes = TRUE, !.res = Reg(3),
           !.env = <<Frame(Self, 3, <<Const(3), NullOp>>), Frame(f1, 4, <<Reg(1)>>)>>,
           !.pm = PMap(<<Reg(1)>>)]

(* LInstanceOfKnownGlobal, a call whose deferred lazy deoptimization     *)
(* environment holds constant 3 and its result. V8's chunk builder sets   *)
(* it to the environment of the LLazyBailout that follows the call, so   *)
(* LiveConstants sees its constants through that instruction.            *)
AfterCall == <<Frame(Self, 6, <<Const(3), Reg(4)>>)>>
InstanceOfKG == [Instr("instanceofkg", <<Reg(1), Reg(2)>>, 13) EXCEPT
                   !.hasRes = TRUE, !.res = Reg(4), !.pm = PMap(<<Reg(2)>>), !.denv = AfterCall]
LazyBailout == [Instr("lazybailout", <<>>, 14) EXCEPT !.env = AfterCall]

(* Blocks 0 plain, 1 a loop header, 2 an inline return target of block 1 *)
(* (the end-to-end scenario of the spec), and a chunk whose block 1       *)
(* names the later block 2 as its inlined entry.                          *)
ChunkInlined ==
  [osr |-> FALSE,
   blocks |-> <<Block(FALSE, NoBlock), Block(TRUE, NoBlock), Block(FALSE, 1)>>,
   consts |-> (1 :> [kind |-> "int", ref |-> 7]) @@ (2 :> [kind |-> "named", ref |-> m1])
              @@ (3 :> [kind |-> "int", ref |-> 8]),
   instrs |-> <<Label, ConstantT, CheckMaps, Call>>,
   closures |-> <<s1>>]

ChunkForward ==
  [osr |-> TRUE,
   blocks |-> <<Block(FALSE, NoBlock), Block(FALSE, 2), Block(TRUE, NoBlock)>>,
   consts |-> (3 :> [kind |-> "context", ref |-> f1]),
   instrs |-> <<[Call EXCEPT !.env = <<Frame(Self, 3, <<Const(3)>>)>>], InstanceOfKG, LazyBailout>>,
   closures |-> <<>>]

MCChunks == {ChunkInlined, ChunkForward}

(* A chunk whose only instruction has the inlined environment of f1.      *)
MCChunksEnv == {[ChunkForward EXCEPT !.consts = <<>>, !.instrs = <<[Call EXCEPT !.env = <<Frame(f1, 4, <<Reg(1)>>)>>]>>]}

(* A chunk whose only instruction checks two maps.                        *)
MCChunksMaps == {[ChunkForward EXCEPT !.consts = <<>>,
                   !.instrs = <<[CheckMaps EXCEPT !.env = <<>>]>>]}

=============================================================================
