----------------------------- MODULE CodeBlockDB -----------------------------
(***************************************************************************)
(* CodeBlockDatabase (code-block-database.{h,cc}): a list of code blocks  *)
(* keyed by start position, read from and written to one file.  A block   *)
(* is "managed" when the database owns its code (SetCode), and unmanaged  *)
(* when its code is a slice of buffer_, the file image Read loaded.       *)
(*                                                                         *)
(* The process's heap is modelled as allocations 1..MaxAllocs, each with   *)
(* its bytes (mem) and a state: unused, live or freed.  A Vector is        *)
(* [a, off, len], a slice of an allocation; NoVec is the empty Vector,    *)
(* whose Dispose deletes nullptr.  Integers are written as IntWidth bytes *)
(* and size_t as SizeWidth bytes, little-endian in base Base; the widths  *)
(* keep the ratio of the x64 build (int 4, size_t 8).  The process may    *)
(* crash between operations and, when CrashInWrite, part way through the  *)
(* WriteChars at cc:50, which has already truncated the file.             *)
(***************************************************************************)
EXTENDS Naturals, Sequences, SequencesExt, Functions

CONSTANTS
  Positions,     \* start positions of functions
  Codes,         \* byte strings a caller may hand to SetCode
  Base,          \* values of one byte
  IntWidth,      \* sizeof(int)
  SizeWidth,     \* sizeof(size_t)
  MaxAllocs,     \* allocations a process makes before it stops allocating
  DebugBuild,    \* whether DCHECKs abort
  CrashInWrite   \* whether the process may die inside WriteChars

Bytes == 0..(Base - 1)
Allocs == 1..MaxAllocs
NoVec == [a |-> 0, off |-> 0, len |-> 0]
Faults == {"none", "dcheck", "oob read", "double free", "invalid free"}

VARIABLES
  alive,      \* a CodeBlockDatabase object exists
  blocks,     \* code_blocks_: <<[pos, code, managed]>>
  buffer,     \* buffer_
  heap,       \* allocation -> "unused" | "live" | "freed"
  mem,        \* allocation -> its bytes
  nextAlloc,  \* allocations made so far by this process
  exists,     \* the database file exists
  file,       \* its bytes
  image,      \* positions -> code when the last Write began (history)
  torn,       \* the last Write died inside WriteChars (history)
  fault       \* undefined behaviour or a failed DCHECK, which ends the run
vars == <<alive, blocks, buffer, heap, mem, nextAlloc, exists, file, image, torn, fault>>

\* The bytes a Vector designates.
Content(v) == IF v = NoVec THEN <<>> ELSE SubSeq(mem[v.a], v.off + 1, v.off + v.len)

\* code_blocks_ read as a map from positions to code.
Contents(bs) == [p \in {bs[i].pos : i \in DOMAIN bs} |->
                   Content(bs[SelectInSeq(bs, LAMBDA b : b.pos = p)].code)]

LookupFromSecond(bs, p) == SelectInSubSeq(bs, 2, Len(bs), LAMBDA b : b.pos = p)
\* The loops of SetCode, HasCode, GetCode and RemoveCode: the index of the
\* first block at start position p, 0 when there is none.
Lookup(bs, p) == SelectInSeq(bs, LAMBDA b : b.pos = p)

\* SavePrimitive / LoadPrimitive of an integer of w bytes.
Enc(n, w) == [i \in 1..w |-> (n \div (Base ^ (i - 1))) % Base]
RECURSIVE Dec(_)
Dec(s) == IF s = <<>> THEN 0 ELSE Head(s) + Base * Dec(Tail(s))

BlockBytesSizeAsInt(acc, b) == acc \o Enc(b.pos, IntWidth) \o Enc(b.code.len, IntWidth)
                                   \o Content(b.code)
SerializeSizeAsInt(bs) == FoldLeft(BlockBytesSizeAsInt, Enc(Len(bs), SizeWidth), bs)
\* Write: the number of blocks, then for each its position, size and code.
BlockBytes(acc, b) == acc \o Enc(b.pos, IntWidth) \o Enc(b.code.len, SizeWidth)
                          \o Content(b.code)
Serialize(bs) == FoldLeft(BlockBytes, Enc(Len(bs), SizeWidth), bs)

(***************************************************************************)
(* Read's loop from read_pointer ptr (0-based) with k blocks to go, over  *)
(* buffer bytes buf held in allocation a.  The DCHECK at cc:26 allows 2   *)
(* ints of header where an int and a size_t are read; cc:30 guards the    *)
(* code.  In a release build the DCHECKs are empty and a read past the    *)
(* end of buffer_ is undefined.                                           *)
(***************************************************************************)
Parsed(bs, f) == [blocks |-> bs, fault |-> f]
RECURSIVE ParseBlocks(_, _, _, _)
ParseBlocks(buf, a, ptr, k) ==
  LET hdr == ptr + IntWidth + SizeWidth
      size == Dec(SubSeq(buf, ptr + IntWidth + 1, hdr))
      blk == [pos |-> Dec(SubSeq(buf, ptr + 1, ptr + IntWidth)),
              code |-> [a |-> a, off |-> hdr, len |-> size], managed |-> FALSE]
      rest == ParseBlocks(buf, a, hdr + size, k - 1)
  IN CASE k = 0 -> Parsed(<<>>, "none")
       [] DebugBuild /\ ptr + 2 * IntWidth > Len(buf) -> Parsed(<<>>, "dcheck")
       [] hdr > Len(buf) -> Parsed(<<>>, "oob read")
       [] DebugBuild /\ hdr + size > Len(buf) -> Parsed(<<>>, "dcheck")
       [] hdr + size > Len(buf) -> Parsed(<<>>, "oob read")
       [] OTHER -> Parsed(<<blk>> \o rest.blocks, rest.fault)

\* Read: the block count at cc:22 is read with no check at all.
ReadFile(buf, a) ==
  IF Len(buf) < SizeWidth THEN Parsed(<<>>, "oob read")
  ELSE ParseBlocks(buf, a, SizeWidth, Dec(SubSeq(buf, 1, SizeWidth)))

(***************************************************************************)
(* Vector::Dispose: delete[] of the start of the slice.  Deleting a slice *)
(* that does not start its allocation, or a freed one, is undefined; the   *)
(* first such fault is kept.                                               *)
(***************************************************************************)
Dispose(st, v) ==
  CASE st.fault # "none" \/ v = NoVec -> st
    [] v.off # 0 -> [st EXCEPT !.fault = "invalid free"]
    [] st.heap[v.a] # "live" -> [st EXCEPT !.fault = "double free"]
    [] OTHER -> [st EXCEPT !.heap[v.a] = "freed"]

DisposeIfNeededAlways(st, b) == Dispose(st, b.code)
\* CodeBlock::DisposeIfNeeded.
DisposeIfNeeded(st, b) == IF b.managed THEN Dispose(st, b.code) ELSE st

\* CodeBlock::SetCode: dispose the old code, then take the new one.
BlockSetCodeAssignFirst(st, b, v) ==
  DisposeIfNeeded(st, [b EXCEPT !.code = v, !.managed = TRUE])
BlockSetCode(st, b, v) == DisposeIfNeeded(st, b)

-----------------------------------------------------------------------------
\* A run of disposals applied to the heap; fault' is the first fault met.
Disposed(st) == /\ heap' = st.heap
                /\ fault' = st.fault
HeapState == [heap |-> heap, fault |-> fault]

Init == /\ alive = FALSE
        /\ blocks = <<>>
        /\ buffer = NoVec
        /\ heap = [a \in Allocs |-> "unused"]
        /\ mem = [a \in Allocs |-> <<>>]
        /\ nextAlloc = 0
        /\ exists = FALSE
        /\ file = <<>>
        /\ image = <<>>
        /\ torn = FALSE
        /\ fault = "none"

\* new CodeBlockDatabase(): no file name, so nothing is read.
Create == /\ fault = "none" /\ ~alive
          /\ alive' = TRUE
          /\ blocks' = <<>>
          /\ buffer' = NoVec
          /\ UNCHANGED <<heap, mem, nextAlloc, exists, file, image, torn, fault>>

\* new CodeBlockDatabase(filename): Read copies the file into a fresh
\* buffer_ (ReadFile) and slices every block's code out of it, unmanaged.
Load == /\ fault = "none" /\ ~alive
        /\ exists                 \* CHECK(exists)
        /\ nextAlloc < MaxAllocs
        /\ LET a == nextAlloc + 1
               r == ReadFile(file, a)
           IN /\ nextAlloc' = a
              /\ heap' = [heap EXCEPT ![a] = "live"]
              /\ mem' = [mem EXCEPT ![a] = file]
              /\ buffer' = [a |-> a, off |-> 0, len |-> Len(file)]
              /\ blocks' = r.blocks
              /\ fault' = r.fault
              /\ alive' = (r.fault = "none")
        /\ UNCHANGED <<exists, file, image, torn>>

\* SetCode(start_position, code): the caller hands over a new array c; an
\* existing block at p disposes its old code and takes c, else c is added.
SetCode == /\ fault = "none" /\ alive
           /\ nextAlloc < MaxAllocs
           /\ \E p \in Positions, c \in Codes :
                LET a == nextAlloc + 1
                    v == [a |-> a, off |-> 0, len |-> Len(c)]
                    i == Lookup(blocks, p)
                    st0 == [HeapState EXCEPT !.heap[a] = "live"]
                    st == IF i = 0 THEN st0 ELSE BlockSetCode(st0, blocks[i], v)
                IN /\ nextAlloc' = a
                   /\ mem' = [mem EXCEPT ![a] = c]
                   /\ Disposed(st)
                   /\ blocks' = IF i = 0
                                THEN Append(blocks, [pos |-> p, code |-> v, managed |-> TRUE])
                                ELSE [blocks EXCEPT ![i] = [@ EXCEPT !.code = v, !.managed = TRUE]]
           /\ UNCHANGED <<alive, buffer, exists, file, image, torn>>

\* RemoveCode(start_position) of a position that has a block.
RemoveCode == /\ fault = "none" /\ alive
              /\ \E p \in Positions :
                   /\ Lookup(blocks, p) # 0
                   /\ blocks' = RemoveAt(blocks, Lookup(blocks, p))
              /\ UNCHANGED <<alive, buffer, heap, mem, nextAlloc, exists, file, image, torn, fault>>

\* Write(filename) to completion.
Write == /\ fault = "none" /\ alive
         /\ exists' = TRUE
         /\ file' = Serialize(blocks)
         /\ image' = Contents(blocks)
         /\ torn' = FALSE
         /\ UNCHANGED <<alive, blocks, buffer, heap, mem, nextAlloc, fault>>

\* The process dies; its heap goes with it.  Inside WriteChars the file has
\* been truncated and only a prefix of the new bytes reached it.
ProcessGone == /\ alive' = FALSE
               /\ blocks' = <<>>
               /\ buffer' = NoVec
               /\ heap' = [a \in Allocs |-> "unused"]
               /\ mem' = [a \in Allocs |-> <<>>]
               /\ nextAlloc' = 0
Crash == /\ fault = "none"
         /\ ProcessGone
         /\ UNCHANGED <<exists, file, image, torn, fault>>
CrashInWriteChars ==
  /\ fault = "none" /\ alive /\ CrashInWrite
  /\ \E n \in 0..(Len(Serialize(blocks)) - 1) : file' = SubSeq(Serialize(blocks), 1, n)
  /\ exists' = TRUE
  /\ image' = Contents(blocks)
  /\ torn' = TRUE
  /\ ProcessGone
  /\ UNCHANGED fault

\* ~CodeBlockDatabase: dispose managed blocks, then buffer_.
Destroy == /\ fault = "none" /\ alive
           /\ Disposed(Dispose(FoldLeft(DisposeIfNeeded, HeapState, blocks), buffer))
           /\ alive' = FALSE
           /\ blocks' = <<>>
           /\ buffer' = NoVec
           /\ UNCHANGED <<mem, nextAlloc, exists, file, image, torn>>

Next == Create \/ Load \/ SetCode \/ RemoveCode \/ Write \/ Crash
          \/ CrashInWriteChars \/ Destroy
Spec == Init /\ [][Next]_vars
-----------------------------------------------------------------------------
Block == [pos : Positions, code : [a : Allocs, off : Nat, len : Nat], managed : BOOLEAN]

\* code_blocks_ is a map: SetCode reuses the block at a position, so no two
\* blocks share one, and the first-match loops of GetCode and RemoveCode
\* see every block.
TypeOK == /\ alive \in BOOLEAN
          /\ blocks \in Seq(Block)
          /\ IsInjective([i \in DOMAIN blocks |-> blocks[i].pos])
          /\ heap \in [Allocs -> {"unused", "live", "freed"}]
          /\ nextAlloc \in 0..MaxAllocs
          /\ fault \in Faults

\* Loading a file that a completed Write produced yields exactly the code
\* that was in the database when it was written (Write cc:39-55 and Read
\* cc:11-36 agree on the format).
PersistRoundTrip ==
  [][Load /\ ~torn => fault' = "none" /\ Contents(blocks)' = image]_vars

\* No block's code lives in freed memory: SetCode disposes only the code it
\* replaces, and unmanaged code stays inside the live buffer_.
NoDanglingCode == \A i \in DOMAIN blocks : heap[blocks[i].code.a] = "live"

\* No disposal is a double or an invalid delete[]: the destructor and
\* CodeBlock::SetCode dispose only managed code, each once.
DisposeSafe == fault \notin {"double free", "invalid free"}

\* Once the database is destroyed, every array it was handed has been
\* disposed (code handed to SetCode is owned by the database).
NoLeakOnDestroy == ~alive => \A a \in Allocs : heap[a] # "live"

\* Read never reads beyond buffer_: the DCHECKs at cc:26 and cc:30 stop a
\* file that does not hold what its header announces.
ReadStaysInBuffer == fault # "oob read"
====
