---------------------------- MODULE FunctionKeys ----------------------------
(***************************************************************************)
(* What the function reference resolver promises (spec section 4.5 and    *)
(* the "heuristic, non-unique function identity" note): a save of a       *)
(* sequence of function and SharedFunctionInfo references writes, for     *)
(* each, the first applicable key of a prioritized list, or fails         *)
(* explicitly when none applies; a load of the saved keys gives back, for *)
(* each, the very object that was saved, or fails (the destination        *)
(* cannot satisfy the request), and stops at the first failure.           *)
(*                                                                         *)
(* A heap h describes the source process:                                 *)
(*   h.fn[f]     the SharedFunctionInfo of f, whether f IsBuiltin and     *)
(*               whether its context is not the native context;           *)
(*   h.sfi[s]    its outer info, inner infos, start position, native     *)
(*               flag, builtin function id (0: none), name and script;   *)
(*   h.scope[n]  the value of n found in a context of the compiled       *)
(*               closure's chain, or NotInContext;                        *)
(*   h.global[n] the property n of the global object;                     *)
(*   h.dict      the global object's property dictionary: its keys, in   *)
(*               enumeration order, and whether each is deleted;          *)
(*   h.desc[f]   the functions of f's instance and prototype descriptors;*)
(*   h.source[x] the source text of script x.                             *)
(***************************************************************************)
EXTENDS Naturals, Sequences, SequencesExt

CONSTANTS
  Fns,          \* JSFunctions of the heap
  Sfis,         \* SharedFunctionInfos of the heap
  Other,        \* any value that is not one of Fns
  NotInContext, \* Context::Lookup found no context slot for the name
  NoName,       \* a SharedFunctionInfo whose name is not a string
  NIds          \* the number of indexed BuiltinFunctionIds

VARIABLES
  heap,         \* the source process, fixed for a behaviour
  refs,         \* the references to save, in order
  keys,         \* the keys saved: [by |-> strategy, of |-> the object]
  sst,          \* "ok" or "failed": the saver's status
  loaded,       \* the objects the load gave back, in order
  lst           \* "ok" or "failed": the loader's status

vars == <<heap, refs, keys, sst, loaded, lst>>

-----------------------------------------------------------------------------
(* Source text: whitespace, identifier characters, and the token that     *)
(* makes a function anonymous.                                            *)

Space == {" ", "\n"}
IdentChars == {"a", "c", "e", "f", "h", "i", "m", "n", "o", "p", "s", "t", "u", "x", "_", "1"}
FunctionWord == <<"f", "u", "n", "c", "t", "i", "o", "n">>

(* The identifier that ends where the whitespace before offset p starts  *)
(* (offsets count from 0): the longest run of identifier characters      *)
(* there, possibly empty.                                                  *)
PrecedingIdentifier(src, p) ==
  LET run(S, e) == CHOOSE b \in 0..e : /\ \A k \in b..(e - 1) : src[k + 1] \in S
                                      /\ (b = 0 \/ src[b] \notin S)
      e == run(Space, p)
  IN  SubSeq(src, run(IdentChars, e) + 1, e)

-----------------------------------------------------------------------------
(* The strategies, in priority order.                                     *)

Sfi(f) == heap.sfi[heap.fn[f].shared]
NameOf(f) == Sfi(f).name
Indexed(s) == heap.sfi[s].id \in 1..NIds

ByScope(f)  == NameOf(f) # NoName /\ heap.scope[NameOf(f)] = f
ByGlobal(f) == NameOf(f) # NoName /\ heap.global[NameOf(f)] = f
Ordinary(f) == ~Sfi(f).native /\ ~heap.fn[f].builtin

(* A global constructor whose own instance or prototype descriptors hold *)
(* a function sharing f's SharedFunctionInfo.                             *)
ByConstructor(f) ==
  \E i \in DOMAIN heap.dict :
    LET k == heap.dict[i].key
    IN  /\ k \in DOMAIN heap.global /\ ~heap.dict[i].deleted /\ heap.global[k] \in Fns
        /\ \E g \in Range(heap.desc[heap.global[k]].inst) \cup Range(heap.desc[heap.global[k]].proto) :
             g \in Fns /\ heap.fn[g].shared = heap.fn[f].shared

ByOriginalName(f) ==
  LET id == PrecedingIdentifier(heap.source[Sfi(f).script], Sfi(f).start)
  IN  id # <<>> /\ id # FunctionWord

NoKey == [by |-> "none", of |-> Other]

(* The first applicable key of a function, or NoKey: an ordinary inner   *)
(* function is rejected outright.                                         *)
FunctionKey(f) ==
  LET by == CASE Indexed(heap.fn[f].shared)         -> "builtin"
              [] ByScope(f)                         -> "scope"
              [] ByGlobal(f)                        -> "global"
              [] Ordinary(f) /\ heap.fn[f].inner    -> "none"
              [] Ordinary(f)                        -> "start"
              [] ByConstructor(f)                   -> "constructor"
              [] ByOriginalName(f)                  -> "original name"
              [] OTHER                              -> "none"
  IN  IF by = "none" THEN NoKey ELSE [by |-> by, of |-> f]

(* A SharedFunctionInfo: by builtin id when native, else by its path in  *)
(* the tree of its script.                                                 *)
SfiKey(s) ==
  CASE heap.sfi[s].native /\ Indexed(s) -> [by |-> "builtin", of |-> s]
    [] heap.sfi[s].native               -> NoKey
    [] OTHER                            -> [by |-> "path", of |-> s]

KeyOf(ref) == IF ref.kind = "fn" THEN FunctionKey(ref.x) ELSE SfiKey(ref.x)

-----------------------------------------------------------------------------
(* Save writes keys until one fails; Load, after a complete save, gives  *)
(* back each saved object until it fails.                                 *)

Init ==
  /\ keys = <<>> /\ sst = "ok" /\ loaded = <<>> /\ lst = "ok"

Save ==
  /\ sst = "ok" /\ Len(keys) < Len(refs)
  /\ LET k == KeyOf(refs[Len(keys) + 1])
     IN  IF k = NoKey THEN sst' = "failed" /\ UNCHANGED keys
         ELSE keys' = Append(keys, k) /\ UNCHANGED sst
  /\ UNCHANGED <<heap, refs, loaded, lst>>

Load ==
  /\ sst = "ok" /\ Len(keys) = Len(refs)
  /\ lst = "ok" /\ Len(loaded) < Len(keys)
  /\ \/ loaded' = Append(loaded, keys[Len(loaded) + 1].of) /\ UNCHANGED lst
     \/ lst' = "failed" /\ UNCHANGED loaded
  /\ UNCHANGED <<heap, refs, keys, sst>>

Next == Save \/ Load

Spec == Init /\ [][Next]_vars

(* The save and the load each run to their end: neither stops while it   *)
(* has a reference or a key left and has not failed.                     *)
LiveSpec == Spec /\ WF_vars(Next)

=============================================================================
