---------------------------- MODULE HydrogenShims ----------------------------
(***************************************************************************)
(* The hydrogen shim codec: LChunkSaver::Save<X>Shim and                  *)
(* LChunkLoader::Load<X>Shim of x64/lithium-saveload-x64.cc, and the      *)
(* shim classes of hydrogen-shim.h they read and rebuild.                 *)
(*                                                                         *)
(* A shim is a record of its class (cls) and its members (f). The saver  *)
(* reads members through the getters and appends one token per           *)
(* SavePrimitive call; the token's type is the C++ type of the call. The *)
(* loader reads tokens into locals and calls the loader constructor,      *)
(* which assigns its parameters to members. Three tables per class keep  *)
(* the three pieces of code apart: SaveItems (the saver), LoadItems and  *)
(* LoadArgs (the loader and its constructor call), Params (the            *)
(* constructor's initializer list).                                        *)
(*                                                                         *)
(* LoadPrimitive is a reinterpret_cast at the cursor with no check, so a  *)
(* read of a type whose width differs from the type written there, or of *)
(* the inside of a nested object, returns garbage and leaves the cursor  *)
(* out of step: from then on every read is garbage (skew).               *)
(* Nested objects (maps, functions, shared function infos, heap objects,  *)
(* fixed arrays, strings) are abstracted to a head token, the primitive   *)
(* their loader reads first, and a rest token that stands for the bytes   *)
(* after it. Heap says how each one loads.                                *)
(***************************************************************************)
EXTENDS Naturals, Sequences, SequencesExt, FiniteSets

CONSTANTS
  Shims,      \* the shims that can be saved, one per class or variant
  Outcomes,   \* per object kind, the ways its nested load can end
  Null,       \* a null handle, pointer or MaybeHandle (a model value)
  Garbage     \* a value read from the wrong bytes (a model value)

(* How a nested object load ends: it reads the whole object; it fails   *)
(* part way with the rest unread (LoadFixedArrayData returning on a      *)
(* failed element, MapLoader failing inside the chain); it reads the     *)
(* whole object and then fails (LoadJSFunction not finding the function);*)
(* a named global was re-laid out (the map loads, but differs).          *)
LoadResults == {"ok", "partial", "late", "relaid"}

ObjKinds == {"map", "fn", "sfi", "heap", "farray", "string", "name", "chars"}

(* The first primitive each object loader reads: LoadMap the root index,*)
(* LoadJSFunction and LoadSharedFunctionInfo the FunctionRelocationType, *)
(* LoadHeapObject the DetailedInstanceType, LoadFixedArray the int       *)
(* length, LoadString and LoadPrimitiveArray the size_t length, LoadName *)
(* the is_string flag.                                                    *)
ObjHead(kind) ==
  CASE kind \in {"map", "fn", "sfi", "heap"} -> "enum"
    [] kind = "farray"                       -> "int"
    [] kind \in {"string", "chars"}          -> "size_t"
    [] kind = "name"                         -> "bool"

(* sizeof of the C++ types the shims are written with on x64. Every enum *)
(* (Token::Value, ElementsKind, Representation::Kind, ...) is an int.    *)
(* Mutant: the width table without the one-byte ToBooleanStub::Types.   *)
WidthNoByte(t) ==
  CASE t \in {"bool", "char", "uint8"}             -> 1
    [] t \in {"int", "int32", "uint32", "enum"}    -> 4
    [] t \in {"double", "size_t"}                  -> 8
    [] OTHER                                       -> 0

Width(t) ==
  CASE t \in {"bool", "char", "byte", "uint8"}     -> 1
    [] t \in {"int", "int32", "uint32", "enum"}    -> 4
    [] t \in {"double", "size_t"}                  -> 8
    [] OTHER                                       -> 0

(* A read of type t at a token of type u gets the value written there.   *)
(* The rest of an object has no primitive width: only the object's own  *)
(* loader reads it.                                                       *)
Aligned(u, t) == u = t \/ (Width(u) = Width(t) /\ Width(t) > 0)

VARIABLES
  src,     \* the shim being saved
  heap,    \* per nested object of src: how its load ends
  out,     \* the saver's bytes_: a sequence of [t |-> type, v |-> value]
  rd,      \* the loader: cursor, status, skew, fault, last value
  pc       \* "save", "load" or "done"

vars == <<src, heap, out, rd, pc>>

-----------------------------------------------------------------------------
(* The saver. SavePrimitive<T> appends one value of type T.               *)

Put(o, t, v) == Append(o, [t |-> t, v |-> v])

(* A nested object: its head and its rest.                               *)
PutObj(o, kind, x) == Put(Put(o, ObjHead(kind), x), "rest", x)

HValueMembers == <<"id", "block_id", "position", "representation", "type", "flags">>

-----------------------------------------------------------------------------
(* The loader: LoadPrimitive, LoadBool and Fail of LChunkLoaderBase.      *)

InitReader(o) ==
  [in |-> o, pos |-> 1, st |-> "ok", skew |-> "never", fault |-> "none", val |-> Null]

Failed(r) == [r EXCEPT !.st = "failed"]

Faulted(r, why) == IF r.fault = "none" THEN [r EXCEPT !.fault = why] ELSE r

(* One LoadPrimitive<t>. A read past the shim's bytes reads the next     *)
(* instruction's; both that and a misaligned read put the cursor out of  *)
(* step, and skew records the status at the first such read.              *)
Read(r, t) ==
  CASE r.skew # "never" -> [r EXCEPT !.val = Garbage]
    [] r.pos <= Len(r.in) /\ Aligned(r.in[r.pos].t, t) ->
         [r EXCEPT !.pos = @ + 1, !.val = r.in[r.pos].v]
    [] OTHER -> [r EXCEPT !.pos = @ + 1, !.skew = r.st, !.val = Garbage]

(* A nested object load (LoadMap, LoadJSFunction, LoadFixedArray, ...).   *)
(* On garbage its loader takes a length or index from the wrong bytes   *)
(* and reads or allocates out of bounds.                                  *)
LoadObjFrom(r, ld) ==
  CASE ld = "ok"      -> [Read(r, "rest") EXCEPT !.val = r.val]
    [] ld = "partial" -> [Failed(r) EXCEPT !.val = Null]
    [] ld = "late"    -> [Failed(Read(r, "rest")) EXCEPT !.val = Null]
    [] ld = "relaid"  -> [Read(r, "rest") EXCEPT !.val = r.val]

LoadObj(r, kind, hp) ==
  LET r1 == Read(r, ObjHead(kind))
  IN IF r1.val \notin DOMAIN hp THEN [Faulted(r1, "wild read") EXCEPT !.val = Null]
     ELSE LoadObjFrom(r1, hp[r1.val])


-----------------------------------------------------------------------------
(* The shim classes of hydrogen-shim.h. Cls(base, own, kinds): the base   *)
(* class, the members the loader constructor assigns, in the order of its *)
(* parameters, and the kind of each member that is not a primitive: a     *)
(* nested HValueShim ("shim") or a handle to a heap object.              *)

NoKinds == <<>>

Cls(base, own, kinds) == [base |-> base, own |-> own, kinds |-> kinds]

HValueShim == Cls("none", HValueMembers, NoKinds)
HStoreContextSlotShim ==
  Cls("HValue", <<"slot_index", "mode", "needs_write_barrier", "check_needed">>, NoKinds)
HBinaryOperationShim ==
  Cls("HValue", <<"left_representation", "right_representation">>, NoKinds)
HCompareGenericShim == Cls("HValue", <<"token">>, NoKinds)
HBitwiseShim == Cls("HBinaryOperation", <<"op", "is_integer32">>, NoKinds)
HControlInstructionShim == Cls("HValue", <<"true_block_id", "false_block_id">>, NoKinds)
HCompareMapShim == Cls("HControlInstruction", <<"map">>, "map" :> "map")
HUnaryControlInstructionShim == Cls("HControlInstruction", <<"value">>, "value" :> "shim")
HBranchShim == Cls("HUnaryControlInstruction", <<"expected_input_types">>, NoKinds)
HUnaryOperationShim == Cls("HValue", <<"value">>, "value" :> "shim")
HChangeShim == Cls("HUnaryOperation", <<"can_convert_undefined_to_nan">>, NoKinds)
HUnaryMathOperationShim == Cls("HValue", <<"value">>, "value" :> "shim")
HKeyedShim ==
  Cls("HValue", <<"key", "elements_kind", "base_offset", "is_dehoisted">>, "key" :> "shim")
HStoreKeyedShim ==
  Cls("HKeyed", <<"value", "store_mode", "needs_write_barrier", "needs_canonicalization",
                  "pointers_to_here_check_for_value">>, "value" :> "shim")
HLoadKeyedShim == Cls("HKeyed", <<"requires_hole_check">>, NoKinds)
HStoreKeyedGenericShim == Cls("HValue", <<"strict_mode">>, NoKinds)
HStringCharFromCodeShim == Cls("HValue", <<"value">>, "value" :> "shim")
HCompareNumericAndBranchShim ==
  Cls("HControlInstruction", <<"token", "is_double", "is_unsigned">>, NoKinds)
HStringCompareAndBranchShim == Cls("HControlInstruction", <<"token">>, NoKinds)
HDeoptimizeShim == Cls("HValue", <<"reason", "type">>, "reason" :> "chars")
HFunctionLiteralShim ==
  Cls("HValue", <<"shared_info", "pretenure", "has_no_literals", "kind", "strict_mode">>,
      "shared_info" :> "sfi")
HLoadContextSlotShim == Cls("HValue", <<"slot_index", "mode">>, NoKinds)
HStackCheckShim == Cls("HValue", <<"type">>, NoKinds)
HAddShim == Cls("HBinaryOperation", <<"use_lea">>, NoKinds)
HMathMinMaxShim == Cls("HBinaryOperation", <<"operation">>, NoKinds)
HPowerShim == Cls("HValue", <<"left_representation", "right_representation">>, NoKinds)
HCheckValueShim == Cls("HValue", <<"object">>, "object" :> "heap")
HCheckMapsShim == Cls("HValue", <<"bit_field", "maps">>, "maps" :> "maps")
HDeclareGlobalsShim == Cls("HValue", <<"pairs", "flags">>, "pairs" :> "farray")
HCallShim == Cls("HValue", <<"argument_count">>, NoKinds)
HCallRuntimeShim == Cls("HCall", <<"function", "save_doubles">>, NoKinds)
HCallJSFunctionShim ==
  Cls("HCall", <<"function", "pass_argument_count">>, "function" :> "fn")
HCallFunctionShim == Cls("HCall", <<"function_flags">>, NoKinds)
(* The loader constructor takes no member of its own: known_function_ is *)
(* left null and formal_parameter_count_ is -1 (see Defaults).            *)
HInvokeFunctionShim ==
  Cls("HCall", <<>>, ("known_function" :> "fn") @@ ("formal_parameter_count" :> "p"))
HCallNewArrayShim == Cls("HCall", <<"elements_kind">>, NoKinds)
HGlobalCellShim ==
  Cls("HValue", <<"name", "cell", "requires_hole_check">>,
      ("name" :> "string") @@ ("cell" :> "cell"))
HDoubleBitsShim == Cls("HValue", <<"bits">>, NoKinds)
(* Two loader constructors: (first, last) sets is_interval_check_, and   *)
(* (mask, tag) clears it; the union u holds one pair or the other.       *)
HCheckInstanceTypeShim == Cls("HValue", <<"is_interval_check", "u">>, NoKinds)
HLoadNamedFieldShim == Cls("HValue", <<"access">>, NoKinds)
HBoundsCheckShim ==
  Cls("HValue", <<"skip_check", "allow_equality", "index", "length">>,
      ("index" :> "shim") @@ ("length" :> "shim"))
HDoubleToIShim == Cls("HValue", <<"can_truncate_to_int32">>, NoKinds)
HStoreNamedFieldShim ==
  Cls("HLoadNamedField", <<"needs_write_barrier", "needs_write_barrier_for_map",
      "transition_map", "value", "pointers_to_here_check_for_value", "bit_field">>,
      ("transition_map" :> "map") @@ ("value" :> "shim"))
HStoreNamedGenericShim == Cls("HValue", <<"name", "strict_mode">>, "name" :> "heap")
HLoadNamedGenericShim == Cls("HValue", <<"name">>, "name" :> "heap")
HAllocateShim == Cls("HValue", <<"flags">>, NoKinds)
HTransitionElementsKindShim ==
  Cls("HValue", <<"original_map", "transitioned_map", "from_kind", "to_kind">>,
      ("original_map" :> "map") @@ ("transitioned_map" :> "map"))
HLoadRootShim == Cls("HValue", <<"index">>, NoKinds)
HStringAddShim == Cls("HValue", <<"flags", "pretenure_flag">>, NoKinds)
HLoadGlobalGenericShim == Cls("HValue", <<"name", "for_typeof">>, "name" :> "name")
HForInCacheArrayShim == Cls("HValue", <<"idx">>, NoKinds)
HRegExpLiteralShim ==
  Cls("HValue", <<"literals", "literal_index", "pattern", "flags">>,
      ("literals" :> "farray") @@ ("pattern" :> "string") @@ ("flags" :> "string"))
HArgumentsElementsShim == Cls("HValue", <<"from_inlined">>, NoKinds)
HWrapReceiverShim == Cls("HValue", <<"known_function">>, NoKinds)
HInstanceOfKnownGlobalShim == Cls("HValue", <<"function">>, "function" :> "fn")
HTypeofIsAndBranchShim ==
  Cls("HControlInstruction", <<"type_literal">>, "type_literal" :> "string")


-----------------------------------------------------------------------------
(* The codec of each class: Save<X>Shim and Load<X>Shim. An item of a     *)
(* saver names a member; an item of a loader names the local it assigns.  *)
(*   B(c)       Save<c>Shim(shim) / auto base_shim = Load<c>Shim()        *)
(*   P(t, x)    SavePrimitive<t>, or LoadPrimitive<t> ("char": LoadBool) *)
(*   V(x)       SaveHValueShim / LoadHValueShim of a nested shim          *)
(*   O(k, x)    the saver and loader of a heap object of kind k           *)
(*   OC(k, x)   the same load, then RETURN_VALUE_ON_FAIL                  *)
(*   Opt(k, x)  SaveTrue and the object, or SaveFalse for a null handle;  *)
(*              if (LoadBool()) RETURN_VALUE_ON_FAIL(x = Load...)         *)
(* Codec(save, load, args): args is the loader constructor call, after  *)
(* base_shim.                                                             *)

B(c) == [k |-> "b", c |-> c]
P(t, x) == [k |-> "p", t |-> t, x |-> x]
V(x) == [k |-> "v", x |-> x]
O(kind, x) == [k |-> "o", kind |-> kind, x |-> x]
OC(kind, x) == [k |-> "oc", kind |-> kind, x |-> x]
Opt(kind, x) == [k |-> "opt", kind |-> kind, x |-> x]

Codec(save, load, args) == [save |-> save, load |-> load, args |-> args]

SaveLoadHValueShim ==
  Codec(<<P("int", "id"), P("int", "block_id"), P("int", "position"),
          P("enum", "representation"), P("enum", "type"), P("int", "flags")>>,
        <<P("int", "id"), P("int", "block_id"), P("int", "position"),
          P("enum", "representation"), P("enum", "type"), P("int", "flags")>>,
        HValueMembers)
SaveLoadHStoreContextSlotShim ==
  Codec(<<B("HValue"), P("int", "slot_index"), P("enum", "mode"),
          P("bool", "needs_write_barrier"), P("enum", "check_needed")>>,
        <<B("HValue"), P("int", "slot_index"), P("enum", "mode"),
          P("bool", "needs_write_barrier"), P("enum", "check_needed")>>,
        <<"slot_index", "mode", "needs_write_barrier", "check_needed">>)
SaveLoadHCompareGenericShim ==
  Codec(<<B("HValue"), P("enum", "token")>>, <<B("HValue"), P("enum", "token")>>, <<"token">>)
SaveLoadHBitwiseShim ==
  Codec(<<B("HBinaryOperation"), P("enum", "op"), P("bool", "is_integer32")>>,
        <<B("HBinaryOperation"), P("enum", "op"), P("bool", "is_integer32")>>,
        <<"op", "is_integer32">>)
SaveLoadHUnaryControlInstructionShim ==
  Codec(<<B("HControlInstruction"), V("value")>>, <<B("HControlInstruction"), V("value")>>,
        <<"value">>)
SaveLoadHUnaryOperationShim ==
  Codec(<<B("HValue"), V("value")>>, <<B("HValue"), V("value")>>, <<"value">>)
SaveLoadHChangeShim ==
  Codec(<<B("HUnaryOperation"), P("bool", "can_convert_undefined_to_nan")>>,
        <<B("HUnaryOperation"), P("char", "can_convert_undefined_to_nan")>>,
        <<"can_convert_undefined_to_nan">>)
SaveLoadHUnaryMathOperationShim ==
  Codec(<<B("HValue"), V("value")>>, <<B("HValue"), V("value")>>, <<"value">>)
SaveLoadHKeyedShim ==
  Codec(<<B("HValue"), V("key"), P("enum", "elements_kind"), P("uint32", "base_offset"),
          P("bool", "is_dehoisted")>>,
        <<B("HValue"), V("key"), P("enum", "elements_kind"), P("uint32", "base_offset"),
          P("char", "is_dehoisted")>>,
        <<"key", "elements_kind", "base_offset", "is_dehoisted">>)
SaveLoadHStoreKeyedShim ==
  Codec(<<B("HKeyed"), V("value"), P("enum", "store_mode"), P("bool", "needs_write_barrier"),
          P("bool", "needs_canonicalization"), P("enum", "pointers_to_here_check_for_value")>>,
        <<B("HKeyed"), V("value"), P("enum", "store_mode"), P("char", "needs_write_barrier"),
          P("char", "needs_canonicalization"), P("enum", "pointers_to_here_check_for_value")>>,
        <<"value", "store_mode", "needs_write_barrier", "needs_canonicalization",
          "pointers_to_here_check_for_value">>)
SaveLoadHLoadKeyedShim ==
  Codec(<<B("HKeyed"), P("bool", "requires_hole_check")>>,
        <<B("HKeyed"), P("char", "requires_hole_check")>>, <<"requires_hole_check">>)
SaveLoadHStoreKeyedGenericShim ==
  Codec(<<B("HValue"), P("enum", "strict_mode")>>, <<B("HValue"), P("enum", "strict_mode")>>,
        <<"strict_mode">>)
SaveLoadHStringCharFromCodeShim ==
  Codec(<<B("HValue"), V("value")>>, <<B("HValue"), V("value")>>, <<"value">>)
SaveLoadHCompareNumericAndBranchShim ==
  Codec(<<B("HControlInstruction"), P("enum", "token"), P("bool", "is_double"),
          P("bool", "is_unsigned")>>,
        <<B("HControlInstruction"), P("enum", "token"), P("bool", "is_double"),
          P("bool", "is_unsigned")>>,
        <<"token", "is_double", "is_unsigned">>)
SaveLoadHStringCompareAndBranchShim ==
  Codec(<<B("HControlInstruction"), P("enum", "token")>>,
        <<B("HControlInstruction"), P("enum", "token")>>, <<"token">>)
(* The loader copies the reason into a fresh NUL-terminated array.        *)
SaveLoadHDeoptimizeShim ==
  Codec(<<B("HValue"), O("chars", "reason"), P("enum", "type")>>,
        <<B("HValue"), O("chars", "reason"), P("enum", "type")>>, <<"reason", "type">>)
SaveLoadHFunctionLiteralShim ==
  Codec(<<B("HValue"), O("sfi", "shared_info"), P("bool", "pretenure"),
          P("bool", "has_no_literals"), P("enum", "kind"), P("enum", "strict_mode")>>,
        <<B("HValue"), OC("sfi", "shared_info"), P("char", "pretenure"),
          P("bool", "has_no_literals"), P("enum", "kind"), P("enum", "strict_mode")>>,
        <<"shared_info", "pretenure", "has_no_literals", "kind", "strict_mode">>)
SaveLoadHLoadContextSlotShim ==
  Codec(<<B("HValue"), P("int", "slot_index"), P("enum", "mode")>>,
        <<B("HValue"), P("int", "slot_index"), P("enum", "mode")>>, <<"slot_index", "mode">>)

(* HConstantShim: the members the loader constructors set, and what only *)
(* the saver can ask of hydrogen_ (Name, IsBuiltin, ContextOwner,        *)
(* CodeRelocation). bit_field holds HasInt32Value, HasDoubleValue and   *)
(* HasExternalReferenceValue.                                             *)
HConstantShim ==
  Cls("HValue", <<"object", "int32_value", "double_value", "external_reference_value",
                  "bit_field">>, "hydrogen" :> "p")

(* The doubles a constant can hold, one per case the saver tells apart:  *)
(* a Smi-valued double, a fraction, and minus zero. DoubleToInt32        *)
(* truncates; FastI2D converts back; IsSmiDouble is false for -0.0.      *)
DoubleToInt32 == ("1.0" :> 1) @@ ("1.5" :> 1) @@ ("-0.0" :> 0) @@ ("0.0" :> 0)
FastI2D == (1 :> "1.0") @@ (0 :> "0.0")
IsSmiDouble(d) == d = "1.0"

(* Objects a constant holds: <<class, payload>>.                          *)
Literals == <<"literals", "closure">>    \* info()->closure()->literals()
CK(m) == <<"HConstant", m>>

(* The ConstantType the saver picks, in the order of its tests.           *)
ConstantType(f) ==
  LET r == f[<<"HValue", "representation">>]
      obj == f[CK("object")]
  IN CASE f[CK("bit_field")].ext -> "kExternalReference"
       [] obj = Null -> IF IsSmiDouble(f[CK("double_value")]) THEN "kInteger" ELSE "kDouble"
       [] r \in {"Smi", "Integer32"} \/ (r = "Tagged" /\ obj[1] = "smi") -> "kInteger"
       [] r = "Double" \/ (r = "Tagged" /\ obj[1] = "heapnumber") -> "kDouble"
       [] f[CK("hydrogen")].name # Null -> "kNamed"
       [] obj = Literals -> "kLiteralsArray"
       [] obj[1] = "context" -> "kContext"
       [] obj[1] = "code" -> "kCode"
       [] OTHER -> "kOther"

(* The payload of each ConstantType. kInteger, kDouble and               *)
(* kExternalReference return at once; the others end with int32_value_  *)
(* and double_value_.                                                     *)
PutConstantPayload(o, f, type) ==
  LET h == f[CK("hydrogen")]
      obj == f[CK("object")]
  IN CASE type = "kInteger" -> Put(o, "int32", f[CK("int32_value")])
       [] type = "kDouble" -> Put(o, "double", f[CK("double_value")])
       [] type = "kExternalReference" -> Put(o, "uint32", f[CK("external_reference_value")])
       [] type = "kNamed" ->
            PutObj(Put(PutObj(o, "string", <<"string", h.name>>), "bool", h.is_builtin),
                   "map", <<"map", h.name>>)
       [] type = "kLiteralsArray" -> o
       [] type = "kContext" -> PutObj(o, "fn", h.owner)
       [] type = "kCode" ->
            IF h.reloc.type = "api"
            THEN Put(Put(Put(Put(o, "enum", "api"), "bool", h.reloc.is_store), "bool",
                         h.reloc.call_data_undefined), "int", h.reloc.argc)
            ELSE Put(o, "enum", h.reloc.type)
       [] type = "kOther" -> PutObj(o, "heap", obj)

PutConstantTail(o, f, type) ==
  IF type \in {"kInteger", "kDouble", "kExternalReference"} THEN o
  ELSE Put(Put(o, "int32", f[CK("int32_value")]), "double", f[CK("double_value")])

SaveHConstantShimFrom(o, f, type) ==
  PutConstantTail(PutConstantPayload(Put(Put(o, "int32", f[CK("bit_field")]), "enum", type),
                                     f, type), f, type)

SaveLoadHStackCheckShim ==
  Codec(<<B("HValue"), P("enum", "type")>>, <<B("HValue"), P("enum", "type")>>, <<"type">>)
SaveLoadHControlInstructionShim ==
  Codec(<<B("HValue"), P("int", "true_block_id"), P("int", "false_block_id")>>,
        <<B("HValue"), P("int", "true_block_id"), P("int", "false_block_id")>>,
        <<"true_block_id", "false_block_id">>)
SaveLoadHCompareMapShim ==
  Codec(<<B("HControlInstruction"), O("map", "map")>>,
        <<B("HControlInstruction"), OC("map", "map")>>, <<"map">>)
SaveLoadHBinaryOperationShim ==
  Codec(<<B("HValue"), P("enum", "left_representation"), P("enum", "right_representation")>>,
        <<B("HValue"), P("enum", "left_representation"), P("enum", "right_representation")>>,
        <<"left_representation", "right_representation">>)
SaveLoadHAddShim ==
  Codec(<<B("HBinaryOperation"), P("bool", "use_lea")>>,
        <<B("HBinaryOperation"), P("bool", "use_lea")>>, <<"use_lea">>)
SaveLoadHMathMinMaxShim ==
  Codec(<<B("HBinaryOperation"), P("enum", "operation")>>,
        <<B("HBinaryOperation"), P("enum", "operation")>>, <<"operation">>)
SaveLoadHPowerShim ==
  Codec(<<B("HValue"), P("enum", "left_representation"), P("enum", "right_representation")>>,
        <<B("HValue"), P("enum", "left_representation"), P("enum", "right_representation")>>,
        <<"left_representation", "right_representation">>)
SaveLoadHCheckValueShim ==
  Codec(<<B("HValue"), O("heap", "object")>>, <<B("HValue"), O("heap", "object")>>, <<"object">>)
(* The map list: its size, then each map. The saver stops at a failed    *)
(* map; the loader loops with no check and hands each handle to          *)
(* Unique<Map>::CreateImmovable.                                           *)
SaveLoadHCheckMapsShim ==
  Codec(<<B("HValue"), P("uint32", "bit_field"), [k |-> "maps", x |-> "maps"]>>,
        <<B("HValue"), P("uint32", "bit_field"), [k |-> "maps", x |-> "maps"]>>,
        <<"bit_field", "maps">>)
SaveLoadHDeclareGlobalsShim ==
  Codec(<<B("HValue"), O("farray", "pairs"), P("int", "flags")>>,
        <<B("HValue"), O("farray", "pairs"), P("int", "flags")>>, <<"pairs", "flags">>)
SaveLoadHCallShim ==
  Codec(<<B("HValue"), P("int", "argument_count")>>, <<B("HValue"), P("int", "argument_count")>>,
        <<"argument_count">>)
(* The loader looks the cell up again: EnsurePropertyCell(global, name).  *)
SaveLoadHGlobalCellShim ==
  Codec(<<B("HValue"), P("bool", "requires_hole_check"), O("string", "name")>>,
        <<B("HValue"), P("bool", "requires_hole_check"), O("string", "name"),
          [k |-> "cell", x |-> "cell", of |-> "name"]>>,
        <<"name", "cell", "requires_hole_check">>)
(* function()->function_id, and Runtime::FunctionForId back.              *)
SaveLoadHCallRuntimeShim ==
  Codec(<<B("HCall"), P("enum", "save_doubles"), P("enum", "function")>>,
        <<B("HCall"), P("enum", "save_doubles"), P("enum", "function_id")>>,
        <<"function_id", "save_doubles">>)
SaveLoadHDoubleBitsShim ==
  Codec(<<B("HValue"), P("enum", "bits")>>, <<B("HValue"), P("enum", "bits")>>, <<"bits">>)
SaveLoadHCallJSFunctionShim ==
  Codec(<<B("HCall"), P("bool", "pass_argument_count"), Opt("fn", "function")>>,
        <<B("HCall"), P("char", "pass_argument_count"), Opt("fn", "function")>>,
        <<"function", "pass_argument_count">>)
SaveLoadHCallFunctionShim ==
  Codec(<<B("HCall"), P("enum", "function_flags")>>, <<B("HCall"), P("enum", "function_flags")>>,
        <<"function_flags">>)
SaveLoadHInvokeFunctionShim == Codec(<<B("HCall")>>, <<B("HCall")>>, <<>>)
SaveLoadHCallNewArrayShim ==
  Codec(<<B("HCall"), P("enum", "elements_kind")>>, <<B("HCall"), P("enum", "elements_kind")>>,
        <<"elements_kind">>)
(* is_interval_check, then (first, last) as InstanceTypes or (mask, tag) *)
(* as uint8_t; the loader picks the constructor by the flag.             *)
SaveLoadHCheckInstanceTypeShim ==
  Codec(<<B("HValue"), [k |-> "union", x |-> "u"]>>, <<B("HValue"), [k |-> "union", x |-> "u"]>>,
        <<"is_interval_check", "u">>)
SaveLoadHLoadNamedFieldShim ==
  Codec(<<B("HValue"), P("uint32", "access")>>, <<B("HValue"), P("uint32", "value")>>, <<"value">>)
(* Mutant: the two flags passed to the constructor in each other's place. *)
SaveLoadHBoundsCheckShimSwapped ==
  Codec(<<B("HValue"), P("bool", "skip_check"), P("bool", "allow_equality"), V("index"),
          V("length")>>,
        <<B("HValue"), P("char", "skip_check"), P("char", "allow_equality"), V("index"),
          V("length")>>,
        <<"allow_equality", "skip_check", "index", "length">>)
SaveLoadHBoundsCheckShim ==
  Codec(<<B("HValue"), P("bool", "skip_check"), P("bool", "allow_equality"), V("index"),
          V("length")>>,
        <<B("HValue"), P("char", "skip_check"), P("char", "allow_equality"), V("index"),
          V("length")>>,
        <<"skip_check", "allow_equality", "index", "length">>)
SaveLoadHDoubleToIShim ==
  Codec(<<B("HValue"), P("bool", "can_truncate_to_int32")>>,
        <<B("HValue"), P("char", "can_truncate_to_int32")>>, <<"can_truncate_to_int32">>)
SaveLoadHStoreNamedFieldShim ==
  Codec(<<B("HLoadNamedField"), P("bool", "needs_write_barrier"),
          P("bool", "needs_write_barrier_for_map"), V("value"),
          P("enum", "pointers_to_here_check_for_value"), P("uint32", "bit_field"),
          Opt("map", "transition_map")>>,
        <<B("HLoadNamedField"), P("char", "needs_write_barrier"),
          P("char", "needs_write_barrier_for_map"), V("value"),
          P("enum", "pointers_to_here_check_for_value"), P("uint32", "bit_field"),
          Opt("map", "transition_map")>>,
        <<"needs_write_barrier", "needs_write_barrier_for_map", "transition_map", "value",
          "pointers_to_here_check_for_value", "bit_field">>)
SaveLoadHStoreNamedGenericShim ==
  Codec(<<B("HValue"), O("heap", "name"), P("enum", "strict_mode")>>,
        <<B("HValue"), O("heap", "name"), P("enum", "strict_mode")>>, <<"name", "strict_mode">>)
SaveLoadHLoadNamedGenericShim ==
  Codec(<<B("HValue"), O("heap", "name")>>, <<B("HValue"), O("heap", "name")>>, <<"name">>)
SaveLoadHAllocateShim ==
  Codec(<<B("HValue"), P("enum", "flags")>>, <<B("HValue"), P("enum", "flags")>>, <<"flags">>)
(* ToBooleanStub::Types as its byte, ToByte and back.                     *)
SaveLoadHBranchShim ==
  Codec(<<B("HUnaryControlInstruction"), P("byte", "expected_input_types")>>,
        <<B("HUnaryControlInstruction"), P("byte", "bits")>>, <<"bits">>)
SaveLoadHTransitionElementsKindShim ==
  Codec(<<B("HValue"), O("map", "original_map"), O("map", "transitioned_map"),
          P("enum", "from_kind"), P("enum", "to_kind")>>,
        <<B("HValue"), OC("map", "original_map"), OC("map", "transitioned_map"),
          P("enum", "from_kind"), P("enum", "to_kind")>>,
        <<"original_map", "transitioned_map", "from_kind", "to_kind">>)
(* Mutant: the loader reads a field the saver does not write.           *)
SaveLoadHLoadRootShimExtra ==
  Codec(<<B("HValue"), P("enum", "index")>>, <<B("HValue"), P("enum", "index"), P("enum", "mode")>>,
        <<"index">>)
SaveLoadHLoadRootShim ==
  Codec(<<B("HValue"), P("enum", "index")>>, <<B("HValue"), P("enum", "index")>>, <<"index">>)
SaveLoadHStringAddShim ==
  Codec(<<B("HValue"), P("enum", "flags"), P("enum", "pretenure_flag")>>,
        <<B("HValue"), P("enum", "flags"), P("enum", "pretenure_flag")>>,
        <<"flags", "pretenure_flag">>)
SaveLoadHLoadGlobalGenericShim ==
  Codec(<<B("HValue"), O("name", "name"), P("bool", "for_typeof")>>,
        <<B("HValue"), O("name", "name"), P("bool", "for_typeof")>>, <<"name", "for_typeof">>)
SaveLoadHForInCacheArrayShim ==
  Codec(<<B("HValue"), P("int", "idx")>>, <<B("HValue"), P("int", "idx")>>, <<"idx">>)
SaveLoadHRegExpLiteralShim ==
  Codec(<<B("HValue"), O("farray", "literals"), P("int", "literal_index"),
          O("string", "pattern"), O("string", "flags")>>,
        <<B("HValue"), O("farray", "literals"), P("int", "literal_index"),
          O("string", "pattern"), O("string", "flags")>>,
        <<"literals", "literal_index", "pattern", "flags">>)
SaveLoadHArgumentsElementsShim ==
  Codec(<<B("HValue"), P("bool", "from_inlined")>>, <<B("HValue"), P("bool", "from_inlined")>>,
        <<"from_inlined">>)
SaveLoadHWrapReceiverShim ==
  Codec(<<B("HValue"), P("bool", "known_function")>>,
        <<B("HValue"), P("bool", "known_function")>>, <<"known_function">>)
SaveLoadHInstanceOfKnownGlobalShim ==
  Codec(<<B("HValue"), O("fn", "function")>>, <<B("HValue"), OC("fn", "function")>>,
        <<"function">>)
SaveLoadHTypeofIsAndBranchShim ==
  Codec(<<B("HControlInstruction"), O("string", "type_literal")>>,
        <<B("HControlInstruction"), O("string", "type_literal")>>, <<"type_literal">>)


-----------------------------------------------------------------------------
(* The class tables, by the names the codec uses (HKeyed for HKeyedShim). *)

Classes ==
  ("HValue" :> HValueShim) @@ ("HStoreContextSlot" :> HStoreContextSlotShim)
  @@ ("HBinaryOperation" :> HBinaryOperationShim) @@ ("HCompareGeneric" :> HCompareGenericShim)
  @@ ("HBitwise" :> HBitwiseShim) @@ ("HControlInstruction" :> HControlInstructionShim)
  @@ ("HCompareMap" :> HCompareMapShim)
  @@ ("HUnaryControlInstruction" :> HUnaryControlInstructionShim)
  @@ ("HBranch" :> HBranchShim) @@ ("HUnaryOperation" :> HUnaryOperationShim)
  @@ ("HChange" :> HChangeShim) @@ ("HUnaryMathOperation" :> HUnaryMathOperationShim)
  @@ ("HKeyed" :> HKeyedShim) @@ ("HStoreKeyed" :> HStoreKeyedShim)
  @@ ("HLoadKeyed" :> HLoadKeyedShim) @@ ("HStoreKeyedGeneric" :> HStoreKeyedGenericShim)
  @@ ("HStringCharFromCode" :> HStringCharFromCodeShim)
  @@ ("HCompareNumericAndBranch" :> HCompareNumericAndBranchShim)
  @@ ("HStringCompareAndBranch" :> HStringCompareAndBranchShim)
  @@ ("HDeoptimize" :> HDeoptimizeShim) @@ ("HFunctionLiteral" :> HFunctionLiteralShim)
  @@ ("HLoadContextSlot" :> HLoadContextSlotShim) @@ ("HConstant" :> HConstantShim)
  @@ ("HStackCheck" :> HStackCheckShim) @@ ("HAdd" :> HAddShim)
  @@ ("HMathMinMax" :> HMathMinMaxShim) @@ ("HPower" :> HPowerShim)
  @@ ("HCheckValue" :> HCheckValueShim) @@ ("HCheckMaps" :> HCheckMapsShim)
  @@ ("HDeclareGlobals" :> HDeclareGlobalsShim) @@ ("HCall" :> HCallShim)
  @@ ("HCallRuntime" :> HCallRuntimeShim) @@ ("HCallJSFunction" :> HCallJSFunctionShim)
  @@ ("HCallFunction" :> HCallFunctionShim) @@ ("HInvokeFunction" :> HInvokeFunctionShim)
  @@ ("HCallNewArray" :> HCallNewArrayShim) @@ ("HGlobalCell" :> HGlobalCellShim)
  @@ ("HDoubleBits" :> HDoubleBitsShim) @@ ("HCheckInstanceType" :> HCheckInstanceTypeShim)
  @@ ("HLoadNamedField" :> HLoadNamedFieldShim) @@ ("HBoundsCheck" :> HBoundsCheckShim)
  @@ ("HDoubleToI" :> HDoubleToIShim) @@ ("HStoreNamedField" :> HStoreNamedFieldShim)
  @@ ("HStoreNamedGeneric" :> HStoreNamedGenericShim)
  @@ ("HLoadNamedGeneric" :> HLoadNamedGenericShim) @@ ("HAllocate" :> HAllocateShim)
  @@ ("HTransitionElementsKind" :> HTransitionElementsKindShim)
  @@ ("HLoadRoot" :> HLoadRootShim) @@ ("HStringAdd" :> HStringAddShim)
  @@ ("HLoadGlobalGeneric" :> HLoadGlobalGenericShim)
  @@ ("HForInCacheArray" :> HForInCacheArrayShim) @@ ("HRegExpLiteral" :> HRegExpLiteralShim)
  @@ ("HArgumentsElements" :> HArgumentsElementsShim)
  @@ ("HWrapReceiver" :> HWrapReceiverShim)
  @@ ("HInstanceOfKnownGlobal" :> HInstanceOfKnownGlobalShim)
  @@ ("HTypeofIsAndBranch" :> HTypeofIsAndBranchShim)

Codecs ==
  ("HValue" :> SaveLoadHValueShim) @@ ("HStoreContextSlot" :> SaveLoadHStoreContextSlotShim)
  @@ ("HBinaryOperation" :> SaveLoadHBinaryOperationShim)
  @@ ("HCompareGeneric" :> SaveLoadHCompareGenericShim) @@ ("HBitwise" :> SaveLoadHBitwiseShim)
  @@ ("HControlInstruction" :> SaveLoadHControlInstructionShim)
  @@ ("HCompareMap" :> SaveLoadHCompareMapShim)
  @@ ("HUnaryControlInstruction" :> SaveLoadHUnaryControlInstructionShim)
  @@ ("HBranch" :> SaveLoadHBranchShim) @@ ("HUnaryOperation" :> SaveLoadHUnaryOperationShim)
  @@ ("HChange" :> SaveLoadHChangeShim)
  @@ ("HUnaryMathOperation" :> SaveLoadHUnaryMathOperationShim)
  @@ ("HKeyed" :> SaveLoadHKeyedShim) @@ ("HStoreKeyed" :> SaveLoadHStoreKeyedShim)
  @@ ("HLoadKeyed" :> SaveLoadHLoadKeyedShim)
  @@ ("HStoreKeyedGeneric" :> SaveLoadHStoreKeyedGenericShim)
  @@ ("HStringCharFromCode" :> SaveLoadHStringCharFromCodeShim)
  @@ ("HCompareNumericAndBranch" :> SaveLoadHCompareNumericAndBranchShim)
  @@ ("HStringCompareAndBranch" :> SaveLoadHStringCompareAndBranchShim)
  @@ ("HDeoptimize" :> SaveLoadHDeoptimizeShim)
  @@ ("HFunctionLiteral" :> SaveLoadHFunctionLiteralShim)
  @@ ("HLoadContextSlot" :> SaveLoadHLoadContextSlotShim)
  @@ ("HStackCheck" :> SaveLoadHStackCheckShim) @@ ("HAdd" :> SaveLoadHAddShim)
  @@ ("HMathMinMax" :> SaveLoadHMathMinMaxShim) @@ ("HPower" :> SaveLoadHPowerShim)
  @@ ("HCheckValue" :> SaveLoadHCheckValueShim) @@ ("HCheckMaps" :> SaveLoadHCheckMapsShim)
  @@ ("HDeclareGlobals" :> SaveLoadHDeclareGlobalsShim) @@ ("HCall" :> SaveLoadHCallShim)
  @@ ("HCallRuntime" :> SaveLoadHCallRuntimeShim)
  @@ ("HCallJSFunction" :> SaveLoadHCallJSFunctionShim)
  @@ ("HCallFunction" :> SaveLoadHCallFunctionShim)
  @@ ("HInvokeFunction" :> SaveLoadHInvokeFunctionShim)
  @@ ("HCallNewArray" :> SaveLoadHCallNewArrayShim)
  @@ ("HGlobalCell" :> SaveLoadHGlobalCellShim) @@ ("HDoubleBits" :> SaveLoadHDoubleBitsShim)
  @@ ("HCheckInstanceType" :> SaveLoadHCheckInstanceTypeShim)
  @@ ("HLoadNamedField" :> SaveLoadHLoadNamedFieldShim)
  @@ ("HBoundsCheck" :> SaveLoadHBoundsCheckShim) @@ ("HDoubleToI" :> SaveLoadHDoubleToIShim)
  @@ ("HStoreNamedField" :> SaveLoadHStoreNamedFieldShim)
  @@ ("HStoreNamedGeneric" :> SaveLoadHStoreNamedGenericShim)
  @@ ("HLoadNamedGeneric" :> SaveLoadHLoadNamedGenericShim)
  @@ ("HAllocate" :> SaveLoadHAllocateShim)
  @@ ("HTransitionElementsKind" :> SaveLoadHTransitionElementsKindShim)
  @@ ("HLoadRoot" :> SaveLoadHLoadRootShim) @@ ("HStringAdd" :> SaveLoadHStringAddShim)
  @@ ("HLoadGlobalGeneric" :> SaveLoadHLoadGlobalGenericShim)
  @@ ("HForInCacheArray" :> SaveLoadHForInCacheArrayShim)
  @@ ("HRegExpLiteral" :> SaveLoadHRegExpLiteralShim)
  @@ ("HArgumentsElements" :> SaveLoadHArgumentsElementsShim)
  @@ ("HWrapReceiver" :> SaveLoadHWrapReceiverShim)
  @@ ("HInstanceOfKnownGlobal" :> SaveLoadHInstanceOfKnownGlobalShim)
  @@ ("HTypeofIsAndBranch" :> SaveLoadHTypeofIsAndBranchShim)

(* The classes a lithium instruction owns (HYDROGEN_CONCRETE_SHIM_OWNER_ *)
(* LIST): SaveHydrogenShim and LoadHydrogenShim dispatch to their codec. *)
(* HConstant is saved once per constant, in the constants pass.           *)
OwnerShims ==
  {"HStoreContextSlot", "HBitwise", "HBranch", "HUnaryControlInstruction", "HChange",
   "HUnaryOperation", "HUnaryMathOperation", "HStoreKeyed", "HStoreKeyedGeneric",
   "HStringCharFromCode", "HCompareNumericAndBranch", "HStringCompareAndBranch",
   "HDeoptimize", "HFunctionLiteral", "HLoadContextSlot", "HStackCheck",
   "HControlInstruction", "HCompareMap", "HBinaryOperation", "HAdd", "HMathMinMax",
   "HPower", "HCheckValue", "HCheckMaps", "HDeclareGlobals", "HCall", "HGlobalCell",
   "HCallRuntime", "HDoubleBits", "HCallJSFunction", "HCallFunction", "HInvokeFunction",
   "HCallNewArray", "HCheckInstanceType", "HLoadNamedField", "HBoundsCheck", "HLoadKeyed",
   "HDoubleToI", "HStoreNamedField", "HStoreNamedGeneric", "HLoadNamedGeneric",
   "HAllocate", "HTransitionElementsKind", "HLoadRoot", "HStringAdd", "HCompareGeneric",
   "HLoadGlobalGeneric", "HForInCacheArray", "HRegExpLiteral", "HArgumentsElements",
   "HWrapReceiver", "HInstanceOfKnownGlobal", "HTypeofIsAndBranch"}


-----------------------------------------------------------------------------
(* Members. A member is keyed by its class and name, as in C++ a derived *)
(* class's flags_ is not its base's.                                     *)

RECURSIVE MemberKeys(_)
MemberKeys(c) ==
  IF c = "none" THEN {}
  ELSE MemberKeys(Classes[c].base)
       \cup {<<c, m>> : m \in Range(Classes[c].own) \cup DOMAIN Classes[c].kinds}

KindOf(key) ==
  IF key[2] \in DOMAIN Classes[key[1]].kinds THEN Classes[key[1]].kinds[key[2]] ELSE "p"

(* Members the loader constructor sets to a fixed value (HInvokeFunction)*)
Defaults ==
  (<<"HInvokeFunction", "known_function">> :> Null)
  @@ (<<"HInvokeFunction", "formal_parameter_count">> :> -1)

-----------------------------------------------------------------------------
(* The saver: Save<X>Shim, interpreted from the codec tables.             *)

PutHValue(o, h) ==
  FoldLeft(LAMBDA a, it: Put(a, it.t, h[<<"HValue", it.x>>]), o, SaveLoadHValueShim.save)

PutMaps(o, ms) == FoldLeft(LAMBDA a, m: PutObj(a, "map", m), Put(o, "int", Len(ms)), ms)

PutUnion(o, iv, u) ==
  IF iv THEN Put(Put(Put(o, "bool", TRUE), "enum", u.first), "enum", u.last)
  ELSE Put(Put(Put(o, "bool", FALSE), "uint8", u.mask), "uint8", u.tag)

RECURSIVE SaveClass(_, _, _)
SaveItem(o, c, f, it) ==
  LET x == IF it.k \in {"b", "union"} THEN Null ELSE f[<<c, it.x>>]
  IN CASE it.k = "b"             -> SaveClass(o, it.c, f)
       [] it.k = "p"             -> Put(o, it.t, x)
       [] it.k = "v"             -> PutHValue(o, x)
       [] it.k \in {"o", "oc"}   -> PutObj(o, it.kind, x)
       [] it.k = "opt"           -> IF x = Null THEN Put(o, "char", FALSE)
                                    ELSE PutObj(Put(o, "char", TRUE), it.kind, x)
       [] it.k = "maps"          -> PutMaps(o, x)
       [] it.k = "union"         -> PutUnion(o, f[<<c, "is_interval_check">>], f[<<c, "u">>])

SaveClass(o, c, f) ==
  CASE c = "HValue"    -> PutHValue(o, f)
    [] c = "HConstant" -> SaveHConstantShimFrom(PutHValue(o, f), f, ConstantType(f))
    [] OTHER           -> FoldLeft(LAMBDA a, it: SaveItem(a, c, f, it), o, Codecs[c].save)

(* SaveHydrogenShim of the owning instruction.                            *)
SaveShim(s) == SaveClass(<<>>, s.cls, s.f)


-----------------------------------------------------------------------------
(* The loader: Load<X>Shim, interpreted from the codec tables. Each step *)
(* takes the reader after the read it made.                              *)

Bind(env, x, v) == (x :> v) @@ env

(* The loader constructor: each own member from the argument at its      *)
(* parameter's position, members the constructor fixes, then the base.   *)
Construct(c, env) ==
  LET own == Classes[c].own
      args == Codecs[c].args
      mine == [k \in {<<c, m>> : m \in Range(own)} |->
                 env[args[CHOOSE j \in 1..Len(own) : own[j] = k[2]]]]
      fixed == [k \in {d \in DOMAIN Defaults : d[1] = c} |-> Defaults[k]]
  IN IF Classes[c].base = "none" THEN mine ELSE mine @@ fixed @@ env["base_shim"]

RECURSIVE LoadItems(_, _, _, _, _), LoadClass(_, _, _)

Then(r1, c, i, env, x, hp) == LoadItems(r1, c, i + 1, Bind(env, x, r1.val), hp)

(* RETURN_VALUE_ON_FAIL(H<X>Shim(/* failure */)).                          *)
Checked(r1, c, i, env, x, hp) ==
  IF r1.st = "failed" THEN [r1 EXCEPT !.val = Null] ELSE Then(r1, c, i, env, x, hp)

LoadOpt(r1, c, i, env, it, hp) ==
  IF r1.val \in {TRUE, Garbage} THEN Checked(LoadObj(r1, it.kind, hp), c, i, env, it.x, hp)
  ELSE Then([r1 EXCEPT !.val = Null], c, i, env, it.x, hp)

(* The map loop of LoadHCheckMapsShim: CreateImmovable dereferences the   *)
(* handle of a map that failed to load.                                   *)
RECURSIVE ReadMaps(_, _, _, _)
ReadMapsNext(r1, n, acc, hp) ==
  ReadMaps(IF r1.val = Null THEN Faulted(r1, "null dereference") ELSE r1, n - 1,
           Append(acc, r1.val), hp)
ReadMaps(r, n, acc, hp) ==
  IF n = 0 THEN [r EXCEPT !.val = acc] ELSE ReadMapsNext(LoadObj(r, "map", hp), n, acc, hp)

LoadMaps(r1, hp) ==
  IF r1.val = Garbage THEN [Faulted(r1, "wild read") EXCEPT !.val = <<>>]
  ELSE ReadMaps(r1, r1.val, <<>>, hp)

UnionPair(r3, a, iv, c, i, env, hp) ==
  LoadItems(r3, c, i + 1,
            Bind(Bind(env, "is_interval_check", iv), "u",
                 IF iv THEN [first |-> a, last |-> r3.val] ELSE [mask |-> a, tag |-> r3.val]),
            hp)
UnionFirst(r2, t, iv, c, i, env, hp) == UnionPair(Read(r2, t), r2.val, iv, c, i, env, hp)
LoadUnion(r1, c, i, env, hp) ==
  LET iv == r1.val \in {TRUE, Garbage}
  IN UnionFirst(Read(r1, IF iv THEN "enum" ELSE "uint8"), IF iv THEN "enum" ELSE "uint8",
                iv, c, i, env, hp)

LoadItem(r, c, i, env, it, hp) ==
  CASE it.k = "b"     -> Then(LoadClass(r, it.c, hp), c, i, env, "base_shim", hp)
    [] it.k = "p"     -> Then(Read(r, it.t), c, i, env, it.x, hp)
    [] it.k = "v"     -> Then(LoadClass(r, "HValue", hp), c, i, env, it.x, hp)
    [] it.k = "o"     -> Then(LoadObj(r, it.kind, hp), c, i, env, it.x, hp)
    [] it.k = "oc"    -> Checked(LoadObj(r, it.kind, hp), c, i, env, it.x, hp)
    [] it.k = "opt"   -> LoadOpt(Read(r, "char"), c, i, env, it, hp)
    [] it.k = "maps"  -> Then(LoadMaps(Read(r, "int"), hp), c, i, env, it.x, hp)
    [] it.k = "union" -> LoadUnion(Read(r, "char"), c, i, env, hp)
    [] it.k = "cell"  -> LoadItems(r, c, i + 1, Bind(env, it.x, <<"cell", env[it.of]>>), hp)

(* Members a loader constructor dereferences: HCheckValueShim's          *)
(* DCHECK(object->IsHeapObject()), in a debug build.                      *)
Dereferenced == {<<"HCheckValue", "object">>}

Constructed(r, c, v) ==
  [IF \E k \in Dereferenced : k[1] = c /\ v[k] = Null THEN Faulted(r, "null dereference")
   ELSE r EXCEPT !.val = v]

LoadItems(r, c, i, env, hp) ==
  IF i > Len(Codecs[c].load) THEN Constructed(r, c, Construct(c, env))
  ELSE LoadItem(r, c, i, env, Codecs[c].load[i], hp)


-----------------------------------------------------------------------------
(* LoadHConstantShim: the ConstantType read after bit_field_ picks the    *)
(* payload; the four loader constructors of HConstantShim.                *)

Conv(t, v) == IF v \in DOMAIN t THEN t[v] ELSE Garbage

MakeConstant(base, obj, i32, d, ext, bf) ==
  (CK("object") :> obj) @@ (CK("int32_value") :> i32) @@ (CK("double_value") :> d)
    @@ (CK("external_reference_value") :> ext) @@ (CK("bit_field") :> bf)
    @@ (CK("hydrogen") :> Null) @@ base

ConstantTail3(r, i32, base, bf, obj) ==
  [r EXCEPT !.val = MakeConstant(base, obj, i32, r.val, Null, bf)]
ConstantTail2(r, base, bf, obj) == ConstantTail3(Read(r, "double"), r.val, base, bf, obj)
ConstantTail(r, base, bf, obj) == ConstantTail2(Read(r, "int32"), base, bf, obj)

(* kNamed: the object is looked up by name; LoadMap is checked, then the  *)
(* map must still be equivalent ("object layout changed").                *)
ConstantNamedMap(r6, name, base, bf, hp) ==
  CASE r6.st = "failed" \/ r6.fault # "none" -> [r6 EXCEPT !.val = Null]
    [] hp[r6.val] = "relaid" -> [Failed(r6) EXCEPT !.val = Null]
    [] OTHER -> ConstantTail(r6, base, bf, <<"named", name[2]>>)
ConstantNamed(r5, name, base, bf, hp) ==
  ConstantNamedMap(LoadObj(r5, "map", hp), name, base, bf, hp)

ConstantContext(r4, base, bf) ==
  IF r4.st = "failed" THEN [r4 EXCEPT !.val = Null]
  ELSE ConstantTail(r4, base, bf, <<"context", r4.val>>)

ApiArgc(r7, a, b, base, bf) ==
  ConstantTail(r7, base, bf, <<"code", [type |-> "api", is_store |-> a,
                                         call_data_undefined |-> b, argc |-> r7.val]>>)
ApiCallData(r6, a, base, bf) == ApiArgc(Read(r6, "int"), a, r6.val, base, bf)
ApiIsStore(r5, base, bf) == ApiCallData(Read(r5, "bool"), r5.val, base, bf)

ConstantCode(r4, base, bf) ==
  CASE r4.val = "api"     -> ApiIsStore(Read(r4, "bool"), base, bf)
    [] r4.val = "adaptor" -> ConstantTail(r4, base, bf, <<"code", [type |-> "adaptor"]>>)
    [] OTHER              -> [Faulted(r4, "unreachable") EXCEPT !.val = Null]

ConstantPayload(r3, base, bf, hp) ==
  CASE r3.val = "kInteger" ->
         LET r4 == Read(r3, "int32")
         IN [r4 EXCEPT !.val = MakeConstant(base, Null, r4.val, Conv(FastI2D, r4.val), Null, bf)]
    [] r3.val = "kDouble" ->
         LET r4 == Read(r3, "double")
         IN [r4 EXCEPT !.val = MakeConstant(base, Null, Conv(DoubleToInt32, r4.val), r4.val, Null, bf)]
    [] r3.val = "kExternalReference" ->
         LET r4 == Read(r3, "uint32")
         IN [r4 EXCEPT !.val = MakeConstant(base, Null, Null, Null, r4.val, bf)]
    [] r3.val = "kNamed" ->
         LET r4 == LoadObj(r3, "string", hp)
         IN ConstantNamed(Read(r4, "char"), r4.val, base, bf, hp)
    [] r3.val = "kLiteralsArray" -> ConstantTail(r3, base, bf, Literals)
    [] r3.val = "kContext" -> ConstantContext(LoadObj(r3, "fn", hp), base, bf)
    [] r3.val = "kCode" -> ConstantCode(Read(r3, "enum"), base, bf)
    [] r3.val = "kOther" ->
         LET r4 == LoadObj(r3, "heap", hp) IN ConstantTail(r4, base, bf, r4.val)
    [] OTHER -> [Faulted(r3, "unreachable") EXCEPT !.val = Null]

ConstantType3(r2, base, hp) == ConstantPayload(Read(r2, "enum"), base, r2.val, hp)
LoadHConstantShim(rb, hp) == ConstantType3(Read(rb, "int32"), rb.val, hp)

LoadClass(r, c, hp) ==
  IF c = "HConstant" THEN LoadHConstantShim(LoadClass(r, "HValue", hp), hp)
  ELSE LoadItems(r, c, 1, <<>>, hp)

(* LoadInstruction: RETURN_VALUE_ON_FAIL(nullptr) after the shim loads.   *)
LoadShim(r, s, hp) ==
  LET r1 == LoadClass(r, s.cls, hp)
  IN IF r1.st = "failed" THEN [r1 EXCEPT !.val = Null] ELSE r1


-----------------------------------------------------------------------------
(* The shims a chunk can hold. A member's value is its name, a nested    *)
(* shim's members are named after it, and a heap object is its kind and  *)
(* the member it is held in, so that no two members hold the same value. *)

SourceValue(k) ==
  CASE KindOf(k) = "p"     -> k[2]
    [] KindOf(k) = "shim"  -> [h \in MemberKeys("HValue") |-> <<k[2], h[2]>>]
    [] KindOf(k) = "maps"  -> <<<<"map", "maps.0">>, <<"map", "maps.1">>>>
    [] KindOf(k) = "cell"  -> <<"cell", <<"string", "name">>>>
    [] OTHER               -> <<KindOf(k), k[2]>>

Source(c) == [cls |-> c, f |-> [k \in MemberKeys(c) |-> SourceValue(k)]]

With(s, m, v) == [s EXCEPT !.f[<<s.cls, m>>] = v]

(* HCheckInstanceType holds one of its two pairs; the optional handles of *)
(* HCallJSFunction and HStoreNamedField can be null.                      *)
ShimVariants ==
  { With(With(Source("HCheckInstanceType"), "is_interval_check", TRUE), "u",
         [first |-> "first", last |-> "last"]),
    With(With(Source("HCheckInstanceType"), "is_interval_check", FALSE), "u",
         [mask |-> "mask", tag |-> "tag"]),
    With(Source("HCallJSFunction"), "function", Null),
    With(Source("HStoreNamedField"), "transition_map", Null) }

(* An HConstant, with what the saver asks of its hydrogen_ constant.     *)
NoHydrogen == [name |-> Null, is_builtin |-> FALSE, owner |-> Null, reloc |-> Null]

Constant(rep, obj, i32, d, ext, bf, h) ==
  [cls |-> "HConstant",
   f |-> (CK("hydrogen") :> h)
           @@ MakeConstant([k \in MemberKeys("HValue") |->
                              IF k[2] = "representation" THEN rep ELSE k[2]],
                           obj, i32, d, ext, [ext |-> bf])]

ApiReloc == [type |-> "api", is_store |-> TRUE, call_data_undefined |-> FALSE, argc |-> 2]
AdaptorReloc == [type |-> "adaptor"]

(* One constant per ConstantType, and one per way of reaching kInteger   *)
(* and kDouble.                                                           *)
Constants ==
  { Constant("Integer32", Null, 1, "1.0", Null, FALSE, NoHydrogen),
    Constant("Double", Null, 1, "1.5", Null, FALSE, NoHydrogen),
    Constant("Double", Null, 0, "-0.0", Null, FALSE, NoHydrogen),
    Constant("Tagged", <<"smi", "1.0">>, 1, "1.0", Null, FALSE, NoHydrogen),
    Constant("Tagged", <<"heapnumber", "1.5">>, 1, "1.5", Null, FALSE, NoHydrogen),
    Constant("External", Null, Null, Null, "ref", TRUE, NoHydrogen),
    Constant("Tagged", <<"named", "g">>, 0, "0.0", Null, FALSE,
             [NoHydrogen EXCEPT !.name = "g"]),
    Constant("Tagged", Literals, 0, "0.0", Null, FALSE, NoHydrogen),
    Constant("Tagged", <<"context", <<"fn", "owner">>>>, 0, "0.0", Null, FALSE,
             [NoHydrogen EXCEPT !.owner = <<"fn", "owner">>]),
    Constant("Tagged", <<"code", ApiReloc>>, 0, "0.0", Null, FALSE,
             [NoHydrogen EXCEPT !.reloc = ApiReloc]),
    Constant("Tagged", <<"code", AdaptorReloc>>, 0, "0.0", Null, FALSE,
             [NoHydrogen EXCEPT !.reloc = AdaptorReloc]),
    Constant("Tagged", <<"heap", "other">>, 0, "0.0", Null, FALSE, NoHydrogen) }

AllShims ==
  {Source(c) : c \in OwnerShims \ {"HCheckInstanceType"}} \cup ShimVariants \cup Constants

(* The heap objects the saver writes for s: their loads can each end in  *)
(* any of the outcomes of their kind; only a named constant's map can be *)
(* re-laid out, as only that load compares it.                           *)
ObjectsIn(o) == {o[i].v : i \in {i \in DOMAIN o : o[i].t = "rest"}}
ObjectsOf(s) == ObjectsIn(SaveShim(s))

HeapsFor(s) ==
  {h \in [ObjectsOf(s) -> LoadResults] :
     \A o \in ObjectsOf(s) :
        h[o] \in Outcomes[o[1]] \ (IF s.cls = "HConstant" THEN {} ELSE {"relaid"})}

-----------------------------------------------------------------------------

Init ==
  /\ src \in Shims
  /\ heap \in HeapsFor(src)
  /\ out = <<>>
  /\ rd = InitReader(<<>>)
  /\ pc = "save"

(* SaveHydrogenShim of the instruction that owns src.                    *)
Save ==
  /\ pc = "save"
  /\ out' = SaveShim(src)
  /\ pc' = "load"
  /\ UNCHANGED <<src, heap, rd>>

(* LoadHydrogenShim from the saved bytes.                                *)
Load ==
  /\ pc = "load"
  /\ rd' = LoadShim(InitReader(out), src, heap)
  /\ pc' = "done"
  /\ UNCHANGED <<src, heap, out>>

Next == Save \/ Load

Spec == Init /\ [][Next]_vars


-----------------------------------------------------------------------------
(* Properties.                                                            *)

TypeOK ==
  /\ src \in Shims
  /\ heap \in HeapsFor(src)
  /\ pc \in {"save", "load", "done"}
  /\ \A i \in 1..Len(out) : Width(out[i].t) > 0 \/ out[i].t = "rest"
  /\ rd.st \in {"ok", "failed"}
  /\ rd.skew \in {"never", "ok", "failed"}
  /\ rd.fault \in {"none", "wild read", "null dereference", "unreachable"}

(* Members no loader constructor restores: HInvokeFunction's are fixed   *)
(* on purpose, and a loaded HConstantShim has no hydrogen_.              *)
Unrestored ==
  {<<"HInvokeFunction", "known_function">>, <<"HInvokeFunction", "formal_parameter_count">>,
   CK("hydrogen")}

(* What a constant denotes: an external reference, or its handle (a Smi  *)
(* or heap number is the number it holds, and a constant with no handle *)
(* is its double) with its int32 and double values.                       *)
NumberOr(f) ==
  LET o == f[CK("object")]
  IN IF o = Null \/ o[1] \in {"smi", "heapnumber"} THEN <<"number", f[CK("double_value")]>> ELSE o

Denotation(f) ==
  IF f[CK("bit_field")].ext THEN <<"external", f[CK("external_reference_value")]>>
  ELSE <<NumberOr(f), f[CK("int32_value")], f[CK("double_value")]>>

Restored(s, l) ==
  /\ \A k \in DOMAIN s.f \ Unrestored :
       k[1] # "HConstant" \/ k[2] = "bit_field" => k \in DOMAIN l /\ l[k] = s.f[k]
  /\ s.cls = "HConstant" => Denotation(l) = Denotation(s.f)

AllLoad == \A o \in DOMAIN heap : heap[o] = "ok"

(* Save<X>Shim and Load<X>Shim agree: when every nested object loads,   *)
(* the shim loads, and a shim that loads with no fault has every member  *)
(* the saved one had (a constant: the same value).                        *)
ShimRoundTrip ==
  pc = "done" =>
    /\ AllLoad => rd.st = "ok" /\ rd.fault = "none"
    /\ rd.st = "ok" /\ rd.fault = "none" => Restored(src, rd.val)

(* While the loader's status is ok it never reads a primitive at another *)
(* width than the saver wrote, nor past the shim's bytes.                 *)
AlignedWhileOk == rd.skew # "ok"

(* A load that fails stops before it uses what it read: no read from a   *)
(* length or index taken from the wrong bytes, no null handle            *)
(* dereferenced, no UNREACHABLE.                                          *)
LoadFailsCleanly == rd.fault = "none"

====
