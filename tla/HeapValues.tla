----------------------------- MODULE HeapValues -----------------------------
(***************************************************************************)
(* The heap value codec: LChunkSaverBase::SaveObject and                  *)
(* LChunkLoaderBase::LoadObject of lithium-saveload.cc with the variant   *)
(* codecs they dispatch to (oddballs, heap numbers, strings, symbols,     *)
(* regexps, fixed arrays, JS arrays, array buffers, typed arrays, JS      *)
(* values, executable accessor infos, foreigns and the zero-payload       *)
(* singletons).                                                            *)
(*                                                                         *)
(* A value is a record whose field k names its variant. The saver         *)
(* appends one token [t |-> C++ type, v |-> value] per SavePrimitive;     *)
(* a string's bytes are one "char" token each. LoadPrimitive is a         *)
(* reinterpret_cast at the cursor with no check: a read of another type  *)
(* than was written there, or past the end, is a misread.                 *)
(*                                                                         *)
(* Functions, shared function infos, maps and JS objects are saved and    *)
(* loaded by codecs other modules model (FunctionResolver, ShapeSave,     *)
(* ShapeLoad). Here each is an external object with one token and, per   *)
(* object, whether its save and its load succeed; one that fails calls   *)
(* Fail with a reason naming the object.                                  *)
(*                                                                         *)
(* Smi 0 is the null pointer: SaveObject's `!object` test saves it as     *)
(* NULL_TYPE, and LoadObject returns a null handle for it.               *)
(***************************************************************************)
EXTENDS Naturals, Sequences, SequencesExt, FiniteSets

CONSTANTS
  Values,        \* the values a save may start from
  Exts,          \* the external objects, by name (strings)
  Accessors,     \* the Accessors::DescriptorId of every accessor callback
  DestRegistry,  \* the <<key, name>> pairs of the destination's symbol registry
  NotFound,      \* Heap::kNotFound, the root index of a symbol that is no root
  Null           \* a null handle (a model value)

(* The variants, one constructor each. A string's cs is its UTF-8 bytes  *)
(* as ToCString(ALLOW_NULLS) writes them; a symbol's reg is the           *)
(* <<registry key, name>> it is registered under, or <<>>.               *)
Smi(n)                  == [k |-> "smi", n |-> n]
Oddball(kind)           == [k |-> "oddball", kind |-> kind]
HeapNumber(d)           == [k |-> "number", d |-> d]
Str(cs, int)            == [k |-> "string", cs |-> cs, int |-> int]
Sym(root, reg)          == [k |-> "symbol", root |-> root, reg |-> reg]
RegExp(pattern, flags)  == [k |-> "regexp", pattern |-> pattern, flags |-> flags]
FArray(items)           == [k |-> "farray", items |-> items]
FDArray(ds)             == [k |-> "fdarray", doubles |-> ds]
JSArr(ek, len, elems)   == [k |-> "jsarray", ekind |-> ek, length |-> len, elements |-> elems]
Buffer(bytes)           == [k |-> "buffer", bytes |-> bytes]
Typed(at, buf, off, n)  == [k |-> "typed", atype |-> at, buffer |-> buf, offset |-> off, tlength |-> n]
JSVal(x, v)             == [k |-> "jsvalue", object |-> x, value |-> v]
AccessorInfo(g, s, d)   == [k |-> "accessor", getter |-> g, setter |-> s, data |-> d]
Foreign(a)              == [k |-> "foreign", addr |-> a]
Singleton(t)            == [k |-> "singleton", t |-> t]
Ext(t, x)               == [k |-> "ext", t |-> t, x |-> x]

(* Oddball::kind values LoadOddball has a case for.                      *)
LoadableOddballs == {"undefined", "the_hole", "null", "true", "false", "uninitialized", "exception"}

(* The zero-payload variants of SaveHeapObject.                          *)
Singletons == {"global_object", "global_proxy", "builtins", "native_context",
               "allocation_site", "accessor_pair"}

(* JSRegExp flags in the order SaveJSRegExp tests them.                  *)
FlagOrder == <<"g", "i", "m", "y">>

VARIABLES
  src,   \* the value being saved
  ext,   \* per external object: [save |-> "ok" or "fail", load |-> ...]
  wr,    \* the saver: bytes_ (out), status_, reason_, and an abort
  rd,    \* the loader: cursor, status_, reason_, abort, last handle
  pc     \* "save", "load" or "done"

vars == <<src, ext, wr, rd, pc>>

-----------------------------------------------------------------------------
(* The saver's stream and status: SavePrimitive, SavePrimitiveArray and   *)
(* Fail of lithium-saveload.h and saveload.h.                             *)

InitWriter == [out |-> <<>>, st |-> "ok", reason |-> "none", fault |-> "none"]

Put(w, t, v) == [w EXCEPT !.out = Append(@, [t |-> t, v |-> v])]

RECURSIVE PutEach(_, _, _)
PutEach(w, t, s) == IF s = <<>> THEN w ELSE PutEach(Put(w, t, Head(s)), t, Tail(s))

(* SavePrimitiveArray: the size_t length, then the elements.             *)
SavePrimitiveArray(w, t, s) == PutEach(Put(w, "size_t", Len(s)), t, s)

(* Fail: status_ = FAILED and reason_ = reason, whatever they were.      *)
(* Mutant: a Fail that leaves reason_ null.                               *)
FailNoReason(w, reason) == [w EXCEPT !.st = "failed", !.reason = Null]

Fail(w, reason) == [w EXCEPT !.st = "failed", !.reason = reason]

(* UNREACHABLE() or a failed DCHECK: the process aborts.                 *)
Abort(w, why) == IF w.fault = "none" THEN [w EXCEPT !.fault = why] ELSE w

Ok(w) == w.st = "ok" /\ w.fault = "none"

-----------------------------------------------------------------------------
(* The variant savers.                                                     *)

(* SaveJSFunction, SaveSharedFunctionInfo, SaveMap, SaveJSObject.         *)
SaveExt(w, x, e) ==
  IF e[x].save = "fail" THEN Fail(Put(w, "ext", x), x) ELSE Put(w, "ext", x)

(* SaveString: ToCString's bytes, then IsInternalizedString.             *)
SaveString(w, s) == Put(SavePrimitiveArray(w, "char", s.cs), "bool", s.int)

(* SaveSymbol: the root index; for no root, the registry key and name   *)
(* found by scanning the registry, or UNREACHABLE when it is not there.  *)
SaveSymbol(w, v) ==
  CASE v.root # NotFound -> Put(w, "RootListIndex", v.root)
    [] v.reg = <<>>      -> Abort(Put(w, "RootListIndex", NotFound), "unreachable")
    [] OTHER             -> SaveString(SaveString(Put(w, "RootListIndex", NotFound),
                                                  Str(v.reg[1], TRUE)), Str(v.reg[2], TRUE))

(* SaveJSRegExp: the pattern, then the flags as the bytes of a string:   *)
(* their count, one char per flag set, and SaveFalse for "not            *)
(* internalized".                                                         *)
FlagChars(flags) == SelectSeq(FlagOrder, LAMBDA c : c \in flags)

(* Mutant: the flags string without its closing SaveFalse.                *)
SaveJSRegExpNoFalse(w, v) ==
  PutEach(Put(SaveString(w, v.pattern), "size_t", Cardinality(v.flags)),
          "char", FlagChars(v.flags))

SaveJSRegExp(w, v) ==
  Put(PutEach(Put(SaveString(w, v.pattern), "size_t", Cardinality(v.flags)),
              "char", FlagChars(v.flags)), "bool", FALSE)

SaveFixedDoubleArray(w, v) == PutEach(Put(w, "int", Len(v.doubles)), "double", v.doubles)

SaveJSArrayBuffer(w, v) == SavePrimitiveArray(w, "char", v.bytes)

(* SaveJSTypedArray: the type, the buffer, RETURN_ON_FAIL, the byte      *)
(* offset and the length.                                                 *)
SaveJSTypedArray(w, v) ==
  LET Rest(w1) == IF w1.st # "ok" THEN w1
                  ELSE Put(Put(w1, "size_t", v.offset), "size_t", v.tlength)
  IN Rest(SaveJSArrayBuffer(Put(w, "ExternalArrayType", v.atype), v.buffer))

(* SaveForeign: the DescriptorId of the accessor callback at the         *)
(* foreign address; any other address is UNREACHABLE.                    *)
SaveForeign(w, v) ==
  IF v.addr \in Accessors THEN Put(w, "DescriptorId", v.addr) ELSE Abort(w, "unreachable")

(* The DetailedInstanceType SaveHeapObject writes; Normalize() maps every *)
(* string type to STRING_TYPE.                                            *)
TypeOf(v) == IF v.k \in {"singleton", "ext"} THEN v.t ELSE v.k

RECURSIVE SaveObject(_, _, _)

(* SaveFixedArrayData: each item, RETURN_ON_FAIL after each.              *)
RECURSIVE SaveFixedArrayData(_, _, _)
(* Mutant: the loop without its RETURN_ON_FAIL.                            *)
SaveItemsAfterUnchecked(w1, items, e) == SaveFixedArrayData(w1, Tail(items), e)

SaveItemsAfter(w1, items, e) ==
  IF w1.st # "ok" THEN w1 ELSE SaveFixedArrayData(w1, Tail(items), e)

SaveFixedArrayData(w, items, e) ==
  IF items = <<>> THEN w ELSE SaveItemsAfter(SaveObject(w, Head(items), e), items, e)

SaveFixedArray(w, v, e) == SaveFixedArrayData(Put(w, "int", Len(v.items)), v.items, e)

(* SaveFixedArrayBase: the instance type of the elements, then them.     *)
SaveFixedArrayBase(w, v, e) ==
  LET w1 == Put(w, "InstanceType", v.k)
  IN IF v.k = "farray" THEN SaveFixedArray(w1, v, e) ELSE SaveFixedDoubleArray(w1, v)

(* SaveJSArray: the elements kind, the length through SaveObject,         *)
(* RETURN_ON_FAIL, and the elements only when `js_array->length()` is a   *)
(* non-null pointer, that is, when the length is not Smi 0.               *)
SaveJSArrayElements(w1, v, e) ==
  CASE w1.st # "ok"          -> w1
    [] v.length # Smi(0)     -> SaveFixedArrayBase(w1, v.elements, e)
    [] OTHER                 -> w1

SaveJSArray(w, v, e) ==
  SaveJSArrayElements(SaveObject(Put(w, "ElementsKind", v.ekind), v.length, e), v, e)

(* SaveJSValue: SaveJSObject, then the value, with no status check.      *)
SaveJSValue(w, v, e) == SaveObject(SaveExt(w, v.object, e), v.value, e)

(* SaveExecutableAccessorInfo: getter, setter and data, no checks.       *)
SaveExecutableAccessorInfo(w, v, e) ==
  SaveObject(SaveObject(SaveObject(w, v.getter, e), v.setter, e), v.data, e)

(* SaveHeapObject: the type, then the variant's payload. The singletons *)
(* have none; any other type is UNREACHABLE.                              *)
SaveHeapObject(w, v, e) ==
  LET w1 == Put(w, "DetailedInstanceType", TypeOf(v))
  IN CASE v.k = "oddball"   -> Put(w1, "byte", v.kind)
       [] v.k = "number"    -> Put(w1, "double", v.d)
       [] v.k = "symbol"    -> SaveSymbol(w1, v)
       [] v.k = "string"    -> SaveString(w1, v)
       [] v.k = "regexp"    -> SaveJSRegExp(w1, v)
       [] v.k = "farray"    -> SaveFixedArray(w1, v, e)
       [] v.k = "fdarray"   -> SaveFixedDoubleArray(w1, v)
       [] v.k = "jsarray"   -> SaveJSArray(w1, v, e)
       [] v.k = "buffer"    -> SaveJSArrayBuffer(w1, v)
       [] v.k = "typed"     -> SaveJSTypedArray(w1, v)
       [] v.k = "ext"       -> SaveExt(w1, v.x, e)
       [] v.k = "jsvalue"   -> SaveJSValue(w1, v, e)
       [] v.k = "accessor"  -> SaveExecutableAccessorInfo(w1, v, e)
       [] v.k = "foreign"   -> SaveForeign(w1, v)
       [] v.k = "singleton" -> w1
       [] OTHER             -> Abort(w1, "unreachable")

(* SaveObject: NULL_TYPE for a null pointer (Smi 0 among them), SMI_TYPE *)
(* and the int value, or HEAP_OBJECT_TYPE and the heap object.            *)
SaveObject(w, v, e) ==
  CASE v = Smi(0)   -> Put(w, "ObjectType", "NULL_TYPE")
    [] v.k = "smi"  -> Put(Put(w, "ObjectType", "SMI_TYPE"), "int", v.n)
    [] OTHER        -> SaveHeapObject(Put(w, "ObjectType", "HEAP_OBJECT_TYPE"), v, e)

-----------------------------------------------------------------------------
(* The loader: LoadPrimitive, LoadPrimitiveArray, LoadBool and Fail of    *)
(* LChunkLoaderBase. A step after an abort is never taken (Halted).       *)

InitReader(o) ==
  [in |-> o, pos |-> 1, st |-> "ok", reason |-> "none", fault |-> "none", val |-> Null]

Halted(r) == r.fault # "none"

(* LastStatus() != SUCCEEDED, or the process has aborted.                 *)
Bad(r) == r.st # "ok" \/ Halted(r)

Ret(r, v) == [r EXCEPT !.val = v]

(* RETURN_VALUE_ON_FAIL(Handle<T>::null()).                               *)
NullRet(r) == [r EXCEPT !.val = Null]

FailR(r, reason) == [r EXCEPT !.st = "failed", !.reason = reason]

AbortR(r, why) == IF Halted(r) THEN r ELSE [r EXCEPT !.fault = why, !.val = Null]

Read(r, t) ==
  CASE Halted(r) -> r
    [] r.pos <= Len(r.in) /\ r.in[r.pos].t = t ->
         [r EXCEPT !.pos = @ + 1, !.val = r.in[r.pos].v]
    [] OTHER -> AbortR(r, "misread")

RECURSIVE ReadEach(_, _, _, _)
ReadEachAt(r1, t, n, acc) ==
  IF Halted(r1) THEN r1 ELSE ReadEach(r1, t, n - 1, Append(acc, r1.val))

(* n reads of type t, their values collected in order.                   *)
ReadEach(r, t, n, acc) ==
  IF Halted(r) \/ n = 0 THEN Ret(r, acc) ELSE ReadEachAt(Read(r, t), t, n, acc)

LoadArrayAt(r1, t) == IF Halted(r1) THEN r1 ELSE ReadEach(r1, t, r1.val, <<>>)

LoadPrimitiveArray(r, t) == LoadArrayAt(Read(r, "size_t"), t)

-----------------------------------------------------------------------------
(* The variant loaders.                                                    *)

(* LoadJSFunction, LoadSharedFunctionInfo, LoadMap, LoadJSObject.         *)
LoadExtAt(r1, t, e) ==
  CASE Halted(r1)               -> r1
    [] e[r1.val].load = "fail"  -> NullRet(FailR(r1, r1.val))
    [] OTHER                    -> Ret(r1, Ext(t, r1.val))

LoadExt(r, t, e) == LoadExtAt(Read(r, "ext"), t, e)

(* LoadString: the bytes, then InternalizeUtf8String or                   *)
(* NewStringFromUtf8 as the saved flag says.                              *)
(* Mutant: every loaded string internalized.                               *)
LoadStringEndInternalized(cs, r2) == IF Halted(r2) THEN r2 ELSE Ret(r2, Str(cs, TRUE))

LoadStringEnd(cs, r2) == IF Halted(r2) THEN r2 ELSE Ret(r2, Str(cs, r2.val))

LoadStringAt(r1) == IF Halted(r1) THEN r1 ELSE LoadStringEnd(r1.val, Read(r1, "bool"))

LoadString(r) == LoadStringAt(LoadPrimitiveArray(r, "char"))

(* LoadSymbol: the root, or GetProperty(GetProperty(registry, key),      *)
(* name) cast to Symbol unchecked: a name the destination's registry has *)
(* not got yields undefined.                                              *)
RegistryLookup(key, name) ==
  IF <<key, name>> \in DestRegistry THEN Sym(NotFound, <<key, name>>) ELSE Oddball("undefined")

LoadSymbolName(key, r3) == IF Halted(r3) THEN r3 ELSE Ret(r3, RegistryLookup(key.cs, r3.val.cs))

LoadSymbolKey(r2) == IF Halted(r2) THEN r2 ELSE LoadSymbolName(r2.val, LoadString(r2))

LoadSymbolAt(r1) ==
  CASE Halted(r1)          -> r1
    [] r1.val # NotFound   -> Ret(r1, Sym(r1.val, <<>>))
    [] OTHER               -> LoadSymbolKey(LoadString(r1))

LoadSymbol(r) == LoadSymbolAt(Read(r, "RootListIndex"))

(* Execution::NewJSRegExp(pattern, flags).ToHandleChecked(): the flags   *)
(* string must hold distinct chars of g, i, m, y, or the CHECK aborts.   *)
ParsesAsFlags(cs) ==
  /\ \A i \in DOMAIN cs : cs[i] \in Range(FlagOrder)
  /\ \A i, j \in DOMAIN cs : i # j => cs[i] # cs[j]

LoadJSRegExpFlags(pattern, r2) ==
  CASE Halted(r2)                 -> r2
    [] ParsesAsFlags(r2.val.cs)   -> Ret(r2, RegExp(pattern, Range(r2.val.cs)))
    [] OTHER                      -> AbortR(r2, "ToHandleChecked")

LoadJSRegExpAt(r1) == IF Halted(r1) THEN r1 ELSE LoadJSRegExpFlags(r1.val, LoadString(r1))

LoadJSRegExp(r) == LoadJSRegExpAt(LoadString(r))

(* LoadOddball: a case per kind, UNREACHABLE for any other.              *)
LoadOddballAt(r1) ==
  CASE Halted(r1)                      -> r1
    [] r1.val \in LoadableOddballs     -> Ret(r1, Oddball(r1.val))
    [] OTHER                           -> AbortR(r1, "unreachable")

LoadForeignAt(r1) ==
  CASE Halted(r1)               -> r1
    [] r1.val \in Accessors     -> Ret(r1, Foreign(r1.val))
    [] OTHER                    -> AbortR(r1, "unreachable")

LoadHeapNumberAt(r1) == IF Halted(r1) THEN r1 ELSE Ret(r1, HeapNumber(r1.val))

LoadFixedDoubleArrayAt(r1) ==
  IF Halted(r1) THEN r1 ELSE Ret(r1, FDArray(r1.val))

(* LoadFixedDoubleArray: the int length, then that many doubles.         *)
LoadFixedDoubleArray(r) == LoadFixedDoubleArrayAt(LoadArrayAt(Read(r, "int"), "double"))

RECURSIVE LoadObject(_, _)

(* What a slot holds after `set(i, item.is_null() ? nullptr : *item)`.   *)
Slot(h) == IF h = Null THEN Smi(0) ELSE h

Undefineds(n) == [i \in 1..n |-> Oddball("undefined")]

(* LoadFixedArrayData: each item, RETURN_ON_FAIL after each. The array  *)
(* NewFixedArray made keeps undefined in the slots not reached.           *)
RECURSIVE LoadFixedArrayData(_, _, _, _)
LoadItemAt(r1, n, acc, e) ==
  IF Bad(r1) THEN Ret(r1, FArray(acc \o Undefineds(n)))
  ELSE LoadFixedArrayData(r1, n - 1, Append(acc, Slot(r1.val)), e)

LoadFixedArrayData(r, n, acc, e) ==
  IF n = 0 THEN Ret(r, FArray(acc)) ELSE LoadItemAt(LoadObject(r, e), n, acc, e)

LoadFixedArrayAt(r1, e) == IF Halted(r1) THEN r1 ELSE LoadFixedArrayData(r1, r1.val, <<>>, e)

LoadFixedArray(r, e) == LoadFixedArrayAt(Read(r, "int"), e)

LoadFixedArrayBaseAt(r1, e) ==
  CASE Halted(r1)          -> r1
    [] r1.val = "farray"   -> LoadFixedArray(r1, e)
    [] r1.val = "fdarray"  -> LoadFixedDoubleArray(r1)
    [] OTHER               -> AbortR(r1, "unreachable")

LoadFixedArrayBase(r, e) == LoadFixedArrayBaseAt(Read(r, "InstanceType"), e)

(* What a JS array shows: its kind, its length, and the elements below   *)
(* the length.                                                             *)
ElemsOf(a) == IF a.k = "farray" THEN a.items ELSE a.doubles

ArrayVal(ek, len, items) == [k |-> "jsarray", ekind |-> ek, length |-> len, items |-> items]

(* LoadJSArray: the kind, the length, RETURN_VALUE_ON_FAIL; a null       *)
(* length is NewJSArray(kind); any other must be a Smi (DCHECK), then the *)
(* elements, RETURN_VALUE_ON_FAIL, and NewJSArrayWithElements.            *)
LoadJSArrayElements(ek, len, r3) ==
  IF Bad(r3) THEN NullRet(r3)
  ELSE Ret(r3, ArrayVal(ek, len, SubSeq(ElemsOf(r3.val), 1, len.n)))

LoadJSArrayLength(ek, r2, e) ==
  CASE Bad(r2)              -> NullRet(r2)
    [] r2.val = Null        -> Ret(r2, ArrayVal(ek, Smi(0), <<>>))
    [] r2.val.k # "smi"     -> AbortR(r2, "DCHECK IsSmi")
    [] OTHER                -> LoadJSArrayElements(ek, r2.val, LoadFixedArrayBase(r2, e))

LoadJSArrayAt(r1, e) == IF Halted(r1) THEN r1 ELSE LoadJSArrayLength(r1.val, LoadObject(r1, e), e)

LoadJSArray(r, e) == LoadJSArrayAt(Read(r, "ElementsKind"), e)

(* LoadJSArrayBuffer: a new buffer holding the saved bytes.               *)
LoadBufferAt(r1) == IF Halted(r1) THEN r1 ELSE Ret(r1, Buffer(r1.val))

LoadJSArrayBuffer(r) == LoadBufferAt(LoadPrimitiveArray(r, "char"))

(* LoadJSTypedArray: the type, a new buffer with the saved bytes, the    *)
(* byte offset and the length, with no status check.                      *)
LoadTypedEnd(at, buf, off, r4) == IF Halted(r4) THEN r4 ELSE Ret(r4, Typed(at, buf, off, r4.val))

LoadTypedOffset(at, buf, r3) == IF Halted(r3) THEN r3 ELSE LoadTypedEnd(at, buf, r3.val, Read(r3, "size_t"))

LoadTypedBuffer(at, r2) == IF Halted(r2) THEN r2 ELSE LoadTypedOffset(at, r2.val, Read(r2, "size_t"))

LoadJSTypedArrayAt(r1) ==
  IF Halted(r1) THEN r1 ELSE LoadTypedBuffer(r1.val, LoadJSArrayBuffer(r1))

LoadJSTypedArray(r) == LoadJSTypedArrayAt(Read(r, "ExternalArrayType"))

(* Dereferencing a handle that is null.                                   *)
Deref(r) == AbortR(r, "null dereference")

(* LoadJSValue: LoadJSObject, RETURN_VALUE_ON_FAIL, the value,            *)
(* RETURN_VALUE_ON_FAIL, then object->set_value of the handle's object. *)
LoadJSValueValue(obj, r2) ==
  CASE Bad(r2)         -> NullRet(r2)
    [] r2.val = Null   -> Deref(r2)
    [] OTHER           -> Ret(r2, JSVal(obj.x, r2.val))

LoadJSValueAt(r1, e) == IF Bad(r1) THEN NullRet(r1) ELSE LoadJSValueValue(r1.val, LoadObject(r1, e))

LoadJSValue(r, e) == LoadJSValueAt(LoadExt(r, "jsobject", e), e)

(* LoadExecutableAccessorInfo: getter, setter and data, each followed by *)
(* RETURN_VALUE_ON_FAIL and info->set_<field> of the handle's object.   *)
LoadInfoData(g, s, r3) ==
  CASE Bad(r3)         -> NullRet(r3)
    [] r3.val = Null   -> Deref(r3)
    [] OTHER           -> Ret(r3, AccessorInfo(g, s, r3.val))

LoadInfoSetter(g, r2, e) ==
  CASE Bad(r2)         -> NullRet(r2)
    [] r2.val = Null   -> Deref(r2)
    [] OTHER           -> LoadInfoData(g, r2.val, LoadObject(r2, e))

LoadInfoGetter(r1, e) ==
  CASE Bad(r1)         -> NullRet(r1)
    [] r1.val = Null   -> Deref(r1)
    [] OTHER           -> LoadInfoSetter(r1.val, LoadObject(r1, e), e)

LoadExecutableAccessorInfo(r, e) == LoadInfoGetter(LoadObject(r, e), e)

ExtTypes == {"jsfunction", "sfi", "map", "jsobject"}

(* LoadHeapObject: the type, then its loader. The singletons come from   *)
(* the isolate; an allocation site loads as undefined and an accessor    *)
(* pair as null; any other type is UNREACHABLE.                           *)
LoadHeapObjectAt(r1, e) ==
  LET t == r1.val
  IN CASE Halted(r1)              -> r1
       [] t = "oddball"           -> LoadOddballAt(Read(r1, "byte"))
       [] t = "number"            -> LoadHeapNumberAt(Read(r1, "double"))
       [] t = "symbol"            -> LoadSymbol(r1)
       [] t = "string"            -> LoadString(r1)
       [] t = "regexp"            -> LoadJSRegExp(r1)
       [] t = "farray"            -> LoadFixedArray(r1, e)
       [] t = "fdarray"           -> LoadFixedDoubleArray(r1)
       [] t = "jsarray"           -> LoadJSArray(r1, e)
       [] t = "buffer"            -> LoadJSArrayBuffer(r1)
       [] t = "typed"             -> LoadJSTypedArray(r1)
       [] t \in ExtTypes          -> LoadExt(r1, t, e)
       [] t = "jsvalue"           -> LoadJSValue(r1, e)
       [] t = "accessor"          -> LoadExecutableAccessorInfo(r1, e)
       [] t = "foreign"           -> LoadForeignAt(Read(r1, "DescriptorId"))
       [] t = "allocation_site"   -> Ret(r1, Oddball("undefined"))
       [] t = "accessor_pair"     -> Ret(r1, Oddball("null"))
       [] t \in Singletons        -> Ret(r1, Singleton(t))
       [] OTHER                   -> AbortR(r1, "unreachable")

LoadHeapObject(r, e) == LoadHeapObjectAt(Read(r, "DetailedInstanceType"), e)

(* LoadObject: a heap object, a Smi, or (DCHECK NULL_TYPE) a null handle. *)
LoadSmiAt(r1) == IF Halted(r1) THEN r1 ELSE Ret(r1, Smi(r1.val))

LoadObjectAt(r1, e) ==
  CASE Halted(r1)                        -> r1
    [] r1.val = "HEAP_OBJECT_TYPE"       -> LoadHeapObject(r1, e)
    [] r1.val = "SMI_TYPE"               -> LoadSmiAt(Read(r1, "int"))
    [] OTHER                             -> NullRet(r1)

LoadObject(r, e) == LoadObjectAt(Read(r, "ObjectType"), e)

-----------------------------------------------------------------------------
(* A save, then a load of the saved bytes.                                *)

Outcomes == [save : {"ok", "fail"}, load : {"ok", "fail"}]

Init ==
  /\ src \in Values
  /\ ext \in [Exts -> Outcomes]
  /\ wr = InitWriter
  /\ rd = InitReader(<<>>)
  /\ pc = "save"

(* SaveObject of src. Only the bytes of a save that succeeded are kept   *)
(* and loaded.                                                             *)
Save ==
  /\ pc = "save"
  /\ wr' = SaveObject(InitWriter, src, ext)
  /\ pc' = IF Ok(wr') THEN "load" ELSE "done"
  /\ UNCHANGED <<src, ext, rd>>

(* LoadObject from the saved bytes.                                       *)
Load ==
  /\ pc = "load"
  /\ rd' = LoadObject(InitReader(wr.out), ext)
  /\ pc' = "done"
  /\ UNCHANGED <<src, ext, wr>>

Next == Save \/ Load

Spec == Init /\ [][Next]_vars

-----------------------------------------------------------------------------
(* Reference definitions.                                                  *)

(* What loading v should give: the same value, except that an allocation *)
(* site is created lazily (undefined), an accessor pair stands as null,   *)
(* a regexp's flags string is not internalized, and a JS array shows its *)
(* elements below its length only.                                        *)
RECURSIVE Den(_)
Den(v) ==
  CASE v.k = "farray"   -> FArray([i \in DOMAIN v.items |-> Den(v.items[i])])
    [] v.k = "jsarray"  -> ArrayVal(v.ekind, v.length,
                                    SubSeq(ElemsOf(Den(v.elements)), 1, v.length.n))
    [] v.k = "jsvalue"  -> JSVal(v.object, Den(v.value))
    [] v.k = "accessor" -> AccessorInfo(Den(v.getter), Den(v.setter), Den(v.data))
    [] v = Singleton("allocation_site") -> Oddball("undefined")
    [] v = Singleton("accessor_pair")   -> Oddball("null")
    [] OTHER            -> v

(* The external objects of v in the order a depth-first walk meets them. *)
RECURSIVE ExtsInOrder(_)
ExtsInOrder(v) ==
  CASE v.k = "ext"      -> <<v.x>>
    [] v.k = "farray"   -> FlattenSeq([i \in DOMAIN v.items |-> ExtsInOrder(v.items[i])])
    [] v.k = "jsarray"  -> ExtsInOrder(v.length) \o ExtsInOrder(v.elements)
    [] v.k = "jsvalue"  -> <<v.object>> \o ExtsInOrder(v.value)
    [] v.k = "accessor" -> ExtsInOrder(v.getter) \o ExtsInOrder(v.setter) \o ExtsInOrder(v.data)
    [] OTHER            -> <<>>

(* The first external object met whose save (dir = "save") or load fails. *)
FirstFailing(v, e, dir) ==
  LET xs == SelectSeq(ExtsInOrder(v), LAMBDA x : e[x][dir] = "fail")
  IN IF xs = <<>> THEN "none" ELSE xs[1]

-----------------------------------------------------------------------------
(* Properties.                                                            *)

TypeOK ==
  /\ src \in Values
  /\ ext \in [Exts -> Outcomes]
  /\ pc \in {"save", "load", "done"}
  /\ wr.st \in {"ok", "failed"} /\ rd.st \in {"ok", "failed"}
  /\ wr.reason \in Exts \cup {"none"} /\ rd.reason \in Exts \cup {"none"}
  /\ rd.pos \in 1..Len(rd.in) + 1

(* Round trip (spec 8): a value whose save succeeded loads, when every   *)
(* external object loads, and a load that succeeds reads exactly the     *)
(* saved bytes and gives what the value denotes, Smi 0 included (as the  *)
(* slot a null handle is stored to).                                      *)
ValueRoundTrip ==
  pc = "done" /\ Ok(wr) =>
    /\ (\A x \in Exts : ext[x].load = "ok") => rd.st = "ok"
    /\ rd.st = "ok" /\ ~Halted(rd) =>
         rd.pos = Len(wr.out) + 1 /\ Slot(rd.val) = Den(src)

(* Poison propagation (spec 8) through the nested codecs: a failed save  *)
(* or load reports the first external object that failed in walk order, *)
(* not one a later step reached after the failure.                        *)
FirstFailureReported ==
  /\ pc # "save" /\ wr.fault = "none" => wr.reason = FirstFailing(src, ext, "save")
  /\ pc = "done" /\ Ok(wr) /\ ~Halted(rd) => rd.reason = FirstFailing(src, ext, "load")

(* Neither side aborts the process (UNREACHABLE, a failed CHECK or       *)
(* DCHECK, a null handle dereferenced, a read of bytes of another type)  *)
(* on a value the heap can hold: the spec keeps fatal errors for          *)
(* unrecognized tags, and a destination that cannot resolve a value      *)
(* fails the call.                                                        *)
FailsCleanly == wr.fault = "none" /\ rd.fault = "none"

====
