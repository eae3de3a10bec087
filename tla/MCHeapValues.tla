---------------------------- MODULE MCHeapValues ----------------------------
(***************************************************************************)
(* Values for HeapValues: one or two of every variant SaveHeapObject      *)
(* handles, with arrays that nest a fixed array, hold Smi 0, stop short  *)
(* of their capacity, or hold two external objects that can both fail.   *)
(***************************************************************************)
EXTENDS HeapValues

A   == <<"a">>
For == <<"f", "o", "r">>

F1 == Ext("jsfunction", "x1")
M2 == Ext("map", "x2")

MCExts == {"x1", "x2"}

MCAccessors == {"ArrayLengthGetter", "ArrayLengthSetter"}

\* Symbol.for("a") is registered in the destination too.
MCDestRegistry == {<<For, A>>}

MCValues ==
  { Smi(0), Smi(1), Oddball("undefined"), HeapNumber("1.5"),
    Str(A, TRUE), Str(<<>>, FALSE),
    Sym("iterator_symbol", <<>>), Sym(NotFound, <<For, A>>),
    RegExp(Str(A, FALSE), {"g", "y"}),
    FArray(<<Smi(0), F1>>), FArray(<<F1, M2>>),
    FArray(<<FArray(<<Smi(1)>>), Singleton("accessor_pair")>>),
    FDArray(<<"1.5">>),
    JSArr("FAST_SMI_ELEMENTS", Smi(0), FArray(<<>>)),
    JSArr("FAST_ELEMENTS", Smi(1), FArray(<<Str(A, TRUE), M2>>)),
    JSArr("FAST_ELEMENTS", Smi(2), FArray(<<F1, M2>>)),
    JSArr("FAST_DOUBLE_ELEMENTS", Smi(1), FDArray(<<"1.5", "2.5">>)),
    Buffer(<<>>), Typed("kExternalUint8Array", Buffer(<<"a", "b">>), 1, 1),
    JSVal("x1", Smi(1)), JSVal("x1", Str(A, FALSE)),
    AccessorInfo(Foreign("ArrayLengthGetter"), Foreign("ArrayLengthSetter"), M2),
    Singleton("global_proxy"), Singleton("allocation_site"), Ext("sfi", "x1") }

\* Further findings, one cause each.
\* new Number(0), and an accessor with no setter (FromCData of nullptr).
MCSmiZeroValues ==
  {JSVal("x1", Smi(0)),
   AccessorInfo(Foreign("ArrayLengthGetter"), Smi(0), Oddball("undefined"))}

\* Symbol.for("a") saved where the destination has not registered it.
MCNoDestRegistry == {}

\* An array longer than the Smi range: its length is a heap number.
MCLongArrayValues == {JSArr("DICTIONARY_ELEMENTS", HeapNumber("4294967295"), FArray(<<>>))}

\* Symbol("a"), in no registry and no root.
MCLocalSymbolValues == {Sym(NotFound, <<>>)}
====
