-------------------------- MODULE MCFunctionResolver --------------------------
(***************************************************************************)
(* Heaps for checking FunctionResolver: one function, or one              *)
(* SharedFunctionInfo, for each strategy and each failure of the code.    *)
(*   user script:  sRoot { sTop { sInner, sHelper }, sTop2 { sX } },       *)
(*                 compiling fTop (info() is sTop);                        *)
(*   lib script:   sLRoot { sLib };                                        *)
(*   natives:      sNat1 (BuiltinFunctionId 1), sNat2 (Array.prototype's  *)
(*                 second descriptor), sArray (the Array constructor),    *)
(*                 sNat3 "map(", sNat4 "function (", sNat5 "x=(".         *)
(***************************************************************************)
EXTENDS FunctionResolver

CONSTANTS
  fTop, fInner, fHelper, fTop2, fNat1, fNat2, fNat3, fNat4, fNat5, fArray,
  sRoot, sTop, sInner, sHelper, sTop2, sX, sLRoot, sLib,
  sNat1, sNat2, sNat3, sNat4, sNat5, sArray,
  nHelper, nBar, nFloor, nPush, nMap, nArray, nHole

MCNames == {nHelper, nBar, nFloor, nPush, nMap, nArray}

Fn(s, inner) == [shared |-> s, builtin |-> FALSE, inner |-> inner]
Info(outer, inner, start, name, script) ==
  [outer |-> outer, inner |-> inner, start |-> start, native |-> FALSE, id |-> 0,
   name |-> name, script |-> script]
Native(start, name, id) ==
  [Info(NoSfi, <<>>, start, name, "natives") EXCEPT !.native = TRUE, !.id = id]

(* "function map() function () x=(" as characters.                        *)
NativesSource ==
  FunctionWord \o <<" ", "m", "a", "p", "(", ")", " ">> \o FunctionWord
    \o <<" ", "(", ")", " ", "x", "=", "(">>

NoDescriptors == [inst |-> <<>>, proto |-> <<>>]

H ==
  [fn |-> (fTop :> Fn(sTop, FALSE)) @@ (fInner :> Fn(sInner, TRUE))
          @@ (fHelper :> Fn(sHelper, TRUE)) @@ (fTop2 :> Fn(sTop2, FALSE))
          @@ (fNat1 :> Fn(sNat1, FALSE)) @@ (fNat2 :> Fn(sNat2, FALSE))
          @@ (fNat3 :> Fn(sNat3, FALSE)) @@ (fNat4 :> Fn(sNat4, FALSE))
          @@ (fNat5 :> Fn(sNat5, FALSE)) @@ (fArray :> Fn(sArray, FALSE)),
   sfi |-> (sRoot :> Info(NoSfi, <<sTop, sTop2>>, 0, NoName, "user"))
           @@ (sTop :> Info(sRoot, <<sInner, sHelper>>, 10, NoName, "user"))
           @@ (sInner :> Info(sTop, <<>>, 20, NoName, "user"))
           @@ (sHelper :> Info(sTop, <<>>, 30, nHelper, "user"))
           @@ (sTop2 :> Info(sRoot, <<sX>>, 40, nBar, "user"))
           @@ (sX :> Info(sTop2, <<>>, 50, NoName, "user"))
           @@ (sLRoot :> Info(NoSfi, <<sLib>>, 0, NoName, "lib"))
           @@ (sLib :> Info(sLRoot, <<>>, 10, NoName, "lib"))
           @@ (sNat1 :> Native(12, nFloor, 1)) @@ (sNat2 :> Native(12, nPush, 0))
           @@ (sNat3 :> Native(12, nMap, 0)) @@ (sNat4 :> Native(24, NoName, 0))
           @@ (sNat5 :> Native(29, NoName, 0)) @@ (sArray :> Native(12, nArray, 0)),
   scope |-> (nHelper :> fHelper) @@ (nPush :> Other) @@ [n \in MCNames |-> NotInContext],
   global |-> (nBar :> fTop2) @@ (nArray :> fArray) @@ [n \in MCNames |-> Other],
   dict |-> <<[key |-> nHole, deleted |-> FALSE], [key |-> nBar, deleted |-> FALSE],
              [key |-> nArray, deleted |-> FALSE]>>,
   desc |-> (fArray :> [inst |-> <<Other>>, proto |-> <<Other, fNat2>>])
            @@ [f \in Fns |-> NoDescriptors],
   source |-> ("natives" :> NativesSource) @@ ("user" :> <<>>) @@ ("lib" :> <<>>),
   ids |-> (1 :> fNat1),
   builtins |-> (<<"m", "a", "p">> :> fNat3),
   live |-> Fns,
   current |-> sTop]

(* The fresh process before sHelper is compiled and before fTop exists.  *)
HLazy == [H EXCEPT !.sfi[sTop].inner = <<sInner, Undef>>, !.live = Fns \ {fTop}]

(* The source process before sInner was compiled.                         *)
HUncompiled == [H EXCEPT !.sfi[sTop].inner = <<Undef, sHelper>>]

Fn1(f) == [kind |-> "fn", x |-> f]
Sfi1(s) == [kind |-> "sfi", x |-> s]

(* References every strategy can save and load.                          *)
SavableRefs ==
  {Fn1(f) : f \in {fTop, fInner, fHelper, fTop2, fNat1, fNat2, fNat3, fNat4}}
    \cup {Sfi1(s) : s \in {sHelper, sTop2, sX, sNat1}}

Pairs(R) == {<<a>> : a \in R} \cup {<<a, b>> : a, b \in R}

MCEnvs ==
  {[save |-> H, load |-> H, refs |-> Pairs(SavableRefs)],
   [save |-> H, load |-> HLazy, refs |-> Pairs(SavableRefs)]}

(* An inlined function of another script.                                 *)
MCEnvsCrossScript == {[save |-> H, load |-> H, refs |-> {<<Sfi1(sLib)>>}]}

(* An inlined native function without a BuiltinFunctionId.                *)
MCEnvsNativeSfi == {[save |-> H, load |-> H, refs |-> {<<Sfi1(sNat2)>>}]}

(* An inlined function whose earlier sibling is not compiled.             *)
MCEnvsUncompiled == {[save |-> HUncompiled, load |-> H, refs |-> {<<Sfi1(sHelper)>>}]}

(* A native function whose source start follows no identifier.           *)
MCEnvsEmptyName == {[save |-> H, load |-> H, refs |-> {<<Fn1(fNat5)>>}]}

MCFns == {fTop, fInner, fHelper, fTop2, fNat1, fNat2, fNat3, fNat4, fNat5, fArray}
MCSfis == {sRoot, sTop, sInner, sHelper, sTop2, sX, sLRoot, sLib,
           sNat1, sNat2, sNat3, sNat4, sNat5, sArray}

====
