---------------------------- MODULE MCHydrogenShims ----------------------------
(* Model values for HydrogenShims: every shim a lithium instruction owns, *)
(* with its variants, and the ways each kind of nested object load ends.  *)
EXTENDS HydrogenShims

MCShims == AllShims

MCRegExpShims == {Source("HRegExpLiteral")}

MCCheckValueShims == {Source("HCheckValue")}

(* LoadMap fails inside the map chain (MapLoader), or finds a named      *)
(* global's map changed; LoadJSFunction can fail inside its context or  *)
(* shared info, or after reading it all; LoadHeapObject's loaders can   *)
(* fail part way or at the end; LoadFixedArrayData fails at an element.  *)
(* Strings and names have no way to fail.                                 *)
MCOutcomes ==
  ("map" :> {"ok", "partial", "relaid"}) @@ ("fn" :> {"ok", "late", "partial"})
  @@ ("sfi" :> {"ok", "partial"}) @@ ("heap" :> {"ok", "partial", "late"})
  @@ ("farray" :> {"ok", "partial"}) @@ ("string" :> {"ok"}) @@ ("name" :> {"ok"})
  @@ ("chars" :> {"ok"})

MCRegExpOutcomes == [MCOutcomes EXCEPT !["farray"] = {"partial"}]
================================================================================
