---------------------------- MODULE MCShapeSave ----------------------------
(***************************************************************************)
(* A small heap for ShapeSave.  Its map tree has every kind of step the   *)
(* saver distinguishes:                                                   *)
(*     R (stable root) -x-> A -y-> B -copy-> D                             *)
(*     S (unstable root) -x-> E           S -?-> L (transition overwritten)*)
(*     RA (stable root with a "length" descriptor) -sym-> CA               *)
(* Objects o1..o4 have the maps D, E, CA and L.  What varies between the   *)
(* initial states is what the descriptors x and y hold, the property      *)
(* fields of o1 and o2, and the prototype of the maps E and L.            *)
(***************************************************************************)
EXTENDS ShapeSave, Graphs

MCMaps == {"R", "A", "B", "D", "S", "E", "L", "RA", "CA"}
MCParent == [m \in MCMaps |->
              CASE m \in {"R", "S", "RA"} -> "none"
                [] m = "A" -> "R"
                [] m = "B" -> "A"
                [] m = "CA" -> "RA"
                [] m = "D" -> "B"
                [] m \in {"E", "L"} -> "S"]
MCOwnKeys == [m \in MCMaps |->
               CASE m \in {"R", "S", "D"} -> <<>>
                 [] m \in {"A", "E"} -> <<"x">>
                 [] m \in {"RA", "CA"} -> <<"length">>
                 [] m \in {"B", "L"} -> <<"x", "y">>]
MCTransitionKey == [m \in MCMaps |-> IF m = "CA" THEN "sym" ELSE "notfound"]
MCObjs == {"o1", "o2", "o3", "o4"}
MCMapOf == [o \in MCObjs |->
             CASE o = "o1" -> "D" [] o = "o2" -> "E" [] o = "o3" -> "CA"
               [] o = "o4" -> "L"]
MCFns == {"fOk", "fInner", "fBad", "fGone"}
MCFnSave == [f \in MCFns |->
              CASE f = "fOk" -> "ok" [] f = "fInner" -> "inner"
                [] f = "fBad" -> "unsavable" [] f = "fGone" -> "ok"]
\* fGone is saved by its start position and is gone when the code is loaded.
MCFnLoad == [f \in MCFns |-> IF f = "fGone" THEN "notfound" ELSE "ok"]
MCConstructor == [m \in MCMaps |-> IF m \in {"S", "E", "L"} THEN "nofn" ELSE "fOk"]

\* The object graph through property fields, which no check of the saver sees.
FieldGraph(h) == [node |-> MCObjs,
                  edge |-> {<<o, p>> \in MCObjs \X MCObjs :
                              \E j \in DOMAIN h.fields[o] : h.fields[o][j] = p}]

AllHeaps ==
  [descVal : {[k \in {"x", "y", "length"} |-> IF k = "length" THEN "smi1" ELSE dv[k]] :
                dv \in [{"x", "y"} -> {"smi0", "smi1", "o1", "o2", "fInner", "fBad", "fGone"}]},
   fields : {[o \in MCObjs |-> IF o \in {"o1", "o2"} THEN fs[o] ELSE <<>>] :
               fs \in [{"o1", "o2"} -> {<<>>, <<"smi1">>, <<"o1">>, <<"o2">>}]},
   proto : {[m \in MCMaps |-> IF m \in {"E", "L"} THEN p ELSE "null"] :
               p \in {"null", "o1", "o2"}}]

\* Heaps whose objects do not reach themselves through property fields.
MCHeaps == {h \in AllHeaps : ~HasCycle(FieldGraph(h))}

\* Two frames (SaveJSObject and its SaveMap) for each object, nested twice.
MCMaxDepth == 2 * Cardinality(MCObjs)
============================================================================
