---------------------------- MODULE MCCodeBlockDB ----------------------------
(* Two start positions, code of length 0, 1 and 2, and the x64 ratio of   *)
(* int to size_t (1 : 2 bytes here).  Three allocations let a process     *)
(* load a file and then replace both of its blocks, or set, replace and   *)
(* remove code.                                                           *)
EXTENDS CodeBlockDB

MCCodes == {<<>>, <<3>>, <<1, 2>>}
=============================================================================
