---------------------------- MODULE MCFileSystem ----------------------------
(***************************************************************************)
(* Values for FileSystem: names one of which starts with the other, a host *)
(* file of part of a block and one of exactly a block.                     *)
(***************************************************************************)
EXTENDS FileSystem

MCExtends == {<<"ab", "a">>}
MCSize == [h \in Host |-> IF h = "short" THEN 1 ELSE IF h = "block" THEN BlockSize ELSE BlockSize + 2]
=============================================================================
