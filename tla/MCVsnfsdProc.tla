---------------------------- MODULE MCVsnfsdProc ----------------------------
(* Small file systems for the server procedures. *)
EXTENDS VsnfsdProc, TLC

(* Two names of which one is the other twice over, so that appending to a    *)
(* path without a "/" can hit an existing sibling.                           *)
MCName == {"x", "xx"}
MCCat  == (<<"x", "x">> :> "xx")

(* "/" is inode 1 and "/x" a directory, inode 2; the others are free. *)
MCInitIno ==
    [p \in Path |-> CASE p = <<>> -> 1 [] p = <<"x">> -> 2 [] OTHER -> NoIno]
MCInitKind ==
    [i \in Ino |-> IF i \in {1, 2} THEN "dir" ELSE "free"]

MountX     == {<<"x">>}
MountRootX == {<<>>, <<"x">>}
MountLater == {<<>>, <<"xx">>}
==============================================================================
