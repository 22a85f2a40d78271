------------------------------- MODULE MCVsnfs --------------------------------
(* A file system with a directory "/x" and one more inode number, which a    *)
(* local user of the server may give to "/x/x".                              *)
EXTENDS Vsnfs

MCName == {"x"}
MCCat  == [c \in {} |-> NoName]

MCInitIno ==
    [p \in Path |-> CASE p = <<>> -> 1 [] p = <<"x">> -> 2 [] OTHER -> NoIno]
MCInitKind == [i \in Ino |-> IF i \in {1, 2} THEN "dir" ELSE "free"]

MountRoot  == {<<>>}
MountRootX == {<<>>, <<"x">>}
===============================================================================
