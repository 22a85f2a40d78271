------------------------------ MODULE MCReaddir ------------------------------
(* Directories for the listing: name lengths on both sides of a word and of  *)
(* the limit, and entries whose numbers do not fit in 32 bits.               *)
EXTENDS Readdir

Plain(lens) == [len : lens, big : {"none"}]

MCPlain == Plain({1, 4, 5, 9})
MCAny   == Plain({1, 4, 5, 9}) \cup [len : {3}, big : {"offset", "ino"}]
===============================================================================
