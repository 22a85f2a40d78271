------------------------------- MODULE MCStatus -------------------------------
(* The errors of the server's file system calls. *)
EXTENDS Status

(* Every errno of errno-base.h and errno.h, and the kernel's own *)
MCErrno == (1..133) \cup (512..530)
===============================================================================
