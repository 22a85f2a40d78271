-------------------------------- MODULE Status --------------------------------
(***************************************************************************)
(* What becomes of an error: from the failing call in a server procedure,   *)
(* through the status word of the reply, to the value the client's VFS      *)
(* operation returns.                                                       *)
(*                                                                         *)
(* A 32-bit word is the sequence of its bytes, most significant first.      *)
(* Statuses are kept in network order on the server (vsnfsd.h), so what the *)
(* code does to them with host arithmetic depends on the host.              *)
(***************************************************************************)
EXTENDS Integers, SequencesExt

CONSTANTS
    Host,        \* byte orders of the server: "little", "big"
    PathErrno,   \* what path_lookup fails with
    VfsErrno     \* what vfs_readdir and vfs_read fail with

ASSUME StatusAssumption ==
    /\ Host \subseteq {"little", "big"}
    /\ PathErrno \subseteq 1..4095
    /\ VfsErrno \subseteq 1..4095

VARIABLES
    host,     \* the server's byte order
    proc,     \* the procedure called
    failure,  \* what goes wrong in it
    pc,       \* where the call is
    status,   \* the four bytes of the status on the wire
    ret       \* what the client has made of it

vars == <<host, proc, failure, pc, status, ret>>

EIO == 5

(* src/vsnfs.h *)
VSNFSERR_NOENT  == 2
VSNFSERR_IO     == 5
VSNFSERR_NOTDIR == 20
VSNFSERR_NOSPC  == 28
VSNFSERR_REMOTE == 71

-------------------------------------------------------------------------------
(* Words *)

(* Two's complement: invert the bytes and add one with carry. *)
Negated(w) ==
    [k \in 1..4 |->
        LET carry == \A j \in k + 1..4 : w[j] = 0
        IN  (255 - w[k] + (IF carry THEN 1 ELSE 0)) % 256]

(* The word of an int; every status and errno fits two bytes. *)
Word(n) ==
    LET w(m) == <<0, 0, m \div 256, m % 256>>
    IN  IF n >= 0 THEN w(n) ELSE Negated(w(-n))

(* Mutant: the statuses of vsnfsd.h are left in host order. *)
NoSwap(h, w) == w

(* cpu_to_be32 on host h, and the bytes of a word in its memory *)
cpu_to_be32(h, w) == IF h = "little" THEN Reverse(w) ELSE w
Memory(h, w)      == IF h = "little" THEN Reverse(w) ELSE w

-------------------------------------------------------------------------------
(* The server *)

(* vsnfs_errtbl of vsnfsproc.c: <<status, errno>> *)
server_errtbl ==
    <<<<0, 0>>, <<1, 1>>, <<2, 2>>, <<5, 5>>, <<6, 6>>, <<13, 13>>, <<17, 17>>,
      <<18, 18>>, <<31, 31>>, <<19, 19>>, <<20, 20>>, <<21, 21>>, <<22, 22>>,
      <<27, 27>>, <<28, 28>>, <<30, 30>>, <<31, 31>>, <<63, 36>>, <<66, 39>>,
      <<70, 116>>, <<10008, 110>>, <<10008, 512>>, <<5, 26>>, <<10004, 95>>,
      <<10005, 525>>>>

(* The status for -errno: that of the first row which has it. *)
vsnfserrno(errno) ==
    LET i == SelectInSeq(server_errtbl, LAMBDA row : row[2] = errno)
    IN  IF i = 0 THEN VSNFSERR_IO ELSE server_errtbl[i][1]

(* vsnfsd_procedures1 *)
Procedures == {"null", "getroot", "lookup", "readdir", "read"}

(* The ways procedure p can go.  A handle LOOKUP does not know is none of    *)
(* its failures: it answers vsnfs_ok then (UnknownHandleRefused in           *)
(* VsnfsdProc is about that).                                                *)
Failures(p) ==
    LET at(where)       == [at |-> where, errno |-> 0]
        with(where, es) == [at : {where}, errno : es]
    IN  {at("none"), at("decode"), at("encode")} \cup
        CASE p = "null" -> {}
          [] p = "getroot" -> {at("kmalloc"), at("notdir")} \cup with("path", PathErrno)
          [] p = "lookup"  -> {at("kmalloc")} \cup with("path", PathErrno)
          [] OTHER -> {at("kmalloc"), at("handle"), at("open")}
                        \cup with("vfs", VfsErrno)

(* The __be32 the procedure returns, as a word of host h.  GETROOT and       *)
(* LOOKUP negate statuses that are in network order already, and return what *)
(* path_lookup gave them as it is.                                           *)
Returned(h, p, f) ==
    LET be(n) == cpu_to_be32(h, Word(n))
    IN  CASE f.at = "path"   -> Word(-f.errno)
          [] f.at = "notdir" -> Negated(be(VSNFSERR_NOTDIR))
          [] f.at = "kmalloc" ->
                 IF p \in {"getroot", "lookup"} THEN Negated(be(VSNFSERR_NOSPC))
                                                ELSE be(VSNFSERR_NOSPC)
          [] f.at = "handle" -> be(VSNFSERR_NOENT)
          [] f.at = "open"   -> be(VSNFSERR_IO)
          [] f.at = "vfs"    -> be(vsnfserrno(f.errno))
          [] OTHER           -> be(0)

(* Arguments that do not decode and results that do not encode are reported  *)
(* by the RPC layer; any other reply begins with the status.                 *)
vsnfsd_dispatch ==
    /\ pc = "call"
    /\ IF failure.at \in {"decode", "encode"}
         THEN /\ pc' = "rpcerror"
              /\ UNCHANGED status
         ELSE /\ pc' = "reply"
              /\ status' = Memory(host, Returned(host, proc, failure))
    /\ UNCHANGED <<host, proc, failure, ret>>

-------------------------------------------------------------------------------
(* The client *)

(* vsnfs_errtbl of vsnfsXdr.c: <<status, errno>>.  In two rows a "-" stands  *)
(* where "," is meant: 45 - EOPNOTSUPP and 10003 - EBADCOOKIE, with errno 0. *)
client_errtbl ==
    <<<<0, 0>>, <<2, 2>>, <<5, 5>>, <<6, 6>>, <<11, 11>>, <<17, 17>>, <<19, 19>>,
      <<20, 20>>, <<21, 21>>, <<22, 22>>, <<27, 27>>, <<28, 28>>, <<30, 30>>,
      <<31, 31>>, <<45 - 95, 0>>, <<63, 36>>, <<66, 39>>, <<69, 122>>, <<70, 116>>,
      <<71, 66>>, <<10001, 521>>, <<10003 - 523, 0>>>>

(* Mutants: an unknown status gives 0; the sign is lost; a status is taken   *)
(* for the errno of the same number.                                         *)
StatUnknownOk(w) ==
    LET i == SelectInSeq(client_errtbl, LAMBDA row : Word(row[1]) = w)
    IN  IF i = 0 THEN 0 ELSE -client_errtbl[i][2]

StatUnsigned(w) ==
    LET i == SelectInSeq(client_errtbl, LAMBDA row : Word(row[1]) = w)
    IN  IF i = 0 THEN EIO ELSE client_errtbl[i][2]

StatIsErrno(w) ==
    IF w[1] = 0 /\ w[2] = 0 THEN -(256 * w[3] + w[4]) ELSE -EIO

(* The first row with the status, or the last row, which has EIO. *)
vsnfs_stat_to_errno(w) ==
    LET i == SelectInSeq(client_errtbl, LAMBDA row : Word(row[1]) = w)
    IN  IF i = 0 THEN -EIO ELSE -client_errtbl[i][2]

(* The decode function of the procedure; ntohl makes the bytes on the wire a *)
(* word on any host.  rpc_call_sync returns what it gives.                   *)
vsnfs_xdr_res ==
    \/ /\ pc = "reply"
       /\ ret' = IF status = Word(0) THEN 0 ELSE vsnfs_stat_to_errno(status)
       /\ pc' = "answer"
       /\ UNCHANGED <<host, proc, failure, status>>
    \/ /\ pc = "rpcerror"
       /\ ret' = -EIO
       /\ pc' = "answer"
       /\ UNCHANGED <<host, proc, failure, status>>

(* The callers.  Mounting and looking up turn every error into one. *)
Return(r) ==
    /\ pc = "answer"
    /\ ret' = r
    /\ pc' = "done"
    /\ UNCHANGED <<host, proc, failure, status>>

vsnfs_create_rpcclient ==
    proc = "getroot" /\ Return(IF ret = 0 THEN 0 ELSE -VSNFSERR_REMOTE)

vsnfs_do_lookup ==
    proc = "lookup" /\ Return(IF ret = 0 THEN 0 ELSE -VSNFSERR_REMOTE)

(* The other vsnfs_proc functions hand on what rpc_call_sync returns; so     *)
(* does vsnfs_readdir, the one of them that is called.                       *)
vsnfs_proc == proc \in {"null", "readdir", "read"} /\ Return(ret)

Done == pc = "done" /\ UNCHANGED vars

-------------------------------------------------------------------------------
Init ==
    /\ host \in Host
    /\ proc \in Procedures
    /\ failure \in Failures(proc)
    /\ pc = "call"
    /\ status = Word(0)
    /\ ret = 0

Next ==
    \/ vsnfsd_dispatch \/ vsnfs_xdr_res
    \/ vsnfs_create_rpcclient \/ vsnfs_do_lookup \/ vsnfs_proc
    \/ Done

Spec == Init /\ [][Next]_vars

-------------------------------------------------------------------------------
(* Properties *)

(* Every variable has its type; the client returns 0 or a negated errno. *)
TypeOK ==
    /\ host \in Host
    /\ failure \in Failures(proc)
    /\ pc \in {"call", "reply", "rpcerror", "answer", "done"}
    /\ status \in [1..4 -> 0..255]
    /\ ret \in -4095..0

(* What path_lookup returns to GETROOT and LOOKUP is sent as it is; from a   *)
(* big-endian server -50 is the status of the broken row 45 - EOPNOTSUPP.    *)
ENOCSI == 50
HitsBrokenRow(h) ==
    h = "big" /\ failure.at = "path" /\ failure.errno = ENOCSI

(* The caller sees an error exactly if there was one, with one exception:    *)
(* whatever a procedure does to its status in host arithmetic, and whatever  *)
(* errno the server's file system gives it, no other failure arrives as      *)
(* success, and the other broken row of the client's table is never hit.     *)
ErrorStaysError ==
    pc = "done" => (ret = 0 <=> failure.at = "none" \/ HitsBrokenRow(host))

(* An error of the server's file system reaches the user of READDIR or READ  *)
(* as itself or as EIO, never as a different one.                            *)
NoOtherErrno ==
    pc = "done" /\ failure.at = "vfs" => ret \in {-failure.errno, -EIO}

(* What the client returns for this call when the server runs on host h. *)
ReturnedFrom(h) ==
    LET bytes == Memory(h, Returned(h, proc, failure))
        errno == IF failure.at \in {"decode", "encode"} THEN -EIO
                 ELSE IF bytes = Word(0) THEN 0
                 ELSE vsnfs_stat_to_errno(bytes)
    IN  IF proc \in {"getroot", "lookup"} /\ errno # 0 THEN -VSNFSERR_REMOTE
        ELSE errno

(* What the caller sees does not depend on the server's byte order, although *)
(* GETROOT and LOOKUP send other bytes from a big-endian server than from a  *)
(* little-endian one: what vsnfs_stat_to_errno makes of them is replaced.    *)
(* The one failure that hits a broken row is again the exception.            *)
SameFromAnyHost ==
    pc = "done" =>
        \A h \in Host :
            ret = ReturnedFrom(h) \/ HitsBrokenRow(h) \/ HitsBrokenRow(host)
===============================================================================
