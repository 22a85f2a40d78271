------------------------------ MODULE VsnfsdProc ------------------------------
(***************************************************************************)
(* The procedures of the vsnfs server (src/server/vsnfsproc.c, vfs.c) and   *)
(* the table vsnfs_lp_tab that turns a file handle back into a path.        *)
(*                                                                         *)
(* A handle carries an inode number and nothing else that the server looks  *)
(* at.  LOOKUP and GETROOT record the pair (inode number, path) in the      *)
(* table; LOOKUP, READDIR and READ find the path of a handle there and walk *)
(* it again from the root of the server's file system.                      *)
(*                                                                         *)
(* The service has one thread (VSNFS_NRSERVS is 1), so a procedure is one   *)
(* step.  Each procedure consults the file system once, so a change made    *)
(* by a local user of the server falls before or after it.                  *)
(***************************************************************************)
EXTENDS Integers, Sequences

CONSTANTS
    Name,          \* the names files may have
    Cat,           \* Cat[<<m, n>>] is the name "mn", where that is in Name
    NoName,        \* a concatenation that is not in Name
    Ino,           \* the inode numbers of the exported file system
    MaxDepth,      \* bound: no file lies deeper
    MaxGen,        \* bound: how often an inode number is reused
    InitIno,       \* the initial directory tree: path -> inode number
    InitKind,      \* the initial kind of every inode
    MountPath,     \* the paths clients ask to mount
    EnvOps,        \* what the environment does besides calling the server
    KmallocFails,  \* may kmalloc return NULL?
    Offset,        \* the file offsets a READ may name
    VSNFS_FHSIZE   \* bytes of handle data; 8 in vsnfs.h

(* src/vsnfs.h *)
VSNFS_REG == 1
VSNFS_DIR == 2

(* A path is the sequence of its components; <<>> is "/". *)
Path == UNION {[1..k -> Name] : k \in 0..MaxDepth}

(* 0 is no inode number: vsnfsd_fh_to_path refuses it, and it stands for a  *)
(* dentry that has no inode.                                                *)
NoIno == 0

Kind == {"free", "reg", "dir", "other"}

(* Every file there is lies in a directory, which lies in a directory... *)
IsTree(at, k) ==
    \A p \in Path : at[p] # NoIno =>
        /\ k[at[p]] # "free"
        /\ \A j \in 0..Len(p) - 1 :
              at[SubSeq(p, 1, j)] # NoIno /\ k[at[SubSeq(p, 1, j)]] = "dir"

ASSUME ConstantsAssumption ==
    /\ Ino \subseteq Nat \ {0}
    /\ MaxDepth \in Nat
    /\ MaxGen \in Nat
    /\ VSNFS_FHSIZE \in Nat \ {0}
    /\ NoName \notin Name
    /\ \A c \in DOMAIN Cat : Cat[c] \in Name
    /\ InitIno \in [Path -> Ino \cup {NoIno}]
    /\ InitKind \in [Ino -> Kind]
    /\ IsTree(InitIno, InitKind)
    /\ InitIno[<<>>] # NoIno
    /\ InitKind[InitIno[<<>>]] = "dir"
    /\ MountPath \subseteq Path
    /\ KmallocFails \in BOOLEAN
    /\ Offset \subseteq Nat

VARIABLES
    ino_at,    \* the server's file system: the inode a path leads to
    kind,      \* the file type of an inode
    gen,       \* how often the inode number has been freed
    lp_init,   \* has INIT_LIST_HEAD run on vsnfs_lp_tab since module load?
    lp_tab,    \* the nodes on vsnfs_lp_tab
    daemon,    \* "up", or "oops" after a bad memory access in the thread
    lost_refs, \* has a failed walk put references that were not its own?
    issued,    \* history: every handle sent in a successful reply
    live,      \* history: those sent since the table was last emptied
    reply      \* the reply of the last step, and the file it is about

fs   == <<ino_at, kind, gen>>
vars == <<ino_at, kind, gen, lp_init, lp_tab, daemon, lost_refs, issued, live, reply>>

-------------------------------------------------------------------------------
(* Files, handles and table nodes *)

(* Which file an inode number means at this moment. *)
FileId(i) == [ino |-> i, gen |-> gen[i]]
NoFile    == [ino |-> NoIno, gen |-> 0]

(* snprintf(data, VSNFS_FHSIZE, "%ld", ino) keeps the leading digits that    *)
(* fit before the terminating NUL; simple_strtoul reads them back.           *)
FhData(i) ==
    LET fits     == 10 ^ (VSNFS_FHSIZE - 1)
        leading  == {i \div (10 ^ k) : k \in 0..9}
    IN  CHOOSE d \in leading :
            /\ d < fits
            /\ \A e \in leading : e < fits => e <= d

(* Mutant: the d_type of the file is sent as its type. *)
HandleTypeRaw(k) == CASE k = "reg" -> 8 [] k = "dir" -> 4 [] OTHER -> 10

(* S_ISREG and S_ISDIR set resp->type; for anything else it stays 0. *)
HandleType(k) ==
    CASE k = "reg" -> VSNFS_REG [] k = "dir" -> VSNFS_DIR [] OTHER -> 0

InTable(i) == \E node \in lp_tab : node.ino = i

(* file is a history field: the file the handle was made for. *)
Fh(i) ==
    [data |-> FhData(i), type |-> HandleType(kind[i]), file |-> FileId(i)]

NullFh == [data |-> 0, type |-> 0, file |-> NoFile]

(* A node's path string ends in "/" exactly when slash holds. *)
Node(i, p, s) == [ino |-> i, path |-> p, slash |-> s]

(* Mutants: the second search is left out; only directories are recorded; a  *)
(* directory's path is recorded without its "/", or without its last name.   *)
RecordedUnsearched(i, p) == lp_tab \cup {Node(i, p, kind[i] = "dir")}

RecordedDirs(i, p) ==
    IF InTable(i) \/ kind[i] # "dir" THEN lp_tab
    ELSE lp_tab \cup {Node(i, p, TRUE)}

RecordedBare(i, p) ==
    IF InTable(i) THEN lp_tab ELSE lp_tab \cup {Node(i, p, FALSE)}

RecordedParent(i, p) ==
    IF InTable(i) THEN lp_tab
    ELSE lp_tab \cup {Node(i, SubSeq(p, 1, Len(p) - 1), kind[i] = "dir")}

(* The table after LOOKUP found inode i at path p: it searches for the inode *)
(* first, and ends the path of a directory with "/".                         *)
Recorded(i, p) ==
    IF InTable(i) THEN lp_tab
    ELSE lp_tab \cup {Node(i, p, kind[i] = "dir")}

(* The path string of a node followed by a file name.  Without a "/" at its  *)
(* end the last component and the name run together.                         *)
Concat(m, n) == IF <<m, n>> \in DOMAIN Cat THEN Cat[<<m, n>>] ELSE NoName

Extend(node, n) ==
    IF node.slash
      THEN Append(node.path, n)
      ELSE [node.path EXCEPT ![Len(node.path)] = Concat(@, n)]

-------------------------------------------------------------------------------
(* The server's file system, as path_lookup and filp_open show it *)

InoAt(p) == IF p \in Path THEN ino_at[p] ELSE NoIno

Resolves(p, slash) ==
    InoAt(p) # NoIno /\ (slash => kind[InoAt(p)] = "dir")

(* The inode of the last component a failing walk of p gets to. *)
LastReached(p) ==
    {InoAt(SubSeq(p, 1, k)) : k \in
        {m \in 0..Len(p) :
            /\ \A j \in 0..m : InoAt(SubSeq(p, 1, j)) # NoIno
            /\ m < Len(p) => InoAt(SubSeq(p, 1, m + 1)) = NoIno}}

(* path_lookup with an empty flags argument: the return code and the dentry  *)
(* in nd->path.  The callers use nd->path after a failure as well; it is     *)
(* then the last dentry the walk got to, or one without an inode.  Failing,  *)
(* the walk has given up its references, so dget may find a count of zero    *)
(* (a BUG), and so may a later walk, after path_put and dput: NoIno stands   *)
(* for these too.                                                            *)
path_lookup(p, slash) ==
    IF Resolves(p, slash)
      THEN {[ok |-> TRUE, ino |-> InoAt(p)]}
               \cup (IF lost_refs THEN {[ok |-> FALSE, ino |-> NoIno]} ELSE {})
      ELSE {[ok |-> FALSE, ino |-> i] : i \in LastReached(p) \cup {NoIno}}

(* path_put and dput by a caller whose walk gave w: after a failed walk they *)
(* put references somebody else has.                                         *)
PutPath(w) == lost_refs' = (lost_refs \/ ~w.ok)

-------------------------------------------------------------------------------
(* Replies *)

NoReply == [proc |-> "none", ok |-> FALSE, via |-> NullFh, fh |-> NullFh,
            file |-> NoFile, offset |-> 0, pos |-> 0]

(* The reply to proc, called with handle via: a handle fh from the files     *)
(* below the directory file.                                                 *)
Answer(proc, ok, via, fh, file) ==
    reply' = [NoReply EXCEPT !.proc = proc, !.ok = ok, !.via = via,
                             !.fh = IF ok THEN fh ELSE NullFh,
                             !.file = IF ok THEN file ELSE NoFile]

(* vsnfsd_dispatch encodes no result for a nonzero status. *)
Error(proc, via) == Answer(proc, FALSE, via, NullFh, NoFile)

(* A NULL or wild pointer is dereferenced: the kernel kills the thread,      *)
(* which answers no more calls.                                              *)
Oops ==
    /\ daemon' = "oops"
    /\ reply' = NoReply
    /\ UNCHANGED <<fs, lp_init, lp_tab, lost_refs, issued, live>>

(* A call that changes nothing but the reply; lost_refs apart. *)
Quiet     == UNCHANGED <<fs, lp_init, lp_tab, daemon, issued, live>>
Unchanged == Quiet /\ UNCHANGED lost_refs

(* The set of handles h with the handle of this reply added, if it is one. *)
Sent(h) == IF reply'.ok THEN h \cup {reply'.fh} ELSE h

-------------------------------------------------------------------------------
(* GETROOT *)

(* The walk of the mount path gave w.  A failed walk is not an early return. *)
GetrootWalked(p, w) ==
    \/ /\ w.ino = NoIno                 \* root->d_inode is NULL
       /\ Oops
    \/ /\ w.ino # NoIno
       /\ kind[w.ino] = "reg"           \* vsnfserr_notdir
       /\ Error("getroot", NullFh)
       /\ PutPath(w)
       /\ Quiet
    \/ /\ w.ino # NoIno
       /\ kind[w.ino] # "reg"
       /\ lp_init' = TRUE               \* INIT_LIST_HEAD
       /\ PutPath(w)
       /\ \/ /\ KmallocFails            \* no memory for the node
             /\ daemon' = "oops"
             /\ reply' = NoReply
             /\ lp_tab' = {}
          \/ /\ KmallocFails            \* none for its path
             /\ Error("getroot", NullFh)
             /\ lp_tab' = {}
             /\ UNCHANGED daemon
          \/ /\ Answer("getroot", w.ok, NullFh, Fh(w.ino), FileId(w.ino))
             /\ lp_tab' = {Node(w.ino, p, TRUE)}
             /\ UNCHANGED daemon
       /\ issued' = Sent(issued)
       /\ live' = Sent({})
       /\ UNCHANGED fs

(* A client asks for the root of path p, which is not the empty string. *)
vsnfsd_proc_getroot(p) ==
    /\ daemon = "up"
    /\ \/ /\ KmallocFails             \* no memory for nd or the path
          /\ Error("getroot", NullFh)
          /\ Unchanged
       \/ \E w \in path_lookup(p, TRUE) : GetrootWalked(p, w)

-------------------------------------------------------------------------------
(* LOOKUP *)

(* The walk of path p, the name looked up under handle h, gave w. *)
LookupWalked(h, p, w) ==
    \/ /\ w.ino = NoIno                 \* dentry->d_inode is NULL
       /\ Oops
    \/ /\ w.ino # NoIno
       /\ ~InTable(w.ino)
       /\ KmallocFails
       /\ \/ Oops                       \* no memory for the node
          \/ /\ Error("lookup", h)      \* none for its path
             /\ PutPath(w)
             /\ Quiet
    \/ /\ w.ino # NoIno
       /\ Answer("lookup", w.ok, h, Fh(w.ino),
                 LET dir == InoAt(SubSeq(p, 1, Len(p) - 1))
                 IN  IF dir = NoIno THEN NoFile ELSE FileId(dir))
       /\ lp_tab' = Recorded(w.ino, p)
       /\ issued' = Sent(issued)
       /\ live' = Sent(live)
       /\ PutPath(w)
       /\ UNCHANGED <<fs, lp_init, daemon>>

(* A client looks the name n up in the directory of handle h.  A handle      *)
(* without a node leaves path NULL: nothing is done, and rc is vsnfs_ok.     *)
vsnfsd_proc_lookup(h, n) ==
    /\ daemon = "up"
    /\ \/ /\ ~lp_init                   \* the list head holds NULL pointers
          /\ Oops
       \/ /\ lp_init
          /\ ~InTable(h.data)
          /\ Answer("lookup", TRUE, h, NullFh, NoFile)
          /\ issued' = Sent(issued)
          /\ live' = Sent(live)
          /\ UNCHANGED <<fs, lp_init, lp_tab, daemon, lost_refs>>
       \/ /\ lp_init
          /\ InTable(h.data)
          /\ KmallocFails               \* no memory for the path or nd
          /\ Error("lookup", h)
          /\ Unchanged
       \/ /\ lp_init
          /\ \E node \in lp_tab :
                /\ node.ino = h.data
                /\ \E w \in path_lookup(Extend(node, n), FALSE) :
                       LookupWalked(h, Extend(node, n), w)

-------------------------------------------------------------------------------
(* READDIR and READ *)

(* Mutant: the search stops at a node without comparing its inode number. *)
OpenAny(h) ==
    {InoAt(node.path) : node \in {m \in lp_tab : Resolves(m.path, m.slash)}}

(* vsnfsd_open, with vsnfsd_fh_to_path: the inodes that opening the path of  *)
(* handle h gives; none when the handle has no node or the open fails.       *)
vsnfsd_open(h) ==
    {InoAt(node.path) : node \in
        {m \in lp_tab : m.ino = h.data /\ Resolves(m.path, m.slash)}}

(* fh_to_path walks the table for every inode number but 0, and filp_open    *)
(* the path it finds.                                                        *)
OpenOops(h) ==
    /\ h.data # 0
    /\ ~lp_init \/ (lost_refs /\ InTable(h.data))
    /\ Oops

(* Where an error is answered instead: no memory for the path, a search that *)
(* ends, or the disk failing under vfs_readdir or vfs_read.                  *)
OpenFails(h) == lp_init \/ h.data = 0 \/ KmallocFails

(* Lists the directory of handle h.  The entries and the page they are       *)
(* encoded in are modelled in Readdir.                                       *)
vsnfsd_proc_readdir(h) ==
    /\ daemon = "up"
    /\ \/ OpenOops(h)
       \/ OpenFails(h) /\ Error("readdir", h) /\ Unchanged
       \/ /\ lp_init
          /\ \E i \in vsnfsd_open(h) :
                /\ kind[i] = "dir"
                /\ Answer("readdir", TRUE, h, NullFh, FileId(i))
          /\ Unchanged

(* Reads the file of handle h at offset.  pos, which vfs_read starts from,   *)
(* is an uninitialised local; offset is not used.                            *)
vsnfsd_proc_read(h, offset) ==
    /\ daemon = "up"
    /\ \/ OpenOops(h)
       \/ OpenFails(h) /\ Error("read", h) /\ Unchanged
       \/ /\ lp_init
          /\ \E i \in vsnfsd_open(h), pos \in Offset :
                /\ kind[i] # "dir"
                /\ reply' = [NoReply EXCEPT !.proc = "read", !.ok = TRUE,
                                            !.via = h, !.file = FileId(i),
                                            !.offset = offset, !.pos = pos]
          /\ Unchanged

-------------------------------------------------------------------------------
(* What local users of the server do to its file system, and a reload *)

Below(q, p) == Len(p) <= Len(q) /\ SubSeq(q, 1, Len(p)) = p

IsDir(p) == InoAt(p) # NoIno /\ kind[InoAt(p)] = "dir"

FreePath(p) ==
    p # <<>> /\ ino_at[p] = NoIno /\ IsDir(SubSeq(p, 1, Len(p) - 1))

(* The reply is the last step's: a step that is no call has none. *)
NoCall ==
    /\ reply' = NoReply
    /\ UNCHANGED <<lp_init, lp_tab, daemon, lost_refs, issued, live>>

Syscall(k) == CASE k = "dir" -> "mkdir" [] k = "reg" -> "create" [] OTHER -> "mknod"

FsCreate(p, i, k) ==
    /\ Syscall(k) \in EnvOps
    /\ FreePath(p)
    /\ kind[i] = "free"
    /\ ino_at' = [ino_at EXCEPT ![p] = i]
    /\ kind' = [kind EXCEPT ![i] = k]
    /\ UNCHANGED gen
    /\ NoCall

FsLink(p, i) ==
    /\ "link" \in EnvOps
    /\ FreePath(p)
    /\ kind[i] = "reg"
    /\ ino_at' = [ino_at EXCEPT ![p] = i]
    /\ UNCHANGED <<kind, gen>>
    /\ NoCall

FsRemove(p) ==
    /\ "remove" \in EnvOps
    /\ p # <<>>
    /\ ino_at[p] # NoIno
    /\ \A q \in Path : Below(q, p) /\ q # p => ino_at[q] = NoIno
    /\ ino_at' = [ino_at EXCEPT ![p] = NoIno]
    /\ IF \E q \in Path \ {p} : ino_at[q] = ino_at[p]
         THEN UNCHANGED <<kind, gen>>
         ELSE /\ gen[ino_at[p]] < MaxGen
              /\ kind' = [kind EXCEPT ![ino_at[p]] = "free"]
              /\ gen' = [gen EXCEPT ![ino_at[p]] = @ + 1]
    /\ NoCall

FsRename(p, q) ==
    /\ "rename" \in EnvOps
    /\ p # <<>>
    /\ ino_at[p] # NoIno
    /\ FreePath(q)
    /\ ~Below(q, p)
    /\ \A r \in Path : Below(r, p) /\ ino_at[r] # NoIno =>
            Len(q) + Len(r) - Len(p) <= MaxDepth
    /\ ino_at' = [r \in Path |->
           CASE Below(r, q) -> InoAt(p \o SubSeq(r, Len(q) + 1, Len(r)))
             [] Below(r, p) -> NoIno
             [] OTHER       -> ino_at[r]]
    /\ UNCHANGED <<kind, gen>>
    /\ NoCall

(* The module is removed and loaded again, or the machine rebooted: the      *)
(* table is the zeroed vsnfs_lp_tab of a fresh module.  Only a reboot undoes *)
(* an oops, and what was put once too often.                                 *)
Reload ==
    /\ "reload" \in EnvOps
    /\ lp_init' = FALSE
    /\ lp_tab' = {}
    /\ daemon' = "up"
    /\ lost_refs' \in {FALSE, daemon = "up" /\ lost_refs}
    /\ live' = {}
    /\ reply' = NoReply
    /\ UNCHANGED <<fs, issued>>

-------------------------------------------------------------------------------
Init ==
    /\ ino_at = InitIno
    /\ kind = InitKind
    /\ gen = [i \in Ino |-> 0]
    /\ lp_init = FALSE
    /\ lp_tab = {}
    /\ daemon = "up"
    /\ lost_refs = FALSE
    /\ issued = {}
    /\ live = {}
    /\ reply = NoReply

(* A client uses a handle as what its type says: vsnfs_fhget gives only a    *)
(* VSNFS_DIR inode the directory operations.                                 *)
Getroot == \E p \in MountPath : vsnfsd_proc_getroot(p)
Lookup  == \E h \in issued, n \in Name :
              h.type = VSNFS_DIR /\ vsnfsd_proc_lookup(h, n)
ReadDir == \E h \in issued : h.type = VSNFS_DIR /\ vsnfsd_proc_readdir(h)
Read    == \E h \in issued, offset \in Offset :
              h.type = VSNFS_REG /\ vsnfsd_proc_read(h, offset)

FsChange ==
    \/ \E p \in Path, i \in Ino, k \in Kind \ {"free"} : FsCreate(p, i, k)
    \/ \E p \in Path, i \in Ino : FsLink(p, i)
    \/ \E p \in Path : FsRemove(p)
    \/ \E p, q \in Path : FsRename(p, q)

Next == Getroot \/ Lookup \/ ReadDir \/ Read \/ FsChange \/ Reload

Spec == Init /\ [][Next]_vars

-------------------------------------------------------------------------------
(* Properties *)

FileIds == [ino : Ino \cup {NoIno}, gen : 0..MaxGen]
Handles == [data : {FhData(i) : i \in Ino} \cup {0},
            type : {0, VSNFS_REG, VSNFS_DIR},
            file : FileIds]
Nodes   == [ino : Ino, path : Seq(Name \cup {NoName}), slash : BOOLEAN]

Procs   == {"none", "getroot", "lookup", "readdir", "read"}
Replies == [proc : Procs, ok : BOOLEAN, via : Handles, fh : Handles,
            file : FileIds, offset : Nat, pos : Nat]

(* Inode numbers of at most VSNFS_FHSIZE - 1 digits. *)
InosFit == \A i \in Ino : FhData(i) = i

(* Local users only add files, and what clients mount are directories. *)
OnlyAdds ==
    /\ EnvOps \subseteq {"create", "mkdir", "mknod", "link", "reload"}
    /\ \A p \in MountPath :
          InitIno[p] # NoIno /\ InitKind[InitIno[p]] = "dir"

(* Every variable has its type; the handles of the current mount are among   *)
(* those sent.                                                               *)
TypeOK ==
    /\ ino_at \in [Path -> Ino \cup {NoIno}]
    /\ kind \in [Ino -> Kind]
    /\ gen \in [Ino -> 0..MaxGen]
    /\ lp_init \in BOOLEAN
    /\ lp_tab \subseteq Nodes
    /\ daemon \in {"up", "oops"}
    /\ lost_refs \in BOOLEAN
    /\ issued \subseteq Handles
    /\ live \subseteq issued
    /\ reply \in Replies

(* No inode number has two nodes: vsnfsd_proc_lookup searches the table a    *)
(* second time before it adds one.  Which node vsnfsd_fh_to_path stops at is *)
(* therefore never in doubt, whatever the order of the list.                 *)
KeysUnique ==
    \A m, n \in lp_tab : m.ino = n.ino => m = n

(* Every handle sent since the last GETROOT that emptied the table has a     *)
(* node: no error path of vsnfsd_proc_lookup sends a handle it did not       *)
(* record, and nothing but GETROOT takes a node away.                        *)
LiveHandlesKnown ==
    \A h \in live : h.data # 0 => InTable(h.data)

(* Every node holds the path of its inode, with a "/" at its end if it is a  *)
(* directory: what vsnfsd_fh_to_path gives leads to the inode asked for.     *)
TableSound ==
    \A node \in lp_tab :
        /\ InoAt(node.path) = node.ino
        /\ node.slash <=> kind[node.ino] = "dir"

(* A procedure that succeeds worked on the file its handle was made for: the *)
(* directory LOOKUP searched, READDIR listed, or the file READ read.         *)
HandleNamesItsFile ==
    reply.ok /\ reply.via # NullFh /\ reply.file # NoFile =>
        reply.file = reply.via.file

(* The server's state as HandleService sees it. *)
Granted == {[data |-> h.data, file |-> h.file] : h \in issued \ {NullFh}}
Known   == {node.ino : node \in lp_tab}
Answered ==
    IF reply.proc = "none" THEN [what |-> "none"]
    ELSE IF ~reply.ok THEN [what |-> "refused"]
    ELSE IF reply.proc = "lookup" /\ reply.fh = NullFh THEN [what |-> "empty"]
    ELSE [what |-> "done", file |-> reply.file]

Promise == INSTANCE HandleService WITH
               Data <- Ino, File <- [ino : Ino, gen : 0..MaxGen],
               granted <- Granted, known <- Known, answer <- Answered

(* While local users only add files the procedures keep the promise of       *)
(* HandleService: a handle means one file for ever, a call through a handle  *)
(* with a node works on that file, and the table loses nodes only to         *)
(* GETROOT and a reload.                                                     *)
KeepsPromise == Promise!Spec

(* A LOOKUP in a directory whose handle the table does not hold fails.       *)
UnknownHandleRefused ==
    reply.proc = "lookup" /\ reply.ok => reply.fh # NullFh

(* The thread of the service never runs into a bad pointer. *)
DaemonUp == daemon = "up"
===============================================================================
