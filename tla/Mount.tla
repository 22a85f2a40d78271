-------------------------------- MODULE Mount ---------------------------------
(***************************************************************************)
(* Mounting and unmounting vsnfs on the client, and the client's module     *)
(* (src/vsnfsClient.c, vsnfsMount.c, module.c), around the inodes and       *)
(* dentries of Client.                                                      *)
(*                                                                         *)
(* vsnfs_get_sb runs through its calls in the order of the source, one step *)
(* per call that can fail or sleep.  An error return leaves what was        *)
(* allocated before it unless the source frees it.                          *)
(***************************************************************************)
EXTENDS Client

CONSTANTS
    Device,        \* the device strings "address:path" mount is given
    Options,       \* the option strings, as sequences of tokens
    VSNFS_PORT,    \* the default port
    VSNFS_MAXNAMLEN, VSNFS_MAXPATHLEN,
    RmmodMounted   \* may the module be removed while it is in use?

ASSUME MountAssumption ==
    /\ Device \subseteq [colon : BOOLEAN, address : BOOLEAN,
                         addrlen : Nat, pathlen : Nat]
    /\ \A o \in Options : \A k \in DOMAIN o :
          o[k] \in [opt : {"port", "timeout", "err"}, val : Nat]
    /\ {VSNFS_PORT, VSNFS_MAXNAMLEN, VSNFS_MAXPATHLEN} \subseteq Nat
    /\ VSNFS_PORT < 65536
    /\ RmmodMounted \in BOOLEAN

VARIABLES
    module,    \* is the module loaded?
    mnt,       \* where the mount is: the next call of vsnfs_get_sb, or done
    server,    \* the vsnfs_server of the mount: "none", "live" or "freed"
    sb,        \* is there a superblock?
    conn,      \* the port and address the mount was given
    busy       \* history: the types of the inodes an unmount left behind

mvars == <<module, mnt, server, sb, conn, busy>>
vars  == <<cvars, mvars>>

-------------------------------------------------------------------------------
(* Mount options *)

NoConn == [port |-> 0, addr |-> "none"]

(* Where the host part, copied to ip_addr[16], reaches the pointer mnt_path  *)
(* and the end of the vsnfs_server, in a 64-bit build.                       *)
MntPathAt == 24
ServerEnd == 48

(* The outcomes of splitting "address:path".  A host part of any length up   *)
(* to VSNFS_MAXNAMLEN is copied: one that leaves the vsnfs_server overwrites  *)
(* somebody else's memory, which may be fatal at once or go unnoticed.       *)
vsnfs_parse_mntpath(dev) ==
    CASE ~dev.colon                      -> {"INVAL"}
      [] dev.addrlen > VSNFS_MAXNAMLEN   -> {"NAMETOOLONG"}
      [] OTHER ->
            {e \in {"oops"} : dev.addrlen >= ServerEnd} \cup
            (IF dev.pathlen > VSNFS_MAXPATHLEN
               THEN {"NAMETOOLONG"}
               ELSE {"ok"} \cup {e \in {"ENOMEM"} : KmallocFails})

(* sin_port after the option loop, one token at a time: htons keeps 16 bits. *)
OptionPort(opts) ==
    LET port[k \in 0..Len(opts)] ==
            IF k = 0 THEN VSNFS_PORT
            ELSE IF opts[k].opt = "port" THEN opts[k].val % 65536
            ELSE port[k - 1]
    IN  port[Len(opts)]

(* vsnfs_inet_pton answers 0 for text that is no address.  Only a negative   *)
(* answer is taken for an error, so the address stays the zeroed one.  The   *)
(* text of a long host part was changed when mnt_path was set.               *)
vsnfs_inet_pton(dev) ==
    IF dev.addrlen >= MntPathAt THEN {"zero", "other"}
    ELSE IF dev.address THEN {"given"} ELSE {"zero"}

-------------------------------------------------------------------------------
(* vsnfs_get_sb *)

(* mount returns an error.  The vsnfs_server, its path and its RPC client    *)
(* stay allocated, with no pointer left to them.                             *)
Return(m) ==
    /\ mnt' = m
    /\ server' = "none"
    /\ UNCHANGED <<module, sb, conn, busy, cvars>>

(* A bad pointer is dereferenced; the superblock, if any, stays locked. *)
MountOops ==
    /\ mnt' = "oops"
    /\ UNCHANGED <<module, server, sb, conn, busy, cvars>>

(* kzalloc.  IS_ERR does not tell NULL, which vsnfs_init_server writes to.   *)
vsnfs_get_sb ==
    /\ module = "in"
    /\ mnt = "idle"
    /\ \/ KmallocFails /\ MountOops
       \/ /\ server' = "live"
          /\ mnt' = "init"
          /\ UNCHANGED <<module, sb, conn, busy, cvars>>

(* vsnfs_init_server, which parses the device string and the options. *)
vsnfs_init_server(dev, opts) ==
    /\ mnt = "init"
    /\ \E rc \in vsnfs_parse_mntpath(dev) :
          \/ rc = "oops" /\ MountOops
          \/ rc \notin {"ok", "oops"} /\ Return("idle")
          \/ /\ rc = "ok"
             /\ \E addr \in vsnfs_inet_pton(dev) :
                   conn' = [port |-> OptionPort(opts), addr |-> addr]
             /\ mnt' = "rpc"
             /\ UNCHANGED <<module, server, sb, busy, cvars>>

(* vsnfs_create_rpcclient: rpc_create or kmalloc fails, GETROOT fails, or    *)
(* its answer, a directory, is copied to root_fh.                            *)
vsnfs_create_rpcclient ==
    /\ mnt = "rpc"
    /\ conn' = NoConn
    /\ \/ mnt' = "idle" /\ server' = "none"
       \/ mnt' = "sget" /\ UNCHANGED server
    /\ UNCHANGED <<module, sb, busy, cvars>>

(* sget always makes a new superblock, whose s_fs_info is the server. *)
Sget ==
    /\ mnt = "sget"
    /\ \/ /\ KmallocFails
          /\ mnt' = "idle"
          /\ server' = "freed"
          /\ UNCHANGED sb
       \/ /\ mnt' = "root"
          /\ sb' = TRUE
          /\ UNCHANGED server
    /\ UNCHANGED <<module, conn, busy, cvars>>

RootFh == Handle(RootIno, VSNFS_DIR)

(* Mutant: s_root and mnt_root share one reference. *)
DummyRootShared(inodes) == inodes

(* vsnfs_superblock_set_dummy_root: s_root takes the reference of the inode  *)
(* and one more is made, for the dentry of the mount.                        *)
vsnfs_superblock_set_dummy_root(inodes) ==
    [inodes EXCEPT ![RootIno].count = @ + 1]

(* vsnfs_get_root.  When iget_locked, d_alloc_root or d_obtain_alias has no  *)
(* memory, err_no_root gives the error pointer to dput.                      *)
vsnfs_get_root ==
    /\ mnt = "root"
    /\ \/ KmallocFails /\ MountOops
       \/ /\ inode' = vsnfs_superblock_set_dummy_root(vsnfs_fhget(RootFh, "server"))
          /\ mnt' = "mounted"
          /\ UNCHANGED <<srv_type, dcache, pc, at, want, result>>
          /\ UNCHANGED <<module, server, sb, conn, busy>>

-------------------------------------------------------------------------------
(* Unmounting *)

(* The inodes after the dentries of the mount and of the superblock are put. *)
RootsPut == [inode EXCEPT ![RootIno].count = @ - 2]

(* Mutant: the server is freed before the superblock is shut down. *)
KillSbServerFirst ==
    /\ mnt = "mounted"
    /\ Inside = {}
    /\ mnt' = "killed"
    /\ server' = "freed"
    /\ UNCHANGED <<module, sb, conn, busy, cvars>>

(* vsnfs_kill_sb, called when no process is inside the mount: kill_anon_super *)
(* evicts every inode without references and lets the others be.             *)
vsnfs_kill_sb ==
    /\ mnt = "mounted"
    /\ Inside = {}
    /\ mnt' = "killed"
    /\ sb' = FALSE
    /\ busy' = busy \cup {RootsPut[i].type : i \in
                  {j \in CachedIno : Cached(j) /\ RootsPut[j].count # 0}}
    /\ inode' = [i \in CachedIno |-> NoInode]
    /\ UNCHANGED <<srv_type, dcache, pc, at, want, result>>
    /\ UNCHANGED <<module, server, conn>>

(* ... and then frees the server. *)
KillSbFrees ==
    /\ mnt = "killed"
    /\ mnt' = "idle"
    /\ server' = "freed"
    /\ UNCHANGED <<module, sb, conn, busy, cvars>>

-------------------------------------------------------------------------------
(* The module.  vsnfs_type has no owner, so a mount does not hold it. *)

VSNFSClientInit ==
    /\ module = "out"
    /\ module' = "in"
    /\ UNCHANGED <<mnt, server, sb, conn, busy, cvars>>

VSNFSClientCleanup ==
    /\ module = "in"
    /\ RmmodMounted \/ mnt = "idle"
    /\ module' = "out"
    /\ UNCHANGED <<mnt, server, sb, conn, busy, cvars>>

-------------------------------------------------------------------------------
Init ==
    /\ srv_type = InitType
    /\ inode = [i \in CachedIno |-> NoInode]
    /\ dcache = [d \in {} |-> 0]
    /\ pc = [p \in Process |-> "out"]
    /\ at = [p \in Process |-> <<>>]
    /\ want = [p \in Process |-> NoWant]
    /\ result = [p \in Process |-> "none"]
    /\ module = "out"
    /\ mnt = "idle"
    /\ server = "none"
    /\ sb = FALSE
    /\ conn = NoConn
    /\ busy = {}

Mounting ==
    \/ vsnfs_get_sb
    \/ \E dev \in Device, opts \in Options : vsnfs_init_server(dev, opts)
    \/ vsnfs_create_rpcclient
    \/ Sget
    \/ vsnfs_get_root
    \/ vsnfs_kill_sb
    \/ KillSbFrees

(* The processes use the mount while there is one. *)
Using ==
    /\ mnt = "mounted"
    /\ \/ \E p \in Process : Enter(p) \/ Leave(p)
       \/ \E p, q \in Process : Fork(p, q)
       \/ \E p \in Process, n \in Name : vsnfs_lookup_revalidate(p, n)
       \/ \E p \in Process, n \in Name : vsnfs_lookup(p, n)
       \/ \E p \in Process : LookupFails(p)
       \/ \E p \in Process : LookupReturns(p)
       \/ \E i \in CachedIno : vsnfs_clear_inode(i)
    /\ UNCHANGED mvars

Serving == (\E i \in Ino, t \in Type : ServerReuses(i, t)) /\ UNCHANGED mvars

Next == Mounting \/ Using \/ Serving \/ VSNFSClientInit \/ VSNFSClientCleanup

Spec == Init /\ [][Next]_vars

-------------------------------------------------------------------------------
(* Properties *)

Inodes == [count : Int, type : Type, fh : [ino : CachedIno, type : Type],
           mem : {"absent", "null", "server", "heap"}]

Wants == [busy : BOOLEAN, name : Name, newfh : BOOLEAN,
          sent : [ino : CachedIno, type : Type]]

(* Every variable has its type, the dentries form a tree, and only a process *)
(* in vsnfs_lookup, or one that died there, has a lookup.                    *)
TypeOK ==
    /\ srv_type \in [Ino -> Type]
    /\ inode \in [CachedIno -> Inodes]
    /\ \A d \in DOMAIN dcache :
          /\ dcache[d] \in CachedIno \cup {Freed}
          /\ d \in Seq(Name) \ {<<>>}
          /\ Len(d) > 1 => SubSeq(d, 1, Len(d) - 1) \in DOMAIN dcache
    /\ pc \in [Process -> {"out", "in", "lookup", "oops"}]
    /\ \A p \in Process : at[p] # <<>> => at[p] \in DOMAIN dcache
    /\ want \in [Process -> Wants]
    /\ \A p \in Process :
          /\ pc[p] = "lookup" => want[p].busy
          /\ want[p].busy => pc[p] \in {"lookup", "oops"}
    /\ module \in {"in", "out"}
    /\ mnt \in {"idle", "init", "rpc", "sget", "root", "mounted", "killed", "oops"}
    /\ server \in {"none", "live", "freed"}
    /\ sb \in BOOLEAN
    /\ busy \subseteq Type

(* The references to inode number i: its dentries, and for the root the      *)
(* dentries of the superblock and of the mount.                              *)
Refs(i) ==
    Cardinality({d \in DOMAIN dcache : dcache[d] = i})
    + (IF i = RootIno /\ mnt = "mounted" THEN 2 ELSE 0)

(* i_count of every file and directory is the number of its dentries, so     *)
(* that vsnfs_clear_inode is never called for an inode that a dentry still   *)
(* leads to.  It is not so for an inode of neither type, which vsnfs_fhget   *)
(* returns after giving its reference back.                                  *)
RefsBalanced ==
    \A i \in CachedIno : inode[i].type # 0 => inode[i].count = Refs(i)

(* The memory i_private points to outlives the inode: the root's handle lies *)
(* in the vsnfs_server, which vsnfs_kill_sb frees only after the superblock  *)
(* and its inodes.                                                           *)
HandlesAlive ==
    \A i \in CachedIno : inode[i].mem = "server" => server = "live"

(* While vsnfs_lookup waits for the server its directory stays what it was:  *)
(* its inode is cached, is a directory, and has the handle that was sent,    *)
(* whatever the other processes, memory pressure and the server do.  Neither *)
(* BUG_ON of vsnfs_do_lookup can therefore be hit, and the server is only    *)
(* asked to look up in what it called a directory.                           *)
LookupDirStays ==
    \A p \in Process : want[p].busy =>
        /\ sb
        /\ IsDir(at[p])
        /\ inode[InoAt(at[p])].mem \in {"server", "heap"}
        /\ inode[InoAt(at[p])].fh = want[p].sent
        /\ want[p].sent.type = VSNFS_DIR

(* An inode keeps its type and its handle for as long as it is cached, also  *)
(* when the server sends its number again with another type: the directory   *)
(* a process works in never turns into a file under it.                      *)
InodeStable ==
    [][\A i \in CachedIno :
          Cached(i) /\ Cached(i)' =>
              [inode[i] EXCEPT !.count = 0] = [inode'[i] EXCEPT !.count = 0]]_vars

(* Unmounting leaves no file or directory behind: nothing but an inode of    *)
(* neither type still has references when kill_anon_super looks.             *)
NothingBusy == busy \subseteq {0}

(* No directory has two dentries, also when it is renamed on the server      *)
(* between two lookups: there is one way up from it and one lock for it.     *)
DirsUnaliased ==
    \A d, e \in DOMAIN dcache :
        IsDir(d) /\ dcache[d] = dcache[e] => d = e

(* Walking to a name fails only when the server or the memory does: no walk  *)
(* is refused because another process is using the same name.                *)
WalkSucceeds == \A p \in Process : result[p] # "EOPNOTSUPP"
===============================================================================
