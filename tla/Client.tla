-------------------------------- MODULE Client --------------------------------
(***************************************************************************)
(* The inodes, dentries and file handles of a mounted vsnfs on the client   *)
(* (vsnfs_fhget in src/vsnfsClient.c; vsnfs_lookup, vsnfs_do_lookup and the  *)
(* dentry operations in src/vsnfsDir.c).  Mount adds mounting and           *)
(* unmounting and holds the specification.                                  *)
(*                                                                         *)
(* vsnfs_lookup sleeps in an RPC, so it is two steps, between which other   *)
(* processes look up, leave and fork, memory pressure evicts unused inodes, *)
(* and files are renamed on the server and their inode numbers reused.  The *)
(* VFS around it (dput, iput, the directory's i_mutex, prune_icache,        *)
(* d_materialise_unique) is that of Linux 2.6.31.                           *)
(***************************************************************************)
EXTENDS Integers, Sequences, FiniteSets, TLC

CONSTANTS
    Process,       \* processes of the client
    Name,          \* names of files
    LongName,      \* those longer than VSNFS_MAXNAMLEN
    Ino,           \* inode numbers of the server
    RootIno,       \* the one of the mounted directory
    InitType,      \* the type the server gives each inode number at first
    Reusable,      \* the inode numbers that may come to mean another file
    KmallocFails   \* may an allocation fail?

(* src/vsnfs.h; 0 is what the server sends for any other type of file. *)
VSNFS_REG == 1
VSNFS_DIR == 2
Type == {0, VSNFS_REG, VSNFS_DIR}

ASSUME ClientAssumption ==
    /\ Ino \subseteq Nat \ {0}
    /\ RootIno \in Ino
    /\ LongName \subseteq Name
    /\ InitType \in [Ino -> Type]
    /\ InitType[RootIno] = VSNFS_DIR
    /\ Reusable \subseteq Ino \ {RootIno}
    /\ IsFiniteSet(Process)
    /\ KmallocFails \in BOOLEAN

VARIABLES
    srv_type,  \* the server: the type of file an inode number means
    inode,     \* the inode cache of the superblock
    dcache,    \* the dentries: path from the mount root -> inode number
    pc,        \* where a process is: outside, inside, in vsnfs_lookup, dead
    at,        \* the dentry it holds, as a path; <<>> is the mount root
    want,      \* the lookup it waits for
    result     \* what its last walk returned

cvars == <<srv_type, inode, dcache, pc, at, want, result>>

-------------------------------------------------------------------------------
(* Handles and inodes *)

Handle(i, t) == [ino |-> i, type |-> t]

(* What LOOKUP answers for a handle the server has forgotten. *)
NullFh == Handle(0, 0)

CachedIno == Ino \cup {0}

(* No inode for this number is in the cache. *)
NoInode == [count |-> 0, type |-> 0, fh |-> NullFh, mem |-> "absent"]

(* i_private points to root_fh in the vsnfs_server or to memory that         *)
(* vsnfs_lookup allocated; it is NULL in an inode of neither type.           *)
Inode(c, h, m) == [count |-> c, type |-> h.type, fh |-> h, mem |-> m]
BadInode(c)    == [count |-> c, type |-> 0, fh |-> NullFh, mem |-> "null"]

Cached(i) == inode[i].mem # "absent"

(* iget_locked takes a reference to an inode it finds in the cache. *)
Taken(r) == [r EXCEPT !.count = @ + 1]

(* A dentry whose inode was freed under it. *)
Freed == 0 - 1

(* Mutants: a found inode is filled in again; the type is tested before      *)
(* I_NEW, so that a found inode is given back as well.                       *)
FhgetRefills(h, m) ==
    IF h.type \in {VSNFS_REG, VSNFS_DIR}
      THEN [inode EXCEPT ![h.ino] = Inode(@.count + 1, h, m)]
      ELSE [inode EXCEPT ![h.ino] = IF Cached(h.ino) THEN Taken(@)
                                                     ELSE BadInode(0)]

FhgetTypeFirst(h, m) ==
    [inode EXCEPT ![h.ino] =
        CASE h.type = 0 /\ Cached(h.ino)   -> @
          [] h.type = 0 /\ ~Cached(h.ino)  -> BadInode(0)
          [] h.type # 0 /\ Cached(h.ino)   -> Taken(@)
          [] OTHER                         -> Inode(1, h, m)]

(* The inode cache after vsnfs_fhget(sb, h): iget_locked takes a reference,  *)
(* and a new inode gets the operations of its type and keeps the pointer to  *)
(* the handle.  A new inode of neither type is given back with iput, which   *)
(* leaves it cached and unused, and returned all the same.                   *)
vsnfs_fhget(h, m) ==
    [inode EXCEPT ![h.ino] =
        IF Cached(h.ino)
          THEN Taken(@)
          ELSE IF h.type \in {VSNFS_REG, VSNFS_DIR}
                 THEN Inode(1, h, m)
                 ELSE BadInode(0)]

-------------------------------------------------------------------------------
(* Dentries *)

InoAt(path) == IF path = <<>> THEN RootIno ELSE dcache[path]

IsDir(path) == InoAt(path) # Freed /\ inode[InoAt(path)].type = VSNFS_DIR

(* Path d is path a or leads through it. *)
Below(a, d) == Len(a) <= Len(d) /\ \A k \in 1..Len(a) : d[k] = a[k]

(* Mutant: a dentry is killed although it has children. *)
KeptLeaves(who, where) == {path \in DOMAIN dcache : \E p \in who : path = where[p]}

(* The dentries that still have a user when the processes of who stand at    *)
(* where: a dentry holds its parent.  vsnfs_dentry_delete tells dput to      *)
(* kill every other one.                                                     *)
Kept(who, where) ==
    {path \in DOMAIN dcache : \E p \in who : Below(path, where[p])}

(* Mutant: vsnfs_dentry_iput puts the inode, and so does its caller. *)
IputTwice(dead) ==
    [i \in CachedIno |->
        [inode[i] EXCEPT !.count = @ - 2 * Cardinality({d \in dead : dcache[d] = i})]]

(* vsnfs_dentry_iput for each dentry of the set dead: one iput, which leaves *)
(* an inode without references in the cache.                                 *)
vsnfs_dentry_iput(dead) ==
    [i \in CachedIno |->
        [inode[i] EXCEPT !.count = @ - Cardinality({d \in dead : dcache[d] = i})]]

(* The directory a path is in. *)
Front(path) == SubSeq(path, 1, Len(path) - 1)

(* What path d becomes when the dentry from is moved to to. *)
Moved(d, from, to) ==
    IF Below(from, d) THEN to \o SubSeq(d, Len(from) + 1, Len(d)) ELSE d

(* Another process is in vsnfs_lookup, or died there, in the same directory: *)
(* the VFS holds the directory's i_mutex.                                    *)
Locked(path) ==
    \E p \in Process : want[p].busy /\ at[p] = path

-------------------------------------------------------------------------------
(* Steps of a process *)

NoWant == [busy |-> FALSE, name |-> CHOOSE n \in Name : TRUE, newfh |-> FALSE,
           sent |-> NullFh]

Inside == {p \in Process : pc[p] # "out"}

(* The walk of process p ends with r, where it started. *)
WalkEnds(p, r) == result' = [result EXCEPT ![p] = r]

(* p is at the mount root, for which d_revalidate is not called. *)
Enter(p) ==
    /\ pc[p] = "out"
    /\ pc' = [pc EXCEPT ![p] = "in"]
    /\ at' = [at EXCEPT ![p] = <<>>]
    /\ WalkEnds(p, "ok")
    /\ UNCHANGED <<srv_type, inode, dcache, want>>

(* p forks q, which inherits the working directory. *)
Fork(p, q) ==
    /\ pc[p] = "in"
    /\ IsDir(at[p])
    /\ pc[q] = "out"
    /\ pc' = [pc EXCEPT ![q] = "in"]
    /\ at' = [at EXCEPT ![q] = at[p]]
    /\ WalkEnds(q, "ok")
    /\ UNCHANGED <<srv_type, inode, dcache, want>>

(* p gives up the dentry it holds: dput, up to the first one in use.  The    *)
(* iput of an inode that was freed is a bad memory access.                   *)
Leave(p) ==
    LET kept == Kept(Inside \ {p}, at)
        dead == DOMAIN dcache \ kept
    IN  /\ pc[p] = "in"
        /\ \/ /\ \E d \in dead : dcache[d] = Freed
              /\ pc' = [pc EXCEPT ![p] = "oops"]
              /\ UNCHANGED <<inode, dcache, at, result>>
           \/ /\ \A d \in dead : dcache[d] # Freed
              /\ pc' = [pc EXCEPT ![p] = "out"]
              /\ at' = [at EXCEPT ![p] = <<>>]
              /\ inode' = vsnfs_dentry_iput(dead)
              /\ dcache' = [d \in kept |-> dcache[d]]
              /\ WalkEnds(p, "none")
        /\ UNCHANGED <<srv_type, want>>

(* The dentry is cached: the VFS calls d_revalidate, and its negative result *)
(* is what the walk returns.                                                 *)
vsnfs_lookup_revalidate(p, n) ==
    /\ pc[p] = "in"
    /\ IsDir(at[p])
    /\ Append(at[p], n) \in DOMAIN dcache
    /\ WalkEnds(p, "EOPNOTSUPP")
    /\ UNCHANGED <<srv_type, inode, dcache, pc, at, want>>

(* vsnfs_lookup up to the RPC: the name is not cached and the directory is   *)
(* locked.  The result of the first kmalloc is not tested.  vsnfs_do_lookup  *)
(* copies the directory's handle into the arguments.                         *)
vsnfs_lookup(p, n) ==
    /\ pc[p] = "in"
    /\ IsDir(at[p])
    /\ Append(at[p], n) \notin DOMAIN dcache
    /\ ~Locked(at[p])
    /\ \/ /\ n \in LongName
          /\ WalkEnds(p, "ENAMETOOLONG")
          /\ UNCHANGED <<pc, want>>
       \/ /\ n \notin LongName
          /\ KmallocFails               \* no memory for argp
          /\ WalkEnds(p, "ENOMEM")
          /\ UNCHANGED <<pc, want>>
       \/ /\ n \notin LongName
          /\ \E newfh \in {TRUE, ~KmallocFails} :
                want' = [want EXCEPT ![p] =
                    [busy |-> TRUE, name |-> n, newfh |-> newfh,
                     sent |-> inode[InoAt(at[p])].fh]]
          /\ pc' = [pc EXCEPT ![p] = "lookup"]
          /\ result' = [result EXCEPT ![p] = "none"]
    /\ UNCHANGED <<srv_type, inode, dcache, at>>

(* The handles the server may send.  It walks a path whose directories other *)
(* users of the server rename, so a name may lead to any file but the        *)
(* mounted directory, and to different ones at different times.              *)
Answers == {NullFh} \cup {Handle(i, srv_type[i]) : i \in Ino \ {RootIno}}

(* vsnfs_lookup after the RPC: an error, whichever it is, is returned as     *)
(* -VSNFSERR_REMOTE, also when vsnfs_umount_begin has killed the call; a     *)
(* handle is decoded into newfh, gets its inode, and d_materialise_unique    *)
(* hashes the dentry.                                                        *)
LookupFails(p) ==
    /\ pc[p] = "lookup"
    /\ pc' = [pc EXCEPT ![p] = "in"]
    /\ want' = [want EXCEPT ![p] = NoWant]
    /\ WalkEnds(p, "REMOTE")
    /\ UNCHANGED <<srv_type, inode, dcache, at>>

(* Mutant: d_add, which does not look for aliases. *)
NoAliases(h) == {}

(* The dentries of the inode of handle h, if that is a directory. *)
Aliases(h) ==
    {d \in DOMAIN dcache :
        Cached(h.ino) /\ inode[h.ino].type = VSNFS_DIR /\ dcache[d] = h.ino}

(* The dentry p looked up is hashed, with the inode of h. *)
Instantiate(p, h, path) ==
    /\ inode' = vsnfs_fhget(h, "heap")
    /\ dcache' = [d \in DOMAIN dcache \cup {path} |->
                      IF d = path THEN h.ino ELSE dcache[d]]
    /\ at' = [at EXCEPT ![p] = path]
    /\ WalkEnds(p, "ok")

(* d_move takes the alias from, with all below it, to the place looked up,   *)
(* and p goes on there.  The dentry p looked up takes the alias's old place  *)
(* until it is put: with it die the directories on the way that nobody else  *)
(* uses.  The reference vsnfs_fhget took to the inode is put.                *)
Unalias(p, from, to) ==
    LET where == [q \in Process |-> IF q = p THEN to ELSE Moved(at[q], from, to)]
        kept  == {d \in DOMAIN dcache :
                     \E q \in Inside : Below(Moved(d, from, to), where[q])}
    IN  /\ inode' = vsnfs_dentry_iput(DOMAIN dcache \ kept)
        /\ dcache' = [d \in {Moved(k, from, to) : k \in kept} |->
                          dcache[Moved(d, to, from)]]
        /\ at' = where
        /\ WalkEnds(p, "ok")

(* d_materialise_unique(path, inode of h).  An alias that lies on the path   *)
(* cannot be moved there, and one whose parent's i_mutex is held, by a       *)
(* lookup or a listing, is not moved; vsnfs_lookup returns these errors.     *)
d_materialise_unique(p, h, path) ==
    \/ Aliases(h) = {} /\ Instantiate(p, h, path)
    \/ \E alias \in Aliases(h) :
          LET parent == Front(alias) IN
          \/ /\ parent = at[p] \/ (~Below(alias, path) /\ ~Locked(parent))
             /\ Unalias(p, alias, path)
          \/ /\ parent # at[p]
             /\ WalkEnds(p, IF Below(alias, path) THEN "ELOOP" ELSE "EBUSY")
             /\ UNCHANGED <<inode, dcache, at>>

LookupReturns(p) ==
    \E h \in Answers :
        /\ pc[p] = "lookup"
        /\ \/ /\ ~want[p].newfh          \* decoded to a NULL pointer
              /\ pc' = [pc EXCEPT ![p] = "oops"]
              /\ UNCHANGED <<inode, dcache, at, want, result>>
           \/ /\ want[p].newfh
              /\ \/ /\ KmallocFails      \* iget_locked has no memory
                    /\ ~Cached(h.ino)
                    /\ WalkEnds(p, "EINVAL")
                    /\ UNCHANGED <<inode, dcache, at>>
                 \/ d_materialise_unique(p, h, Append(at[p], want[p].name))
              /\ pc' = [pc EXCEPT ![p] = "in"]
              /\ want' = [want EXCEPT ![p] = NoWant]
        /\ UNCHANGED srv_type

-------------------------------------------------------------------------------
(* The environment *)

(* Memory pressure: prune_icache frees an inode nobody refers to.            *)
(* vsnfs_clear_inode does nothing, so the handle is not freed.               *)
vsnfs_clear_inode(i) ==
    /\ Cached(i)
    /\ inode[i].count = 0
    /\ inode' = [inode EXCEPT ![i] = NoInode]
    /\ dcache' = [d \in DOMAIN dcache |-> IF dcache[d] = i THEN Freed ELSE dcache[d]]
    /\ UNCHANGED <<srv_type, pc, at, want, result>>

(* The server's file is removed and its inode number given to another. *)
ServerReuses(i, t) ==
    /\ i \in Reusable
    /\ srv_type[i] # t
    /\ srv_type' = [srv_type EXCEPT ![i] = t]
    /\ UNCHANGED <<inode, dcache, pc, at, want, result>>
===============================================================================
