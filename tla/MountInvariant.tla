---------------------------- MODULE MountInvariant ----------------------------
(*****************************************************************************)
(* The inductive invariant of Mount: the initial states satisfy it, and so   *)
(* does every step of the mount and of a process that comes in.  It is stated *)
(* for any number of processes, any answers of the server and any mount      *)
(* options.                                                                  *)
(*****************************************************************************)
EXTENDS Mount, PathProofs, FiniteSetTheorems

(* Most steps need no arithmetic; the ones that do name SMT. *)
USE ZenonT(40)

-------------------------------------------------------------------------------
(* The inductive invariant *)

Wanted == [busy : BOOLEAN, name : Name \cup {NoWant.name}, newfh : BOOLEAN,
           sent : [ino : CachedIno, type : Type]]

(* The types of what the argument is about. *)
TypeInv ==
    /\ srv_type \in [Ino -> Type]
    /\ inode \in [CachedIno -> Inodes]
    /\ IsFiniteSet(DOMAIN dcache)
    /\ \A d \in DOMAIN dcache :
          d \in Seq(Name) \ {<<>>} /\ dcache[d] \in (CachedIno \cup {Freed}) \ {RootIno}
    /\ pc \in [Process -> {"out", "in", "lookup", "oops"}]
    /\ at \in [Process -> Seq(Name)]
    /\ want \in [Process -> Wanted]

(* Before the mount succeeds and after vsnfs_kill_sb nobody is inside and    *)
(* no inode is cached; the server structure is there while it is used.       *)
MountInv ==
    /\ mnt = "mounted" => inode[RootIno].mem = "server"
    /\ mnt \in {"root", "mounted"} => sb
    /\ mnt # "mounted" => Inside = {} /\ inode = [i \in CachedIno |-> NoInode]
    /\ mnt \in {"init", "rpc", "sget", "root", "mounted"} => server = "live"
    /\ busy \subseteq {0}

(* All the way to a process inside there are dentries, and every dentry is   *)
(* on the way to a process.  Two lookups are never in the same directory,    *)
(* and the name being looked up has no dentry.                               *)
WalkInv ==
    /\ \A p \in Inside, d \in Seq(Name) \ {<<>>} :
          Below(d, at[p]) => d \in DOMAIN dcache
    /\ \A d \in DOMAIN dcache : \E p \in Inside : Below(d, at[p])
    /\ \A p \in Process :
          /\ pc[p] = "lookup" => want[p].busy
          /\ want[p].busy => /\ pc[p] \in {"lookup", "oops"}
                             /\ want[p].name \in Name
                             /\ Append(at[p], want[p].name) \notin DOMAIN dcache
    /\ \A p, q \in Process :
          want[p].busy /\ want[q].busy /\ at[p] = at[q] => p = q

(* An inode that is not cached is nobody's; a cached one has the type of its *)
(* handle, and memory for the handle if that is a file or a directory.       *)
InodeOK(i) ==
    /\ ~Cached(i) => inode[i].type = 0 /\ \A d \in DOMAIN dcache : dcache[d] # i
    /\ inode[i].type = inode[i].fh.type
    /\ inode[i].type # 0 <=> inode[i].mem \in {"server", "heap"}
    /\ inode[i].mem = "server" => i = RootIno /\ inode[i].type = VSNFS_DIR

InodeInv == \A i \in CachedIno : InodeOK(i)

IInv ==
    /\ TypeInv
    /\ MountInv
    /\ WalkInv
    /\ InodeInv
    /\ RefsBalanced
    /\ LookupDirStays
    /\ DirsUnaliased

-------------------------------------------------------------------------------
(* Facts about the constants, sequences and dentries *)

(* NullFh's number 0 is not the root's, and Freed is no number of an inode. *)
LEMMA Constants ==
    /\ RootIno \in CachedIno
    /\ CachedIno \subseteq Nat
    /\ 0 \in CachedIno
    /\ 0 # RootIno
    /\ Freed \notin CachedIno
    /\ Ino \subseteq CachedIno
BY ClientAssumption, SMT DEF CachedIno, Freed

Dentries(i) == {d \in DOMAIN dcache : dcache[d] = i}

(* An inode has finitely many dentries. *)
LEMMA DentriesFinite ==
    ASSUME TypeInv, NEW i
    PROVE  IsFiniteSet(Dentries(i)) /\ Cardinality(Dentries(i)) \in Nat
<1>1. Dentries(i) \in SUBSET DOMAIN dcache
    BY DEF Dentries
<1>2. IsFiniteSet(Dentries(i))
    BY <1>1, FS_Subset DEF TypeInv
<1>. QED  BY <1>2, FS_CardinalityType

(* A place where a process can be, and its inode. *)
LEMMA InoAtType ==
    ASSUME TypeInv, WalkInv, NEW p \in Inside
    PROVE  /\ at[p] \in Seq(Name)
           /\ at[p] # <<>> => at[p] \in DOMAIN dcache
           /\ InoAt(at[p]) \in CachedIno \cup {Freed}
<1>1. at[p] \in Seq(Name)
    BY DEF TypeInv, Inside
<1>2. Below(at[p], at[p])
    BY <1>1, BelowOrder
<1>3. at[p] # <<>> => at[p] \in DOMAIN dcache
    BY <1>1, <1>2 DEF WalkInv
<1>. QED  BY <1>1, <1>3, Constants DEF TypeInv, InoAt

(* An inode that some dentry of a file or directory leads to is in use. *)
LEMMA InUse ==
    ASSUME TypeInv, RefsBalanced, mnt = "mounted", NEW i \in CachedIno,
           inode[i].type # 0, inode[i].count = 0
    PROVE  i # RootIno /\ \A d \in DOMAIN dcache : dcache[d] # i
<1>1. Cardinality(Dentries(i)) \in Nat /\ IsFiniteSet(Dentries(i))
    BY DentriesFinite
<1>2. inode[i].count = Cardinality(Dentries(i)) + (IF i = RootIno THEN 2 ELSE 0)
    BY DEF RefsBalanced, Refs, Dentries
<1>3. i # RootIno /\ Cardinality(Dentries(i)) = 0
    BY <1>1, <1>2, SMT
<1>4. Dentries(i) = {}
    BY <1>1, <1>3, FS_EmptySet
<1>. QED  BY <1>3, <1>4 DEF Dentries

(* The handle, type and memory of inode i stay what they are. *)
SameFile(i) ==
    /\ inode'[i].type = inode[i].type
    /\ inode'[i].fh = inode[i].fh
    /\ inode'[i].mem = inode[i].mem

(* InodeOK stays true of an inode that stays the same file. *)
LEMMA SameFileOK ==
    ASSUME NEW i, InodeOK(i), SameFile(i),
           (\A d \in DOMAIN dcache : dcache[d] # i) =>
               \A d \in DOMAIN dcache' : dcache'[d] # i
    PROVE  InodeOK(i)'
<1>1. Cached(i)' <=> Cached(i)
    BY DEF Cached, SameFile
<1>. QED  BY <1>1 DEF InodeOK, SameFile

(* And of one that is cached, whatever dentries there are. *)
LEMMA CachedFileOK ==
    ASSUME NEW i, InodeOK(i), SameFile(i), Cached(i)'
    PROVE  InodeOK(i)'
  BY DEF InodeOK, SameFile

(* LookupDirStays for the lookup of p. *)
DirStays(p) ==
    /\ sb
    /\ IsDir(at[p])
    /\ inode[InoAt(at[p])].mem \in {"server", "heap"}
    /\ inode[InoAt(at[p])].fh = want[p].sent
    /\ want[p].sent.type = VSNFS_DIR

(* LookupDirStays is DirStays of every lookup under way. *)
LEMMA LookupDirs == LookupDirStays <=> \A p \in Process : want[p].busy => DirStays(p)
BY DEF LookupDirStays, DirStays

(* A step leaves the directory of a lookup alone. *)
LEMMA SameDir ==
    ASSUME NEW p, DirStays(p), sb' = sb, want'[p] = want[p],
           InoAt(at[p])' = InoAt(at[p]), SameFile(InoAt(at[p]))
    PROVE  DirStays(p)'
<1>. DEFINE i == InoAt(at[p])
<1>1. i' = i
    OBVIOUS
<1>2. inode'[i].type = VSNFS_DIR /\ i # Freed
    BY DEF DirStays, IsDir, SameFile
<1>3. IsDir(at[p])'
    BY <1>1, <1>2 DEF IsDir, Freed
<1>. QED  BY <1>1, <1>3 DEF DirStays, SameFile

-------------------------------------------------------------------------------
(* Initial states *)

(* Before the module is loaded there is no inode and nobody inside. *)
LEMMA InitIInv == Init => IInv
<1>. SUFFICES ASSUME Init PROVE IInv
    OBVIOUS
<1>. USE Constants, ClientAssumption
<1>1. TypeInv
  <2>1. NullFh \in [ino : CachedIno, type : Type]
      BY DEF NullFh, Handle, Type
  <2>2. NoWant \in Wanted
      BY <2>1 DEF NoWant, Wanted
  <2>3. NoInode \in Inodes
      BY <2>1, SMT DEF NoInode, Inodes, Type
  <2>4. DOMAIN dcache = {}
      BY DEF Init
  <2>5. <<>> \in Seq(Name)
      BY SMT
  <2>. QED  BY <2>2, <2>3, <2>4, <2>5, FS_EmptySet DEF Init, TypeInv
<1>2. MountInv
    BY DEF Init, MountInv, Inside
<1>3. \A p \in Process : ~want[p].busy
    BY DEF Init, NoWant
<1>4. WalkInv
    BY <1>3 DEF Init, WalkInv, Inside
<1>5. InodeInv
    BY DEF Init, InodeInv, InodeOK, Cached, NoInode, NullFh, Handle
<1>6. RefsBalanced
    BY DEF Init, RefsBalanced, NoInode
<1>7. LookupDirStays
    BY <1>3 DEF LookupDirStays
<1>8. DirsUnaliased
    BY DEF Init, DirsUnaliased
<1>. QED  BY <1>1, <1>2, <1>4, <1>5, <1>6, <1>7, <1>8 DEF IInv

-------------------------------------------------------------------------------
(* Steps that change neither inodes nor dentries *)

(* The mount goes on, fails or ends while there is no inode. *)
LEMMA QuietMount ==
    ASSUME IInv, UNCHANGED <<cvars, busy>>, mnt # "mounted", mnt' # "mounted",
           mnt' \in {"init", "rpc", "sget", "root"} => server' = "live",
           mnt' = "root" => sb'
    PROVE  IInv'
<1>. USE DEF IInv, cvars
<1>1. TypeInv'
    BY DEF TypeInv
<1>2. MountInv' /\ \A p \in Process : pc[p] = "out"
    BY DEF MountInv, Inside
<1>3. WalkInv'
    BY DEF WalkInv, Inside
<1>4. InodeInv'
    BY DEF InodeInv, InodeOK, Cached
<1>5. RefsBalanced'
    BY SMT DEF MountInv, RefsBalanced, NoInode
<1>6. LookupDirStays'
    BY <1>2 DEF WalkInv, LookupDirStays
<1>7. DirsUnaliased'
    BY DEF DirsUnaliased, IsDir, InoAt
<1>. QED  BY <1>1, <1>2, <1>3, <1>4, <1>5, <1>6, <1>7

(* Nothing the invariant is about changes. *)
LEMMA Unaffected ==
    ASSUME IInv, UNCHANGED <<inode, dcache, pc, at, want, mnt, server, sb, busy>>,
           srv_type' \in [Ino -> Type]
    PROVE  IInv'
<1>1. TypeInv'
    BY DEF IInv, TypeInv
<1>2. MountInv'
    BY DEF IInv, MountInv, Inside
<1>3. WalkInv'
    BY DEF IInv, WalkInv, Inside
<1>4. InodeInv'
    BY DEF IInv, InodeInv, InodeOK, Cached
<1>5. RefsBalanced'
    BY DEF IInv, RefsBalanced, Refs
<1>6. LookupDirStays'
    BY DEF IInv, LookupDirStays, InoAt, IsDir
<1>7. DirsUnaliased'
    BY DEF IInv, DirsUnaliased, IsDir, InoAt
<1>. QED  BY <1>1, <1>2, <1>3, <1>4, <1>5, <1>6, <1>7 DEF IInv

(* While the client is in use, the mount is as it was if the root inode is. *)
LEMMA MountStays ==
    ASSUME IInv, mnt = "mounted", UNCHANGED mvars, SameFile(RootIno)
    PROVE  MountInv'
<1>1. mnt' = "mounted" /\ server' = server /\ sb' = sb /\ busy' = busy
    BY DEF mvars
<1>2. inode[RootIno].mem = "server" /\ server = "live" /\ sb /\ busy \subseteq {0}
    BY DEF IInv, MountInv
<1>3. inode'[RootIno].mem = "server"
    BY <1>2 DEF SameFile
<1>. QED  BY <1>1, <1>2, <1>3 DEF MountInv

-------------------------------------------------------------------------------
(* Mounting and unmounting *)

(* vsnfs_get_root makes the first inode, with the two root dentries. *)
LEMMA GetRootStep ==
    ASSUME IInv, vsnfs_get_root
    PROVE  IInv'
<1>1. CASE KmallocFails /\ MountOops
    BY <1>1, QuietMount DEF vsnfs_get_root, MountOops
<1>2. CASE mnt' = "mounted"
  <2>1. /\ inode' = vsnfs_superblock_set_dummy_root(vsnfs_fhget(RootFh, "server"))
        /\ UNCHANGED <<srv_type, dcache, pc, at, want, server, sb, busy>>
        /\ mnt = "root"
      BY <1>2 DEF vsnfs_get_root, MountOops
  <2>2. inode = [i \in CachedIno |-> NoInode] /\ Inside = {}
      BY <2>1 DEF IInv, MountInv
  <2>3. DOMAIN dcache = {}
      BY <2>2 DEF IInv, WalkInv
  <2>4. inode' = [inode EXCEPT ![RootIno] = Inode(2, RootFh, "server")]
      BY <2>1, <2>2, Constants, SMT DEF vsnfs_superblock_set_dummy_root, vsnfs_fhget, RootFh,
                        Handle, Inode, Cached, NoInode, VSNFS_DIR, VSNFS_REG
  <2>5. Inode(2, RootFh, "server") \in Inodes
      BY Constants, SMT DEF Inode, RootFh, Handle, Inodes, Type
  <2>6. TypeInv'
    <3>1. inode' \in [CachedIno -> Inodes]
        BY <2>4, <2>5 DEF IInv, TypeInv
    <3>. QED  BY <2>1, <3>1 DEF IInv, TypeInv
  <2>7. \A p \in Process : pc[p] = "out" /\ ~want[p].busy
      BY <2>2 DEF IInv, WalkInv, Inside
  <2>8. MountInv'
    <3>1. inode'[RootIno].mem = "server"
      <4>1. inode'[RootIno] = Inode(2, RootFh, "server")
          BY <2>2, <2>4, Constants
      <4>. QED  BY <4>1, SMT DEF Inode
    <3>2. server = "live" /\ sb /\ busy \subseteq {0}
        BY <2>1 DEF IInv, MountInv
    <3>. QED  BY <1>2, <2>1, <3>1, <3>2 DEF MountInv
  <2>9. WalkInv'
      BY <2>1 DEF IInv, WalkInv, Inside
  <2>10. InodeInv'
      BY <2>2, <2>3, <2>4, <2>1, SMT
         DEF InodeInv, InodeOK, Cached, Inode, NoInode, RootFh, Handle, NullFh, VSNFS_DIR
  <2>11. Cardinality({d \in DOMAIN dcache : dcache[d] = RootIno}) = 0
      BY <2>3, FS_EmptySet
  <2>12. RefsBalanced'
    <3>1. inode'[RootIno].count = 2 /\ Refs(RootIno)' = 2
      <4>1. inode'[RootIno] = Inode(2, RootFh, "server")
          BY <2>2, <2>4, Constants
      <4>2. Refs(RootIno)' = 0 + 2
          BY <1>2, <2>1, <2>11 DEF Refs
      <4>. QED  BY <4>1, <4>2, SMT DEF Inode
    <3>2. \A i \in CachedIno \ {RootIno} : inode'[i].type = 0
        BY <2>2, <2>4 DEF NoInode
    <3>. QED  BY <3>1, <3>2 DEF RefsBalanced
  <2>13. LookupDirStays'
      BY <2>1, <2>7 DEF LookupDirStays
  <2>14. DirsUnaliased'
      BY <2>1, <2>3 DEF DirsUnaliased
  <2>. QED  BY <2>6, <2>8, <2>9, <2>10, <2>12, <2>13, <2>14 DEF IInv
<1>. QED  BY <1>1, <1>2 DEF vsnfs_get_root

(* Nobody is inside, so there are no dentries and only the references of     *)
(* the two root dentries, which are put.                                     *)
LEMMA KillSbStep ==
    ASSUME IInv, vsnfs_kill_sb
    PROVE  IInv'
<1>1. Inside = {} /\ mnt = "mounted" /\ mnt' = "killed" /\ sb' = FALSE
    BY DEF vsnfs_kill_sb
<1>2. UNCHANGED <<srv_type, dcache, pc, at, want>>
    BY DEF vsnfs_kill_sb
<1>3. inode' = [i \in CachedIno |-> NoInode]
    BY DEF vsnfs_kill_sb
<1>4. DOMAIN dcache = {}
    BY <1>1 DEF IInv, WalkInv
<1>5. \A p \in Process : ~want[p].busy
    BY <1>1 DEF IInv, WalkInv, Inside
<1>6. TypeInv'
  <2>1. NoInode \in Inodes
      BY Constants, SMT DEF NoInode, Inodes, Type, NullFh, Handle
  <2>. QED  BY <1>2, <1>3, <2>1 DEF IInv, TypeInv
<1>7. \A j \in CachedIno : RootsPut[j].count # 0 => RootsPut[j].type = 0
  <2>. SUFFICES ASSUME NEW j \in CachedIno, RootsPut[j].type # 0
                PROVE  RootsPut[j].count = 0
      OBVIOUS
  <2>1. inode[j] \in Inodes /\ inode \in [CachedIno -> Inodes]
      BY DEF IInv, TypeInv
  <2>2. inode[j].type # 0
      BY <2>1 DEF RootsPut, Inodes
  <2>3. {d \in DOMAIN dcache : dcache[d] = j} = {}
      BY <1>4
  <2>4. inode[j].count = IF j = RootIno THEN 2 ELSE 0
    <3>1. Cardinality({d \in DOMAIN dcache : dcache[d] = j}) = 0
        BY <2>3, FS_EmptySet
    <3>2. inode[j].count = Refs(j)
        BY <2>2 DEF IInv, RefsBalanced
    <3>. QED  BY <1>1, <3>1, <3>2, SMT DEF Refs
  <2>. QED  BY <2>1, <2>4, SMT DEF RootsPut, Inodes
<1>8. busy' \subseteq {0}
    BY <1>7 DEF vsnfs_kill_sb, IInv, MountInv
<1>9. MountInv'
    BY <1>1, <1>2, <1>3, <1>8 DEF MountInv, Inside
<1>10. WalkInv'
    BY <1>2 DEF IInv, WalkInv, Inside
<1>11. InodeInv'
    BY <1>2, <1>3, <1>4 DEF InodeInv, InodeOK, Cached, NoInode, NullFh, Handle
<1>12. RefsBalanced'
    BY <1>3 DEF RefsBalanced, NoInode
<1>13. LookupDirStays'
    BY <1>2, <1>5 DEF LookupDirStays
<1>14. DirsUnaliased'
    BY <1>2, <1>4 DEF DirsUnaliased
<1>. QED  BY <1>6, <1>9, <1>10, <1>11, <1>12, <1>13, <1>14 DEF IInv

(* Every step of a mount or unmount keeps the invariant. *)
LEMMA MountingStep ==
    ASSUME IInv, Mounting
    PROVE  IInv'
<1>1. CASE vsnfs_get_sb
    BY <1>1, QuietMount, SMT DEF vsnfs_get_sb, MountOops, IInv, MountInv
<1>2. ASSUME NEW dev \in Device, NEW opts \in Options, vsnfs_init_server(dev, opts)
      PROVE  IInv'
    BY <1>2, QuietMount, SMT DEF vsnfs_init_server, Return, MountOops, IInv, MountInv
<1>3. CASE vsnfs_create_rpcclient
    BY <1>3, QuietMount DEF vsnfs_create_rpcclient, IInv, MountInv
<1>4. CASE Sget
    BY <1>4, QuietMount, SMT DEF Sget, IInv, MountInv
<1>5. CASE KillSbFrees
    BY <1>5, QuietMount DEF KillSbFrees, IInv, MountInv
<1>. QED  BY <1>1, <1>2, <1>3, <1>4, <1>5, GetRootStep, KillSbStep DEF Mounting

-------------------------------------------------------------------------------
(* Steps of the processes *)

(* What a step leaves true that changes only where processes are. *)
LEMMA InodesUnaffected ==
    ASSUME IInv, UNCHANGED <<srv_type, inode, dcache, mnt, server, sb, busy>>
    PROVE  InodeInv' /\ RefsBalanced' /\ DirsUnaliased'
<1>1. InodeInv'
    BY DEF IInv, InodeInv, InodeOK, Cached
<1>2. RefsBalanced'
    BY DEF IInv, RefsBalanced, Refs
<1>3. DirsUnaliased'
    BY DEF IInv, DirsUnaliased, IsDir, InoAt
<1>. QED  BY <1>1, <1>2, <1>3

(* A process comes in, at the root or where another one is. *)
LEMMA ComesIn ==
    ASSUME IInv, mnt = "mounted", UNCHANGED mvars,
           UNCHANGED <<srv_type, inode, dcache, want>>,
           NEW q \in Process, pc[q] = "out", pc' = [pc EXCEPT ![q] = "in"],
           NEW a \in Seq(Name), at' = [at EXCEPT ![q] = a],
           \A d \in Seq(Name) \ {<<>>} : Below(d, a) => d \in DOMAIN dcache
    PROVE  IInv'
<1>. USE DEF mvars
<1>1. TypeInv'
    BY DEF IInv, TypeInv
<1>2. MountInv'
    BY DEF IInv, MountInv
<1>3. ~want[q].busy
    BY DEF IInv, WalkInv
<1>4. Inside' = Inside \cup {q} /\ \A p \in Inside : at'[p] = at[p]
    BY DEF IInv, TypeInv, Inside
<1>5. WalkInv'
  <2>0. at'[q] = a
      BY SMTT(40) DEF IInv, TypeInv
  <2>1. \A p \in Inside', d \in Seq(Name) \ {<<>>} :
            Below(d, at'[p]) => d \in DOMAIN dcache'
      BY <1>4, <2>0 DEF IInv, WalkInv
  <2>2. \A d \in DOMAIN dcache' : \E p \in Inside' : Below(d, at'[p])
      BY <1>4 DEF IInv, WalkInv
  <2>3. \A p \in Process : want[p].busy => p # q /\ at'[p] = at[p] /\ pc'[p] = pc[p]
      BY <1>3 DEF IInv, TypeInv
  <2>4. \A p \in Process : pc'[p] = "lookup" => pc[p] = "lookup"
      BY DEF IInv, TypeInv
  <2>. QED  BY <2>1, <2>2, <2>3, <2>4, SMTT(40) DEF IInv, WalkInv
<1>6. LookupDirStays'
  <2>1. ASSUME NEW p \in Process, want'[p].busy PROVE DirStays(p)'
    <3>1. p # q /\ at'[p] = at[p] /\ DirStays(p)
        BY <1>3, <2>1, LookupDirs DEF IInv, TypeInv
    <3>2. InoAt(at[p])' = InoAt(at[p]) /\ SameFile(InoAt(at[p]))
        BY <3>1, SMT DEF InoAt, SameFile
    <3>. QED  BY <3>1, <3>2, SameDir
  <2>. QED  BY <2>1 DEF LookupDirStays, DirStays
<1>. QED  BY <1>1, <1>2, <1>5, <1>6, InodesUnaffected DEF IInv

(* A process that opens the mount point starts at the root. *)
LEMMA EnterStep ==
    ASSUME IInv, mnt = "mounted", UNCHANGED mvars, NEW p \in Process, Enter(p)
    PROVE  IInv'
<1>1. <<>> \in Seq(Name)
    BY SMT
<1>2. \A d \in Seq(Name) \ {<<>>} : ~Below(d, <<>>)
    BY SMT DEF Below
<1>. QED  BY <1>1, <1>2, ComesIn DEF Enter

(* A child process starts where its parent is. *)
LEMMA ForkStep ==
    ASSUME IInv, mnt = "mounted", UNCHANGED mvars,
           NEW p \in Process, NEW q \in Process, Fork(p, q)
    PROVE  IInv'
<1>1. /\ at[p] \in Seq(Name)
      /\ \A d \in Seq(Name) \ {<<>>} : Below(d, at[p]) => d \in DOMAIN dcache
    BY DEF Fork, IInv, TypeInv, WalkInv, Inside
<1>. QED  BY <1>1, ComesIn DEF Fork
===============================================================================
