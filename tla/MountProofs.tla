----------------------------- MODULE MountProofs ------------------------------
(*****************************************************************************)
(* Theorems about the client's inodes, dentries and mounts, for any number of *)
(* processes, any answers of the server and any mount options.               *)
(*****************************************************************************)
EXTENDS LookupProofs

(* Most steps need no arithmetic; the ones that do name SMT. *)
USE ZenonT(40)

-------------------------------------------------------------------------------
(* A process leaves, and vsnfs_clear_inode *)

(* The dentries nobody needs any more go, each with its reference. *)
LEMMA LeaveStep ==
    ASSUME IInv, mnt = "mounted", UNCHANGED mvars, NEW p \in Process, Leave(p)
    PROVE  IInv'
<1>. DEFINE kept == Kept(Inside \ {p}, at)
            dead == DOMAIN dcache \ kept
<1>1. CASE pc' = [pc EXCEPT ![p] = "oops"]
  <2>1. pc[p] = "in" /\ UNCHANGED <<srv_type, inode, dcache, at, want>>
    <3>1. pc'[p] = "oops"
        BY <1>1 DEF IInv, TypeInv
    <3>2. pc' # [pc EXCEPT ![p] = "out"]
        BY <3>1 DEF IInv, TypeInv
    <3>. QED  BY <3>2 DEF Leave
  <2>2. pc[p] \in {"in", "lookup"} /\ want' = want
      BY <2>1
  <2>. QED  BY <1>1, <2>1, <2>2, LookupEnds
<1>2. CASE pc' = [pc EXCEPT ![p] = "out"]
  <2>1. /\ pc[p] = "in"
        /\ at' = [at EXCEPT ![p] = <<>>]
        /\ inode' = vsnfs_dentry_iput(dead)
        /\ dcache' = [d \in kept |-> dcache[d]]
        /\ UNCHANGED <<srv_type, want>>
    <3>1. pc'[p] = "out"
        BY <1>2 DEF IInv, TypeInv
    <3>2. pc' # [pc EXCEPT ![p] = "oops"]
        BY <3>1 DEF IInv, TypeInv
    <3>. QED  BY <3>2 DEF Leave
  <2>2. kept \subseteq DOMAIN dcache
      BY DEF Kept
  <2>3. /\ \A d \in kept : \E q \in Inside \ {p} : Below(d, at[q])
        /\ \A q \in Inside \ {p}, d \in Seq(Name) \ {<<>>} :
              Below(d, at[q]) => d \in kept
    <3>1. \A d \in kept : \E q \in Inside \ {p} : Below(d, at[q])
        BY DEF Kept
    <3>2. ASSUME NEW q \in Inside \ {p}, NEW d \in Seq(Name) \ {<<>>}, Below(d, at[q])
          PROVE  d \in kept
        BY <3>2 DEF IInv, WalkInv, Kept
    <3>. QED  BY <3>1, <3>2
  <2>. HIDE DEF kept
  <2>4. DOMAIN dcache' = kept /\ \A d \in kept : dcache'[d] = dcache[d]
      BY <2>1
  <2>5. Inside' = Inside \ {p} /\ \A q \in Inside' : at'[q] = at[q] /\ pc'[q] = pc[q]
      BY <1>2, <2>1 DEF IInv, TypeInv, Inside
  <2>6. ~want[p].busy /\ \A q \in Process : want[q].busy => q \in Inside'
      BY <2>1, <2>5 DEF IInv, WalkInv, Inside
  <2>7. IsFiniteSet(kept) /\ IsFiniteSet(dead)
      BY <2>2, FS_Subset DEF IInv, TypeInv
  <2>8. \A i \in CachedIno :
            Cardinality(Dentries(i)') = Cardinality({d \in kept : dcache[d] = i})
    <3>1. \A i \in CachedIno : Dentries(i)' = {d \in kept : dcache[d] = i}
        BY <2>4 DEF Dentries
    <3>. QED  BY <3>1
  <2>9. \A i \in CachedIno : SameFile(i)
      BY <2>1, IputFields DEF IInv
  <2>10. inode' \in [CachedIno -> Inodes]
      BY <2>1, IputFields DEF IInv
  <2>. HIDE DEF dead
  <2>11. TypeInv'
    <3>1. at' \in [Process -> Seq(Name)]
      <4>1. at \in [Process -> Seq(Name)] /\ <<>> \in Seq(Name)
          BY SMT DEF IInv, TypeInv
      <4>. QED  BY <2>1, <4>1
    <3>2. pc' \in [Process -> {"out", "in", "lookup", "oops"}]
        BY <1>2 DEF IInv, TypeInv
    <3>3. \A d \in DOMAIN dcache' : d \in Seq(Name) \ {<<>>} /\
              dcache'[d] \in (CachedIno \cup {Freed}) \ {RootIno}
        BY <2>2, <2>4 DEF IInv, TypeInv
    <3>. QED  BY <2>1, <2>4, <2>7, <2>10, <3>1, <3>2, <3>3 DEF IInv, TypeInv
  <2>12. MountInv'
    <3>1. SameFile(RootIno)
        BY <2>9, Constants
    <3>. QED  BY <3>1, MountStays
  <2>13. WalkInv'
    <3>1. \A q \in Inside', d \in Seq(Name) \ {<<>>} :
              Below(d, at'[q]) => d \in DOMAIN dcache'
        BY <2>3, <2>4, <2>5
    <3>2. \A d \in DOMAIN dcache' : \E q \in Inside' : Below(d, at'[q])
        BY <2>3, <2>4, <2>5
    <3>3. \A q \in Process : pc'[q] = "lookup" => pc[q] = "lookup"
        BY <1>2 DEF IInv, TypeInv
    <3>4. \A q \in Process : want'[q].busy => at'[q] = at[q] /\ pc'[q] = pc[q]
        BY <2>1, <2>5, <2>6
    <3>5. \A q \in Process :
              /\ pc'[q] = "lookup" => want'[q].busy
              /\ want'[q].busy => /\ pc'[q] \in {"lookup", "oops"}
                                  /\ want'[q].name \in Name
                                  /\ Append(at'[q], want'[q].name) \notin DOMAIN dcache'
        BY <2>1, <2>2, <2>4, <3>3, <3>4 DEF IInv, WalkInv
    <3>6. \A q, r \in Process :
              want'[q].busy /\ want'[r].busy /\ at'[q] = at'[r] => q = r
        BY <2>1, <3>4 DEF IInv, WalkInv
    <3>. QED  BY <3>1, <3>2, <3>5, <3>6 DEF WalkInv
  <2>14. InodeInv'
    <3>1. ASSUME NEW i \in CachedIno PROVE InodeOK(i)'
      <4>1. InodeOK(i) /\ SameFile(i)
          BY <2>9 DEF IInv, InodeInv
      <4>2. (\A d \in DOMAIN dcache : dcache[d] # i)
              => \A d \in DOMAIN dcache' : dcache'[d] # i
          BY <2>2, <2>4
      <4>. QED  BY <4>1, <4>2, SameFileOK
    <3>. QED  BY <3>1 DEF InodeInv
  <2>15. RefsBalanced'
      BY <2>1, <2>2, <2>8, IputBalanced DEF IInv, mvars, dead
  <2>16. LookupDirStays'
    <3>1. ASSUME NEW q \in Process, want'[q].busy PROVE DirStays(q)'
      <4>1. /\ want[q].busy /\ want'[q] = want[q] /\ at'[q] = at[q]
            /\ q \in Inside \ {p}
          BY <2>1, <2>5, <2>6, <3>1
      <4>2. DirStays(q)
          BY <4>1, LookupDirs DEF IInv
      <4>3. InoAt(at[q])' = InoAt(at[q])
        <5>1. at[q] # <<>> => at[q] \in kept
          <6>1. at[q] \in Seq(Name) /\ Below(at[q], at[q])
              BY BelowOrder DEF IInv, TypeInv
          <6>. QED  BY <2>3, <4>1, <6>1
        <5>. QED  BY <2>4, <4>1, <5>1 DEF InoAt
      <4>4. InoAt(at[q]) \in CachedIno
          BY <4>1, <4>2, InoAtType DEF IInv, DirStays, IsDir
      <4>5. SameFile(InoAt(at[q]))
          BY <2>9, <4>4
      <4>. QED  BY <4>1, <4>2, <4>3, <4>5, SameDir DEF mvars
    <3>. QED  BY <3>1 DEF LookupDirStays, DirStays
  <2>17. DirsUnaliased'
    <3>1. ASSUME NEW d \in DOMAIN dcache', NEW e \in DOMAIN dcache',
                 IsDir(d)', dcache'[d] = dcache'[e]
          PROVE  d = e
      <4>1. /\ d \in DOMAIN dcache /\ e \in DOMAIN dcache /\ d # <<>>
            /\ dcache'[d] = dcache[d] /\ dcache'[e] = dcache[e]
          BY <2>2, <2>4 DEF IInv, TypeInv
      <4>2. dcache[d] # Freed /\ inode'[dcache[d]].type = VSNFS_DIR
          BY <3>1, <4>1 DEF IsDir, InoAt
      <4>3. dcache[d] \in CachedIno
          BY <4>1, <4>2 DEF IInv, TypeInv
      <4>4. IsDir(d)
          BY <2>9, <4>1, <4>2, <4>3 DEF IsDir, InoAt, SameFile
      <4>. QED  BY <3>1, <4>1, <4>4 DEF IInv, DirsUnaliased
    <3>. QED  BY <3>1 DEF DirsUnaliased
  <2>. QED  BY <2>11, <2>12, <2>13, <2>14, <2>15, <2>16, <2>17 DEF IInv
<1>. QED  BY <1>1, <1>2 DEF Leave

(* Only an inode nobody refers to is freed; a dentry can still lead to it if *)
(* it is of neither type, and then no lookup is under way there.             *)
LEMMA ClearInodeStep ==
    ASSUME IInv, mnt = "mounted", UNCHANGED mvars,
           NEW i \in CachedIno, vsnfs_clear_inode(i)
    PROVE  IInv'
<1>1. /\ Cached(i) /\ inode[i].count = 0
      /\ inode' = [inode EXCEPT ![i] = NoInode]
      /\ dcache' = [d \in DOMAIN dcache |-> IF dcache[d] = i THEN Freed ELSE dcache[d]]
      /\ UNCHANGED <<srv_type, pc, at, want>>
    BY DEF vsnfs_clear_inode
<1>2. inode[i].type # 0 => i # RootIno /\ \A d \in DOMAIN dcache : dcache[d] # i
    BY <1>1, InUse DEF IInv
<1>3. i # RootIno
  <2>1. inode[RootIno].mem = "server"
      BY DEF IInv, MountInv
  <2>2. InodeOK(RootIno)
      BY Constants DEF IInv, InodeInv
  <2>3. inode[RootIno].type # 0
      BY <2>1, <2>2 DEF InodeOK
  <2>. QED  BY <1>2, <2>3
<1>4. /\ inode'[i] = NoInode
      /\ \A j \in CachedIno \ {i} : inode'[j] = inode[j]
      /\ inode' \in [CachedIno -> Inodes]
  <2>1. NoInode \in Inodes
      BY Constants, SMT DEF NoInode, Inodes, Type, NullFh, Handle
  <2>. QED  BY <1>1, <2>1 DEF IInv, TypeInv
<1>5. /\ DOMAIN dcache' = DOMAIN dcache
      /\ \A d \in DOMAIN dcache : dcache'[d] = IF dcache[d] = i THEN Freed ELSE dcache[d]
    BY <1>1
<1>6. TypeInv'
  <2>1. \A d \in DOMAIN dcache' : d \in Seq(Name) \ {<<>>} /\
            dcache'[d] \in (CachedIno \cup {Freed}) \ {RootIno}
      BY <1>5, Constants DEF IInv, TypeInv
  <2>. QED  BY <1>1, <1>4, <1>5, <2>1, SMTT(40) DEF IInv, TypeInv
<1>7. Inside' = Inside
    BY <1>1 DEF Inside
<1>8. MountInv'
  <2>1. SameFile(RootIno)
      BY <1>3, <1>4, Constants DEF SameFile
  <2>. QED  BY <2>1, MountStays
<1>9. WalkInv'
    BY <1>1, <1>5, <1>7 DEF IInv, WalkInv
<1>10. InodeInv'
  <2>1. InodeOK(i)'
    <3>1. \A d \in DOMAIN dcache' : dcache'[d] # i
        BY <1>5, Constants
    <3>2. /\ inode'[i].type = 0 /\ inode'[i].fh.type = 0
          /\ inode'[i].mem \notin {"server", "heap"}
        BY <1>4, SMT DEF NoInode, NullFh, Handle
    <3>. QED  BY <3>1, <3>2 DEF InodeOK, Cached
  <2>2. ASSUME NEW j \in CachedIno \ {i} PROVE InodeOK(j)'
    <3>1. InodeOK(j) /\ SameFile(j)
        BY <1>4 DEF IInv, InodeInv, SameFile
    <3>2. (\A d \in DOMAIN dcache : dcache[d] # j)
            => \A d \in DOMAIN dcache' : dcache'[d] # j
        BY <1>5, Constants
    <3>. QED  BY <3>1, <3>2, SameFileOK
  <2>. QED  BY <2>1, <2>2 DEF InodeInv
<1>11. RefsBalanced'
  <2>. SUFFICES ASSUME NEW j \in CachedIno, inode'[j].type # 0
                PROVE  inode'[j].count = Refs(j)'
      BY DEF RefsBalanced
  <2>1. j # i /\ inode'[j] = inode[j]
    <3>1. inode'[i].type = 0
        BY <1>4, SMT DEF NoInode
    <3>. QED  BY <1>4, <3>1
  <2>2. {d \in DOMAIN dcache' : dcache'[d] = j} = {d \in DOMAIN dcache : dcache[d] = j}
      BY <1>5, <2>1, Constants
  <2>. QED  BY <2>1, <2>2 DEF IInv, RefsBalanced, Refs, mvars
<1>12. LookupDirStays'
  <2>1. ASSUME NEW q \in Process, want'[q].busy PROVE DirStays(q)'
    <3>1. want[q].busy /\ want'[q] = want[q] /\ at'[q] = at[q]
        BY <1>1, <2>1
    <3>2. DirStays(q) /\ q \in Inside
        BY <3>1, LookupDirs DEF IInv, WalkInv, Inside
    <3>3. InoAt(at[q]) \in CachedIno
        BY <3>2, InoAtType DEF IInv, DirStays, IsDir
    <3>4. at[q] # <<>> => at[q] \in DOMAIN dcache
        BY <3>2, InoAtType DEF IInv
    <3>5. InoAt(at[q]) # i
      <4>1. inode[InoAt(at[q])].type # 0
          BY <3>2, SMT DEF DirStays, IsDir, VSNFS_DIR
      <4>. QED  BY <1>2, <1>3, <3>4, <4>1 DEF InoAt
    <3>6. InoAt(at[q])' = InoAt(at[q])
        BY <1>5, <3>1, <3>4, <3>5 DEF InoAt
    <3>7. SameFile(InoAt(at[q]))
        BY <1>4, <3>3, <3>5 DEF SameFile
    <3>. QED  BY <3>1, <3>2, <3>6, <3>7, SameDir, SMTT(40) DEF mvars
  <2>. QED  BY <2>1 DEF LookupDirStays, DirStays
<1>13. DirsUnaliased'
  <2>1. ASSUME NEW d \in DOMAIN dcache', NEW e \in DOMAIN dcache',
               IsDir(d)', dcache'[d] = dcache'[e]
        PROVE  d = e
    <3>1. d \in DOMAIN dcache /\ e \in DOMAIN dcache /\ d # <<>> /\ dcache'[d] # Freed
        BY <1>5, <2>1 DEF IInv, TypeInv, IsDir, InoAt
    <3>2. dcache[d] # i /\ dcache'[d] = dcache[d] /\ dcache[e] = dcache[d]
        BY <1>5, <2>1, <3>1
    <3>3. dcache[d] \in CachedIno /\ dcache[d] # Freed
        BY <3>1, <3>2 DEF IInv, TypeInv
    <3>4. inode'[dcache[d]].type = VSNFS_DIR
        BY <2>1, <3>1, <3>2 DEF IsDir, InoAt
    <3>5. IsDir(d)
        BY <1>4, <3>1, <3>2, <3>3, <3>4 DEF IsDir, InoAt
    <3>. QED  BY <3>1, <3>2, <3>5 DEF IInv, DirsUnaliased
  <2>. QED  BY <2>1 DEF DirsUnaliased
<1>. QED  BY <1>6, <1>8, <1>9, <1>10, <1>11, <1>12, <1>13 DEF IInv

-------------------------------------------------------------------------------
(* The next-state relation *)

(* A lookup begins in a directory where there is no other. *)
LEMMA LookupStep ==
    ASSUME IInv, mnt = "mounted", UNCHANGED mvars,
           NEW p \in Process, NEW n \in Name, vsnfs_lookup(p, n)
    PROVE  IInv'
<1>. USE DEF mvars
<1>1. CASE UNCHANGED <<pc, want>>
    BY <1>1, Unaffected DEF vsnfs_lookup, IInv, TypeInv
<1>2. ASSUME NEW newfh \in {TRUE, ~KmallocFails},
             want' = [want EXCEPT ![p] =
                 [busy |-> TRUE, name |-> n, newfh |-> newfh,
                  sent |-> inode[InoAt(at[p])].fh]],
             pc' = [pc EXCEPT ![p] = "lookup"]
      PROVE  IInv'
  <2>1. /\ pc[p] = "in" /\ IsDir(at[p]) /\ ~Locked(at[p])
        /\ Append(at[p], n) \notin DOMAIN dcache
        /\ UNCHANGED <<srv_type, inode, dcache, at>>
      BY DEF vsnfs_lookup
  <2>2. InoAt(at[p]) \in CachedIno
      BY <2>1, InoAtType DEF IInv, IsDir, Inside
  <2>3. inode[InoAt(at[p])] \in Inodes
      BY <2>2 DEF IInv, TypeInv
  <2>4. TypeInv'
    <3>1. inode[InoAt(at[p])].fh \in [ino : CachedIno, type : Type]
        BY <2>3 DEF Inodes
    <3>2. newfh \in BOOLEAN
        BY ClientAssumption
    <3>3. want' \in [Process -> Wanted]
        BY <1>2, <3>1, <3>2 DEF IInv, TypeInv, Wanted
    <3>. QED  BY <1>2, <2>1, <3>3 DEF IInv, TypeInv
  <2>5. Inside' = Inside
      BY <1>2, <2>1 DEF IInv, TypeInv, Inside
  <2>6. MountInv'
      BY <2>1, <2>5 DEF IInv, MountInv
  <2>7. /\ want'[p].busy /\ want'[p].name = n /\ pc'[p] = "lookup"
        /\ want'[p].sent = inode[InoAt(at[p])].fh
        /\ \A q \in Process \ {p} : want'[q] = want[q] /\ pc'[q] = pc[q]
      BY <1>2 DEF IInv, TypeInv
  <2>8. \A q \in Process \ {p} : want[q].busy => at[q] # at[p]
      BY <2>1 DEF Locked
  <2>9. WalkInv'
      BY <2>1, <2>5, <2>7, <2>8, SMTT(40) DEF IInv, WalkInv
  <2>10. LookupDirStays'
    <3>1. inode[InoAt(at[p])].type = VSNFS_DIR /\ sb
        BY <2>1 DEF IsDir, IInv, MountInv
    <3>2. /\ inode[InoAt(at[p])].mem \in {"server", "heap"}
          /\ inode[InoAt(at[p])].fh.type = VSNFS_DIR
      <4>1. InodeOK(InoAt(at[p]))
          BY <2>2 DEF IInv, InodeInv
      <4>. QED  BY <3>1, <4>1, SMT DEF InodeOK, VSNFS_DIR
    <3>3. \A q \in Process : InoAt(at[q])' = InoAt(at[q])
        BY <2>1 DEF InoAt
    <3>4. DirStays(p)'
        BY <2>1, <2>7, <3>1, <3>2, <3>3 DEF DirStays, IsDir
    <3>5. ASSUME NEW q \in Process \ {p}, want'[q].busy PROVE DirStays(q)'
      <4>1. DirStays(q) /\ want'[q] = want[q]
          BY <2>7, <3>5, LookupDirs DEF IInv
      <4>. QED  BY <2>1, <3>3, <4>1, SameDir DEF SameFile
    <3>. QED  BY <3>4, <3>5 DEF LookupDirStays, DirStays
  <2>. QED  BY <2>1, <2>4, <2>6, <2>9, <2>10, InodesUnaffected DEF IInv
<1>. QED  BY <1>1, <1>2 DEF vsnfs_lookup

(* Every step of a process and vsnfs_clear_inode keep the invariant. *)
LEMMA UsingStep ==
    ASSUME IInv, Using
    PROVE  IInv'
<1>1. mnt = "mounted" /\ UNCHANGED mvars
    BY DEF Using
<1>2. ASSUME NEW p \in Process, NEW n \in Name, vsnfs_lookup_revalidate(p, n)
      PROVE  IInv'
  <2>1. UNCHANGED <<inode, dcache, pc, at, want>> /\ srv_type' = srv_type
      BY <1>2 DEF vsnfs_lookup_revalidate
  <2>. QED  BY <1>1, <2>1, Unaffected DEF mvars, IInv, TypeInv
<1>3. ASSUME NEW p \in Process, LookupFails(p)
      PROVE  IInv'
    BY <1>1, <1>3, LookupEnds DEF LookupFails
<1>. QED  BY <1>1, <1>2, <1>3, EnterStep, LeaveStep, ForkStep, LookupStep,
             LookupReturnsStep, ClearInodeStep DEF Using

(* Every step of the client and of the server keeps the invariant. *)
LEMMA NextIInv == IInv /\ [Next]_vars => IInv'
<1>. SUFFICES ASSUME IInv, [Next]_vars PROVE IInv'
    OBVIOUS
<1>1. CASE Serving
  <2>1. srv_type' \in [Ino -> Type]
      BY <1>1 DEF Serving, ServerReuses, IInv, TypeInv
  <2>. QED  BY <1>1, <2>1, Unaffected DEF Serving, ServerReuses, mvars
<1>2. CASE VSNFSClientInit
    BY <1>2, Unaffected DEF VSNFSClientInit, cvars, IInv, TypeInv
<1>3. CASE VSNFSClientCleanup
    BY <1>3, Unaffected DEF VSNFSClientCleanup, cvars, IInv, TypeInv
<1>4. CASE UNCHANGED vars
    BY <1>4, Unaffected DEF vars, cvars, mvars, IInv, TypeInv
<1>. QED  BY <1>1, <1>2, <1>3, <1>4, MountingStep, UsingStep DEF Next

(* What InodeStable says of one step. *)
Stable ==
    \A i \in CachedIno :
        Cached(i) /\ Cached(i)' =>
            [inode[i] EXCEPT !.count = 0] = [inode'[i] EXCEPT !.count = 0]

(* InodeStable looks only at cached inodes, their handle and type. *)
LEMMA StableFields ==
    ASSUME IInv, IInv',
           \A i \in CachedIno : Cached(i) /\ Cached(i)' =>
               /\ inode'[i].type = inode[i].type
               /\ inode'[i].fh = inode[i].fh
               /\ inode'[i].mem = inode[i].mem
    PROVE  Stable
<1>. SUFFICES ASSUME NEW i \in CachedIno, Cached(i), Cached(i)'
              PROVE  [inode[i] EXCEPT !.count = 0] = [inode'[i] EXCEPT !.count = 0]
    BY DEF Stable
<1>1. inode[i] \in Inodes /\ inode'[i] \in Inodes
    BY DEF IInv, TypeInv, Inodes
<1>. QED  BY <1>1 DEF Inodes

(* No step changes the handle or type of an inode that stays cached. *)
LEMMA StableStep == IInv /\ IInv' /\ [Next]_vars => Stable
<1>. SUFFICES ASSUME IInv, IInv', [Next]_vars PROVE Stable
    OBVIOUS
<1>1. inode \in [CachedIno -> Inodes]
    BY DEF IInv, TypeInv
<1>2. CASE inode' = inode
    BY <1>2, StableFields
<1>3. CASE vsnfs_get_root
  <2>1. inode = [i \in CachedIno |-> NoInode]
      BY <1>3 DEF vsnfs_get_root, IInv, MountInv
  <2>2. \A i \in CachedIno : ~Cached(i)
      BY <2>1 DEF Cached, NoInode
  <2>. QED  BY <2>2, StableFields
<1>4. CASE vsnfs_kill_sb
  <2>1. \A i \in CachedIno : ~Cached(i)'
      BY <1>4 DEF vsnfs_kill_sb, Cached, NoInode
  <2>. QED  BY <2>1, StableFields
<1>5. ASSUME NEW h, inode' = vsnfs_fhget(h, "heap")
      PROVE  Stable
  <2>1. \A i \in CachedIno : i # h.ino => inode'[i] = inode[i]
      BY <1>1, <1>5 DEF vsnfs_fhget
  <2>2. h.ino \in CachedIno /\ Cached(h.ino) => inode'[h.ino] = Taken(inode[h.ino])
      BY <1>1, <1>5, FhgetAt
  <2>3. \A i \in CachedIno : Cached(i) =>
            /\ inode'[i].type = inode[i].type
            /\ inode'[i].fh = inode[i].fh
            /\ inode'[i].mem = inode[i].mem
      BY <1>1, <2>1, <2>2, SMT DEF Taken, Inodes
  <2>. QED  BY <2>3, StableFields
<1>6. ASSUME NEW kept, inode' = vsnfs_dentry_iput(DOMAIN dcache \ kept)
      PROVE  Stable
  <2>1. \A i \in CachedIno : SameFile(i)
      BY <1>6, IputFields DEF IInv
  <2>. QED  BY <2>1, StableFields DEF SameFile
<1>7. ASSUME NEW i \in CachedIno, vsnfs_clear_inode(i)
      PROVE  Stable
  <2>1. inode' = [inode EXCEPT ![i] = NoInode]
      BY <1>7 DEF vsnfs_clear_inode
  <2>2. ~Cached(i)' /\ \A j \in CachedIno \ {i} : inode'[j] = inode[j]
      BY <1>1, <2>1 DEF Cached, NoInode
  <2>. QED  BY <2>2, StableFields
<1>8. CASE Mounting
  <2>1. vsnfs_get_root \/ vsnfs_kill_sb \/ inode' = inode
      BY <1>8 DEF Mounting, vsnfs_get_sb, vsnfs_init_server, Return, MountOops,
                  vsnfs_create_rpcclient, Sget, KillSbFrees, cvars
  <2>. QED  BY <1>2, <1>3, <1>4, <2>1
<1>9. CASE Using
  <2>1. ASSUME NEW p \in Process, LookupReturns(p) PROVE Stable
    <3>1. PICK h \in Answers :
            inode' = inode \/ d_materialise_unique(p, h, Append(at[p], want[p].name))
        BY <2>1 DEF LookupReturns
    <3>2. \/ inode' = inode \/ inode' = vsnfs_fhget(h, "heap")
          \/ \E kept : inode' = vsnfs_dentry_iput(DOMAIN dcache \ kept)
        BY <3>1 DEF d_materialise_unique, Instantiate, Unalias
    <3>. QED  BY <1>2, <1>5, <1>6, <3>2
  <2>2. ASSUME NEW p \in Process, Leave(p) PROVE Stable
    <3>1. inode' = inode \/ \E kept : inode' = vsnfs_dentry_iput(DOMAIN dcache \ kept)
        BY <2>2 DEF Leave
    <3>. QED  BY <1>2, <1>6, <3>1
  <2>3. \/ \E p \in Process : LookupReturns(p) \/ Leave(p)
        \/ \E i \in CachedIno : vsnfs_clear_inode(i)
        \/ inode' = inode
      BY <1>9 DEF Using, Enter, Fork, vsnfs_lookup_revalidate, vsnfs_lookup, LookupFails
  <2>. QED  BY <1>2, <1>7, <2>1, <2>2, <2>3
<1>10. CASE Serving \/ VSNFSClientInit \/ VSNFSClientCleanup \/ UNCHANGED vars
  <2>1. inode' = inode
      BY <1>10 DEF Serving, ServerReuses, VSNFSClientInit, VSNFSClientCleanup, vars, cvars
  <2>. QED  BY <1>2, <2>1
<1>. QED  BY <1>8, <1>9, <1>10 DEF Next

-------------------------------------------------------------------------------
(* The theorems *)

(* Whatever the processes, memory pressure and the server do, the invariant  *)
(* holds.                                                                    *)
THEOREM ClientIsSound == Spec => []IInv
BY InitIInv, NextIInv, PTL DEF Spec

(* i_count of every file and directory is always the number of its dentries. *)
THEOREM RefsAreBalanced == Spec => []RefsBalanced
<1>1. IInv => RefsBalanced
    BY DEF IInv
<1>. QED  BY <1>1, ClientIsSound, PTL

(* A directory stays what it was while vsnfs_lookup waits for the server. *)
THEOREM LookupDirsStay == Spec => []LookupDirStays
<1>1. IInv => LookupDirStays
    BY DEF IInv
<1>. QED  BY <1>1, ClientIsSound, PTL

(* The memory i_private points to outlives the inode. *)
THEOREM HandlesStayAlive == Spec => []HandlesAlive
<1>1. IInv => HandlesAlive
    BY SMT DEF IInv, MountInv, HandlesAlive, NoInode
<1>. QED  BY <1>1, ClientIsSound, PTL

(* vsnfs_kill_sb finds no file or directory in use. *)
THEOREM NothingStaysBusy == Spec => []NothingBusy
<1>1. IInv => NothingBusy
    BY DEF IInv, MountInv, NothingBusy
<1>. QED  BY <1>1, ClientIsSound, PTL

(* An inode keeps its type and its handle for as long as it is cached. *)
THEOREM InodesAreStable == Spec => InodeStable
<1>1. IInv /\ IInv' /\ [Next]_vars => [Stable]_vars
    BY StableStep
<1>2. Spec => [][Stable]_vars
    BY <1>1, ClientIsSound, PTL DEF Spec
<1>. QED  BY <1>2 DEF InodeStable, Stable

(* No directory has two dentries, however often it is renamed on the server. *)
THEOREM DirsAreUnaliased == Spec => []DirsUnaliased
<1>1. IInv => DirsUnaliased
    BY DEF IInv
<1>. QED  BY <1>1, ClientIsSound, PTL

-------------------------------------------------------------------------------
(* The types and the tree of dentries *)

(* What TypeOK says beyond the invariant, and what makes it inductive: a     *)
(* process outside stands nowhere.                                           *)
OutInv ==
    /\ \A p \in Process : pc[p] = "out" => at[p] = <<>>
    /\ module \in {"in", "out"}
    /\ mnt \in {"idle", "init", "rpc", "sget", "root", "mounted", "killed", "oops"}
    /\ server \in {"none", "live", "freed"}
    /\ sb \in BOOLEAN

(* Mounting and the module move no process. *)
LEMMA OutMount ==
    ASSUME OutInv, Mounting \/ VSNFSClientInit \/ VSNFSClientCleanup
    PROVE  OutInv'
<1>1. UNCHANGED <<pc, at>>
    BY DEF Mounting, vsnfs_get_sb, vsnfs_init_server, vsnfs_create_rpcclient, Sget,
           vsnfs_get_root, vsnfs_kill_sb, KillSbFrees, VSNFSClientInit,
           VSNFSClientCleanup, MountOops, Return, cvars
<1>2. /\ module' \in {"in", "out"}
      /\ mnt' \in {"idle", "init", "rpc", "sget", "root", "mounted", "killed", "oops"}
      /\ server' \in {"none", "live", "freed"}
    BY DEF OutInv, Mounting, vsnfs_get_sb, vsnfs_init_server, vsnfs_create_rpcclient, Sget,
           vsnfs_get_root, vsnfs_kill_sb, KillSbFrees, VSNFSClientInit,
           VSNFSClientCleanup, MountOops, Return
<1>3. sb' \in BOOLEAN
    BY DEF OutInv, Mounting, vsnfs_get_sb, vsnfs_init_server,
           vsnfs_create_rpcclient, Sget, vsnfs_get_root, vsnfs_kill_sb, KillSbFrees,
           VSNFSClientInit, VSNFSClientCleanup, MountOops, Return
<1>. QED  BY <1>1, <1>2, <1>3 DEF OutInv

(* A process that is moved with its directory is inside. *)
LEMMA OutLookup ==
    ASSUME IInv, OutInv, UNCHANGED mvars, NEW p \in Process, LookupReturns(p)
    PROVE  OutInv'
<1>1. pc \in [Process -> {"out", "in", "lookup", "oops"}] /\ at \in [Process -> Seq(Name)]
    BY DEF IInv, TypeInv
<1>2. pc[p] = "lookup" /\ \A q \in Process : pc'[q] = "out" => q # p /\ pc[q] = "out"
    BY <1>1 DEF LookupReturns
<1>3. ASSUME \A q \in Process \ {p} : at[q] = <<>> => at'[q] = <<>> PROVE OutInv'
    BY <1>2, <1>3 DEF OutInv, mvars
<1>4. PICK h \in Answers :
        at' = at \/ d_materialise_unique(p, h, Append(at[p], want[p].name))
    BY DEF LookupReturns
<1>5. CASE at' = at
    BY <1>3, <1>5
<1>6. CASE at' # at /\ Instantiate(p, h, Append(at[p], want[p].name))
    BY <1>1, <1>3, <1>6 DEF Instantiate
<1>7. ASSUME NEW alias \in Aliases(h), Unalias(p, alias, Append(at[p], want[p].name))
      PROVE  OutInv'
  <2>1. alias \in Seq(Name) \ {<<>>}
      BY DEF Aliases, IInv, TypeInv
  <2>2. ~Below(alias, <<>>)
      BY <2>1, SMT DEF Below
  <2>3. \A q \in Process \ {p} :
            at'[q] = Moved(at[q], alias, Append(at[p], want[p].name))
      BY <1>7 DEF Unalias
  <2>. QED  BY <1>3, <2>2, <2>3, MovedStays
<1>. QED  BY <1>4, <1>5, <1>6, <1>7 DEF d_materialise_unique

(* No step leaves a process outside that stands somewhere. *)
LEMMA OutStep == IInv /\ OutInv /\ [Next]_vars => OutInv'
<1>. SUFFICES ASSUME IInv, OutInv, [Next]_vars PROVE OutInv'
    OBVIOUS
<1>1. pc \in [Process -> {"out", "in", "lookup", "oops"}] /\ at \in [Process -> Seq(Name)]
    BY DEF IInv, TypeInv
<1>2. ASSUME UNCHANGED mvars,
             \A q \in Process : pc'[q] = "out" =>
                 at'[q] = <<>> \/ (pc[q] = "out" /\ at'[q] = at[q])
      PROVE  OutInv'
    BY <1>2 DEF OutInv, mvars
<1>3. CASE Using
  <2>1. UNCHANGED mvars
      BY <1>3 DEF Using
  <2>2. ASSUME NEW p \in Process, Enter(p) PROVE OutInv'
      BY <1>1, <1>2, <2>1, <2>2 DEF Enter
  <2>3. ASSUME NEW p \in Process, NEW q \in Process, Fork(p, q) PROVE OutInv'
      BY <1>1, <1>2, <2>1, <2>3 DEF Fork
  <2>4. ASSUME NEW p \in Process, NEW n \in Name,
               vsnfs_lookup_revalidate(p, n) \/ vsnfs_lookup(p, n)
        PROVE  OutInv'
      BY <1>1, <1>2, <2>1, <2>4 DEF vsnfs_lookup_revalidate, vsnfs_lookup
  <2>5. ASSUME NEW p \in Process, LookupFails(p) PROVE OutInv'
      BY <1>1, <1>2, <2>1, <2>5 DEF LookupFails
  <2>6. ASSUME NEW i \in CachedIno, vsnfs_clear_inode(i) PROVE OutInv'
      BY <1>2, <2>1, <2>6 DEF vsnfs_clear_inode
  <2>7. ASSUME NEW p \in Process, Leave(p) PROVE OutInv'
      BY <1>1, <1>2, <2>1, <2>7 DEF Leave
  <2>. QED  BY <1>3, <2>1, <2>2, <2>3, <2>4, <2>5, <2>6, <2>7, OutLookup DEF Using
<1>4. CASE Serving \/ UNCHANGED vars
    BY <1>2, <1>4 DEF Serving, ServerReuses, vars, cvars
<1>. QED  BY <1>3, <1>4, OutMount DEF Next

(* Every variable of the client has its type, every dentry has its parent,   *)
(* and every process stands at a dentry there is.                            *)
THEOREM MountTypeCorrect ==
    ASSUME Name # {}
    PROVE  Spec => []TypeOK
<1>1. Init => OutInv
    BY DEF Init, OutInv
<1>2. IInv /\ OutInv => TypeOK
  <2>. SUFFICES ASSUME IInv, OutInv PROVE TypeOK
      OBVIOUS
  <2>1. want \in [Process -> Wants]
    <3>1. NoWant.name \in Name
        BY DEF NoWant
    <3>2. Wanted = Wants
        BY <3>1 DEF Wanted, Wants
    <3>. QED  BY <3>2 DEF IInv, TypeInv
  <2>2. \A p \in Process : at[p] # <<>> => at[p] \in DOMAIN dcache
      BY InoAtType DEF IInv, Inside, OutInv
  <2>3. busy \subseteq Type
      BY DEF IInv, MountInv, Type
  <2>4. \A p \in Process : /\ pc[p] = "lookup" => want[p].busy
                           /\ want[p].busy => pc[p] \in {"lookup", "oops"}
      BY DEF IInv, WalkInv
  <2>5. ASSUME NEW d \in DOMAIN dcache, Len(d) > 1
        PROVE  SubSeq(d, 1, Len(d) - 1) \in DOMAIN dcache
    <3>. DEFINE f == SubSeq(d, 1, Len(d) - 1)
    <3>1. PICK p \in Inside : Below(d, at[p])
        BY DEF IInv, WalkInv
    <3>2. d \in Seq(Name) /\ at[p] \in Seq(Name)
        BY DEF IInv, TypeInv, Inside
    <3>3. /\ f \in Seq(Name) /\ Len(f) = Len(d) - 1
          /\ \A k \in 1..(Len(d) - 1) : f[k] = d[k]
        BY <2>5, <3>2, SMT
    <3>. HIDE DEF f
    <3>4. f # <<>> /\ Below(f, d)
        BY <2>5, <3>2, <3>3, SMT DEF Below
    <3>5. Below(f, at[p])
        BY <3>1, <3>2, <3>3, <3>4, BelowOrder
    <3>6. f \in DOMAIN dcache
        BY <3>3, <3>4, <3>5 DEF IInv, WalkInv
    <3>. QED  BY <3>6 DEF f
  <2>. QED  BY <2>1, <2>2, <2>3, <2>4, <2>5 DEF IInv, TypeInv, OutInv, TypeOK
<1>. QED  BY <1>1, <1>2, OutStep, ClientIsSound, PTL DEF Spec
===============================================================================
