----------------------------- MODULE LookupProofs -----------------------------
(*****************************************************************************)
(* vsnfs_lookup keeps the invariant of MountInvariant when it ends: when it  *)
(* fails, when it returns a new dentry, and when the directory it found has  *)
(* one already, which is moved.                                              *)
(*****************************************************************************)
EXTENDS MountInvariant

(* Most steps need no arithmetic; the ones that do name SMT. *)
USE ZenonT(40)

(* A lookup ends without a dentry, or the process dies in it. *)
LEMMA LookupEnds ==
    ASSUME IInv, mnt = "mounted", UNCHANGED mvars,
           NEW p \in Process, pc[p] \in {"in", "lookup"},
           UNCHANGED <<srv_type, inode, dcache, at>>,
           \/ pc' = [pc EXCEPT ![p] = "in"] /\ want' = [want EXCEPT ![p] = NoWant]
           \/ pc' = [pc EXCEPT ![p] = "oops"] /\ want' = want
    PROVE  IInv'
<1>. USE DEF mvars
<1>1. NoWant \in Wanted /\ ~NoWant.busy
    BY Constants DEF NoWant, Wanted, NullFh, Handle, Type
<1>2. TypeInv'
    BY <1>1 DEF IInv, TypeInv
<1>3. Inside' = Inside
    BY DEF IInv, TypeInv, Inside
<1>4. MountInv'
    BY <1>3 DEF IInv, MountInv
<1>5. \A q \in Process : want'[q].busy => /\ want'[q] = want[q]
                                          /\ pc'[q] = pc[q] \/ pc'[q] = "oops"
    BY <1>1 DEF IInv, TypeInv
<1>6. \A q \in Process : pc'[q] = "lookup" => pc[q] = "lookup" /\ want'[q] = want[q]
    BY DEF IInv, TypeInv
<1>7. WalkInv'
    BY <1>3, <1>5, <1>6 DEF IInv, WalkInv
<1>8. LookupDirStays'
  <2>1. ASSUME NEW q \in Process, want'[q].busy PROVE DirStays(q)'
    <3>1. DirStays(q) /\ want'[q] = want[q]
        BY <1>5, <2>1, LookupDirs DEF IInv
    <3>2. InoAt(at[q])' = InoAt(at[q]) /\ SameFile(InoAt(at[q]))
        BY DEF InoAt, SameFile
    <3>. QED  BY <3>1, <3>2, SameDir
  <2>. QED  BY <2>1 DEF LookupDirStays, DirStays
<1>. QED  BY <1>2, <1>4, <1>7, <1>8, InodesUnaffected DEF IInv

(* What vsnfs_fhget makes of the inode it returns. *)
LEMMA FhgetAt ==
    ASSUME NEW h, NEW m, h.ino \in CachedIno, inode \in [CachedIno -> Inodes]
    PROVE  vsnfs_fhget(h, m)[h.ino] =
               IF Cached(h.ino)
                 THEN Taken(inode[h.ino])
                 ELSE IF h.type \in {VSNFS_REG, VSNFS_DIR}
                        THEN Inode(1, h, m)
                        ELSE BadInode(0)
BY DEF vsnfs_fhget

(* A new dentry: its inode has one more reference and one more dentry. *)
LEMMA InstantiateStep ==
    ASSUME IInv, mnt = "mounted", UNCHANGED mvars, UNCHANGED srv_type,
           NEW p \in Process, pc[p] = "lookup", NEW h \in Answers, Aliases(h) = {},
           pc' = [pc EXCEPT ![p] = "in"], want' = [want EXCEPT ![p] = NoWant],
           Instantiate(p, h, Append(at[p], want[p].name))
    PROVE  IInv'
<1>. DEFINE path == Append(at[p], want[p].name)
<1>0. /\ inode' = vsnfs_fhget(h, "heap")
      /\ dcache' = [d \in DOMAIN dcache \cup {path} |->
                        IF d = path THEN h.ino ELSE dcache[d]]
      /\ at' = [at EXCEPT ![p] = path]
    BY DEF Instantiate
<1>1. /\ want[p].busy /\ want[p].name \in Name /\ path \notin DOMAIN dcache
      /\ p \in Inside
    BY DEF IInv, WalkInv, Inside
<1>2. /\ at[p] \in Seq(Name) /\ path \in Seq(Name) /\ path # <<>>
      /\ Len(path) = Len(at[p]) + 1
  <2>1. at[p] \in Seq(Name)
      BY DEF IInv, TypeInv
  <2>. QED  BY <1>1, <2>1, AppendProperties, SMT
<1>3. /\ h.ino \in CachedIno \ {RootIno} /\ h.type \in Type
      /\ h \in [ino : CachedIno, type : Type]
  <2>1. CASE h = NullFh
      BY <2>1, Constants DEF NullFh, Handle, Type
  <2>2. CASE h # NullFh
    <3>1. PICK i \in Ino \ {RootIno} : h = Handle(i, srv_type[i])
        BY <2>2 DEF Answers
    <3>2. srv_type[i] \in Type
        BY DEF IInv, TypeInv
    <3>. QED  BY <3>1, <3>2, Constants DEF Handle
  <2>. QED  BY <2>1, <2>2
<1>4. /\ DOMAIN dcache' = DOMAIN dcache \cup {path}
      /\ dcache'[path] = h.ino
      /\ \A d \in DOMAIN dcache : dcache'[d] = dcache[d]
    BY <1>0, <1>1
<1>5. NoWant \in Wanted /\ ~NoWant.busy
    BY Constants DEF NoWant, Wanted, NullFh, Handle, Type
<1>6. /\ want'[p] = NoWant /\ pc'[p] = "in" /\ at'[p] = path
      /\ \A q \in Process \ {p} :
            want'[q] = want[q] /\ pc'[q] = pc[q] /\ at'[q] = at[q]
    BY <1>0 DEF IInv, TypeInv
<1>7. Inside' = Inside
    BY <1>1, <1>6 DEF Inside
<1>8. inode[h.ino] \in Inodes /\ inode \in [CachedIno -> Inodes]
    BY <1>3 DEF IInv, TypeInv
<1>9. \/ /\ Cached(h.ino)
         /\ inode'[h.ino] = Taken(inode[h.ino])
      \/ /\ ~Cached(h.ino) /\ h.type # 0
         /\ inode'[h.ino] = Inode(1, h, "heap")
      \/ /\ ~Cached(h.ino)
         /\ inode'[h.ino] = BadInode(0)
  <2>. DEFINE new == IF Cached(h.ino)
                       THEN Taken(inode[h.ino])
                       ELSE IF h.type \in {VSNFS_REG, VSNFS_DIR}
                              THEN Inode(1, h, "heap")
                              ELSE BadInode(0)
  <2>0. inode' = vsnfs_fhget(h, "heap") /\ h.ino \in CachedIno
      BY <1>0, <1>3
  <2>1. inode'[h.ino] = new
      BY <1>8, <2>0, FhgetAt
  <2>2. h.type \in {VSNFS_REG, VSNFS_DIR} => h.type # 0
      BY SMT DEF VSNFS_REG, VSNFS_DIR
  <2>. QED  BY <2>1, <2>2
<1>10. /\ inode'[h.ino] \in Inodes
       /\ \A i \in CachedIno \ {h.ino} : inode'[i] = inode[i]
       /\ inode' \in [CachedIno -> Inodes]
  <2>1. /\ Inode(1, h, "heap") \in Inodes
        /\ BadInode(0) \in Inodes
        /\ Taken(inode[h.ino]) \in Inodes
      BY <1>3, <1>8, Constants, SMT DEF Taken, Inode, BadInode, Inodes, NullFh, Handle, Type
  <2>. QED  BY <1>0, <1>3, <1>8, <1>9, <2>1 DEF vsnfs_fhget
<1>11. TypeInv'
  <2>. HIDE DEF path
  <2>0. IsFiniteSet(DOMAIN dcache)
      BY DEF IInv, TypeInv
  <2>1. IsFiniteSet(DOMAIN dcache')
      BY <1>4, <2>0, FS_AddElement
  <2>2. at' \in [Process -> Seq(Name)] /\ want' \in [Process -> Wanted]
      BY <1>0, <1>2, <1>5 DEF IInv, TypeInv
  <2>3. pc' \in [Process -> {"out", "in", "lookup", "oops"}]
      BY <1>0 DEF IInv, TypeInv
  <2>4. \A d \in DOMAIN dcache' : d \in Seq(Name) \ {<<>>} /\
            dcache'[d] \in (CachedIno \cup {Freed}) \ {RootIno}
      BY <1>2, <1>3, <1>4 DEF IInv, TypeInv
  <2>. QED  BY <1>10, <2>1, <2>2, <2>3, <2>4, SMTT(40) DEF IInv, TypeInv
<1>12. MountInv'
  <2>1. SameFile(RootIno)
      BY <1>3, <1>10, Constants DEF SameFile
  <2>. QED  BY <2>1, MountStays
<1>13. WalkInv'
  <2>0. \A d \in Seq(Name) : Below(d, path) <=> d = path \/ Below(d, at[p])
      BY <1>1, <1>2, BelowAppend
  <2>1. ASSUME NEW q \in Inside', NEW d \in Seq(Name) \ {<<>>}, Below(d, at'[q])
        PROVE  d \in DOMAIN dcache'
    <3>. HIDE DEF path
    <3>1. CASE q = p
        BY <1>1, <1>4, <1>6, <2>0, <2>1, <3>1 DEF IInv, WalkInv
    <3>2. CASE q # p
        BY <1>4, <1>6, <1>7, <2>1, <3>2 DEF IInv, WalkInv, Inside
    <3>. QED  BY <3>1, <3>2
  <2>2. ASSUME NEW d \in DOMAIN dcache'
        PROVE  \E q \in Inside' : Below(d, at'[q])
    <3>. HIDE DEF path
    <3>1. CASE d = path
        BY <1>1, <1>2, <1>6, <1>7, <2>0, <3>1
    <3>2. CASE d \in DOMAIN dcache
      <4>1. PICK q \in Inside : Below(d, at[q])
          BY <3>2 DEF IInv, WalkInv
      <4>2. d \in Seq(Name)
          BY <3>2 DEF IInv, TypeInv
      <4>3. Below(d, at'[q])
          BY <1>6, <2>0, <4>1, <4>2 DEF Inside
      <4>. QED  BY <1>7, <4>3
    <3>. QED  BY <1>4, <3>1, <3>2
  <2>3. ASSUME NEW q \in Process, want'[q].busy
        PROVE  q # p /\ Append(at'[q], want'[q].name) \notin DOMAIN dcache'
    <3>1. q # p /\ want[q].busy
        BY <1>5, <1>6, <2>3
    <3>2. /\ at[q] # at[p] /\ want[q].name \in Name /\ at[q] \in Seq(Name)
          /\ Append(at[q], want[q].name) \notin DOMAIN dcache
        BY <1>1, <3>1 DEF IInv, WalkInv, TypeInv
    <3>3. Append(at[q], want[q].name) # path
      <4>. SUFFICES ASSUME Append(at[q], want[q].name) = Append(at[p], want[p].name)
                    PROVE  FALSE
          OBVIOUS
      <4>1. at[q] = at[p]
        <5>1. /\ at[q] \in Seq(Name) /\ at[p] \in Seq(Name)
              /\ want[q].name \in Name /\ want[p].name \in Name
            BY <1>1, <1>2, <3>2
        <5>2. \A s, t \in Seq(Name), m, n \in Name : Append(s, m) = Append(t, n) => s = t
            BY AppendInjective, SMT
        <5>. QED  BY <5>1, <5>2
      <4>. QED  BY <3>2, <4>1
    <3>. QED  BY <1>4, <1>6, <3>1, <3>2, <3>3, SMTT(40)
  <2>. QED  BY <1>6, <2>1, <2>2, <2>3 DEF IInv, WalkInv
<1>14. InodeInv'
  <2>. HIDE DEF path
  <2>1. ASSUME NEW i \in CachedIno \ {h.ino}
        PROVE  InodeOK(i)'
    <3>1. InodeOK(i) /\ SameFile(i)
        BY <1>10 DEF IInv, InodeInv, SameFile
    <3>2. (\A d \in DOMAIN dcache : dcache[d] # i)
            => \A d \in DOMAIN dcache' : dcache'[d] # i
        BY <1>4
    <3>. QED  BY <3>1, <3>2, SameFileOK
  <2>2. InodeOK(h.ino)'
    <3>1. CASE Cached(h.ino)
      <4>1. inode'[h.ino] = Taken(inode[h.ino])
          BY <1>9, <3>1
      <4>2. SameFile(h.ino)
          BY <1>8, <4>1 DEF Taken, Inodes, SameFile
      <4>3. Cached(h.ino)'
          BY <3>1, <4>2 DEF Cached, SameFile
      <4>4. InodeOK(h.ino)
          BY <1>3 DEF IInv, InodeInv
      <4>. QED  BY <4>2, <4>3, <4>4, CachedFileOK
    <3>2. CASE inode'[h.ino] = Inode(1, h, "heap") /\ h.type # 0
        BY <3>2, SMT DEF InodeOK, Cached, Inode
    <3>3. CASE inode'[h.ino] = BadInode(0)
        BY <3>3, SMT DEF InodeOK, Cached, BadInode, NullFh, Handle
    <3>. QED  BY <1>9, <3>1, <3>2, <3>3, SMTT(40)
  <2>. QED  BY <2>1, <2>2 DEF InodeInv
<1>15. RefsBalanced'
  <2>. HIDE DEF path
  <2>1. ASSUME NEW i \in CachedIno, i # h.ino, inode'[i].type # 0
        PROVE  inode'[i].count = Refs(i)'
    <3>1. {d \in DOMAIN dcache' : dcache'[d] = i} = {d \in DOMAIN dcache : dcache[d] = i}
        BY <1>4, <2>1
    <3>. QED  BY <1>10, <2>1, <3>1, SMTT(40)
             DEF IInv, RefsBalanced, Refs, mvars
  <2>2. ASSUME inode'[h.ino].type # 0
        PROVE  inode'[h.ino].count = Refs(h.ino)'
    <3>1. Dentries(h.ino)' = Dentries(h.ino) \cup {path} /\ path \notin Dentries(h.ino)
        BY <1>1, <1>4 DEF Dentries
    <3>2. IsFiniteSet(Dentries(h.ino)) /\ Cardinality(Dentries(h.ino)) \in Nat
        BY DentriesFinite DEF IInv
    <3>3. Cardinality(Dentries(h.ino)') = Cardinality(Dentries(h.ino)) + 1
        BY <3>1, <3>2, FS_AddElement
    <3>4. Refs(h.ino)' = Cardinality(Dentries(h.ino)) + 1
      <4>1. Refs(h.ino)' = Cardinality(Dentries(h.ino)') + 0
          BY <1>3 DEF Refs, Dentries
      <4>. QED  BY <3>2, <3>3, <4>1, SMT
    <3>5. CASE Cached(h.ino)
      <4>1. inode'[h.ino] = Taken(inode[h.ino])
          BY <1>9, <3>5
      <4>2. inode[h.ino].type # 0 /\ inode'[h.ino].count = inode[h.ino].count + 1
          BY <1>8, <2>2, <4>1 DEF Taken, Inodes
      <4>3. inode[h.ino].count = Cardinality(Dentries(h.ino))
        <5>1. inode[h.ino].count = Refs(h.ino)
            BY <1>3, <4>2 DEF IInv, RefsBalanced
        <5>. QED  BY <1>3, <3>2, <5>1, SMTT(40) DEF Refs, Dentries
      <4>. QED  BY <3>4, <4>2, <4>3
    <3>6. CASE ~Cached(h.ino)
      <4>1. inode'[h.ino].count = 1
        <5>1. inode'[h.ino] # BadInode(0)
            BY <2>2, SMT DEF BadInode
        <5>2. inode'[h.ino] = Inode(1, h, "heap")
            BY <1>9, <3>6, <5>1
        <5>. QED  BY <5>2, SMT DEF Inode
      <4>2. Dentries(h.ino) = {}
          BY <1>3, <3>6 DEF IInv, InodeInv, InodeOK, Dentries
      <4>3. Cardinality(Dentries(h.ino)) = 0
          BY <4>2, FS_EmptySet
      <4>. QED  BY <3>4, <4>1, <4>3, SMT
    <3>. QED  BY <3>5, <3>6
  <2>. QED  BY <2>1, <2>2, SMTT(40) DEF RefsBalanced
<1>16. LookupDirStays'
  <2>. HIDE DEF path
  <2>1. ASSUME NEW q \in Process, want'[q].busy PROVE DirStays(q)'
    <3>1. q # p /\ want[q].busy /\ want'[q] = want[q] /\ at'[q] = at[q]
        BY <1>5, <1>6, <2>1
    <3>2. DirStays(q) /\ q \in Inside
        BY <3>1, LookupDirs DEF IInv, WalkInv, Inside
    <3>3. InoAt(at[q])' = InoAt(at[q])
      <4>1. at[q] # <<>> => at[q] \in DOMAIN dcache
          BY <3>2, InoAtType DEF IInv
      <4>. QED  BY <1>4, <3>1, <4>1 DEF InoAt
    <3>4. InoAt(at[q]) \in CachedIno
        BY <3>2, InoAtType DEF IInv, DirStays, IsDir
    <3>5. SameFile(InoAt(at[q]))
      <4>1. CASE InoAt(at[q]) # h.ino
          BY <1>10, <3>4, <4>1 DEF SameFile
      <4>2. CASE InoAt(at[q]) = h.ino
        <5>1. Cached(h.ino)
            BY <3>2, <4>2 DEF DirStays, Cached
        <5>2. inode'[h.ino] = Taken(inode[h.ino])
            BY <1>9, <5>1
        <5>. QED  BY <1>8, <4>2, <5>2 DEF Taken, Inodes, SameFile
      <4>. QED  BY <4>1, <4>2
    <3>. QED  BY <3>1, <3>2, <3>3, <3>5, SameDir, SMTT(40) DEF mvars
  <2>. QED  BY <2>1 DEF LookupDirStays, DirStays
<1>17. DirsUnaliased'
  <2>. HIDE DEF path
  <2>1. ASSUME NEW d \in DOMAIN dcache PROVE dcache[d] # Freed => dcache[d] \in CachedIno
      BY DEF IInv, TypeInv
  <2>2. ASSUME NEW d \in DOMAIN dcache, dcache[d] = h.ino, inode'[h.ino].type = VSNFS_DIR
        PROVE  FALSE
    <3>1. Cached(h.ino)
        BY <1>3, <2>2 DEF IInv, InodeInv, InodeOK
    <3>2. inode[h.ino].type = VSNFS_DIR
      <4>1. inode'[h.ino] = Taken(inode[h.ino])
          BY <1>9, <3>1
      <4>. QED  BY <1>8, <2>2, <4>1 DEF Taken, Inodes
    <3>3. d \in Aliases(h)
        BY <2>2, <3>1, <3>2 DEF Aliases
    <3>. QED  BY <3>3
  <2>3. ASSUME NEW d \in DOMAIN dcache', NEW e \in DOMAIN dcache',
               IsDir(d)', dcache'[d] = dcache'[e]
        PROVE  d = e
    <3>1. d # <<>> /\ e # <<>>
        BY <1>2, <1>4, <2>3 DEF IInv, TypeInv
    <3>2. dcache'[d] # Freed /\ inode'[dcache'[d]].type = VSNFS_DIR
        BY <2>3, <3>1 DEF IsDir, InoAt
    <3>3. CASE dcache'[d] = h.ino
        BY <1>4, <2>2, <2>3, <3>2, <3>3
    <3>4. CASE dcache'[d] # h.ino
      <4>1. /\ d \in DOMAIN dcache /\ e \in DOMAIN dcache
            /\ dcache[d] = dcache[e] /\ dcache'[d] = dcache[d]
          BY <1>4, <2>3, <3>4
      <4>2. inode'[dcache[d]] = inode[dcache[d]]
          BY <1>10, <2>1, <3>2, <3>4, <4>1
      <4>3. IsDir(d)
          BY <3>1, <3>2, <4>1, <4>2 DEF IsDir, InoAt
      <4>. QED  BY <4>1, <4>3 DEF IInv, DirsUnaliased
    <3>. QED  BY <3>3, <3>4
  <2>. QED  BY <2>3 DEF DirsUnaliased
<1>. QED  BY <1>11, <1>12, <1>13, <1>14, <1>15, <1>16, <1>17 DEF IInv

-------------------------------------------------------------------------------
(* Dentries that are put *)

(* vsnfs_dentry_iput changes nothing but the counts. *)
LEMMA IputFields ==
    ASSUME TypeInv, NEW dead \in SUBSET DOMAIN dcache, inode' = vsnfs_dentry_iput(dead)
    PROVE  /\ inode' \in [CachedIno -> Inodes]
           /\ \A i \in CachedIno :
                 /\ SameFile(i)
                 /\ inode'[i].count =
                      inode[i].count - Cardinality({d \in dead : dcache[d] = i})
<1>1. ASSUME NEW i \in CachedIno
      PROVE  /\ inode'[i] \in Inodes
             /\ SameFile(i)
             /\ inode'[i].count =
                  inode[i].count - Cardinality({d \in dead : dcache[d] = i})
  <2>. DEFINE k == Cardinality({d \in dead : dcache[d] = i})
  <2>1. inode'[i] = [inode[i] EXCEPT !.count = @ - k]
      BY DEF vsnfs_dentry_iput
  <2>2. inode[i] \in Inodes /\ k \in Nat
    <3>1. {d \in dead : dcache[d] = i} \in SUBSET DOMAIN dcache
        OBVIOUS
    <3>2. IsFiniteSet({d \in dead : dcache[d] = i})
        BY <3>1, FS_Subset DEF TypeInv
    <3>. QED  BY <3>2, FS_CardinalityType DEF TypeInv
  <2>. HIDE DEF k
  <2>3. inode'[i] \in Inodes /\ SameFile(i) /\ inode'[i].count = inode[i].count - k
      BY <2>1, <2>2, SMT DEF Inodes, SameFile
  <2>. QED  BY <2>3 DEF k
<1>2. DOMAIN inode' = CachedIno /\ inode' = [i \in DOMAIN inode' |-> inode'[i]]
    BY DEF vsnfs_dentry_iput
<1>. QED  BY <1>1, <1>2

(* Each dentry that goes takes one reference with it, so that the counts are *)
(* those of the dentries that stay.                                          *)
LEMMA IputBalanced ==
    ASSUME TypeInv, RefsBalanced, mnt' = mnt, NEW kept \in SUBSET DOMAIN dcache,
           inode' = vsnfs_dentry_iput(DOMAIN dcache \ kept),
           \A i \in CachedIno :
              Cardinality(Dentries(i)') = Cardinality({d \in kept : dcache[d] = i})
    PROVE  RefsBalanced'
<1>. SUFFICES ASSUME NEW i \in CachedIno, inode'[i].type # 0
              PROVE  inode'[i].count = Refs(i)'
    BY DEF RefsBalanced
<1>. DEFINE dead == DOMAIN dcache \ kept
            stay == {d \in kept : dcache[d] = i}
            go   == {d \in dead : dcache[d] = i}
<1>1. /\ inode'[i].type = inode[i].type
      /\ inode'[i].count = inode[i].count - Cardinality(go)
    BY IputFields DEF SameFile
<1>2. stay \in SUBSET DOMAIN dcache /\ go \in SUBSET DOMAIN dcache
    OBVIOUS
<1>3. IsFiniteSet(stay) /\ IsFiniteSet(go)
    BY <1>2, FS_Subset DEF TypeInv
<1>4. Dentries(i) = stay \cup go /\ stay \cap go = {}
    BY DEF Dentries
<1>5. Cardinality(Dentries(i)') = Cardinality(stay)
    OBVIOUS
<1>. HIDE DEF stay, go
<1>6. Cardinality(stay) \in Nat /\ Cardinality(go) \in Nat /\ Cardinality(stay \cap go) = 0
    BY <1>3, <1>4, FS_CardinalityType, FS_EmptySet
<1>7. Cardinality(stay \cup go) =
          Cardinality(stay) + Cardinality(go) - Cardinality(stay \cap go)
    BY <1>3, FS_Union
<1>8. inode[i].count = Refs(i)
    BY <1>1 DEF RefsBalanced
<1>9. /\ Refs(i) = Cardinality(Dentries(i)) + (IF i = RootIno /\ mnt = "mounted" THEN 2 ELSE 0)
      /\ Refs(i)' = Cardinality(Dentries(i)') + (IF i = RootIno /\ mnt = "mounted" THEN 2 ELSE 0)
    BY DEF Refs, Dentries
<1>. QED  BY <1>1, <1>4, <1>5, <1>6, <1>7, <1>8, <1>9, SMT

-------------------------------------------------------------------------------
(* A directory that is moved *)

(* No process and no dentry is below a path that has no dentry. *)
LEMMA NobodyBelow ==
    ASSUME TypeInv, WalkInv, NEW to \in Seq(Name) \ {<<>>}, to \notin DOMAIN dcache
    PROVE  /\ \A q \in Inside : ~Below(to, at[q])
           /\ \A d \in DOMAIN dcache : ~Below(to, d)
<1>1. \A q \in Inside : ~Below(to, at[q])
    BY DEF WalkInv
<1>2. ASSUME NEW d \in DOMAIN dcache, Below(to, d) PROVE FALSE
  <2>1. PICK q \in Inside : Below(d, at[q])
      BY DEF WalkInv
  <2>2. d \in Seq(Name) /\ at[q] \in Seq(Name)
      BY DEF TypeInv, Inside
  <2>3. Below(to, at[q])
      BY <1>2, <2>1, <2>2, BelowOrder
  <2>. QED  BY <1>1, <2>3
<1>. QED  BY <1>1, <1>2

(* The places of the dentries K after the move. *)
MovedAll(K, from, to) == {Moved(k, from, to) : k \in K}

(* d_move loses no dentry: as many are there afterwards. *)
LEMMA MovedSet ==
    ASSUME NEW K, IsFiniteSet(K), NEW from, NEW to,
           \A k \in K : Moved(Moved(k, from, to), to, from) = k
    PROVE  /\ IsFiniteSet(MovedAll(K, from, to))
           /\ Cardinality(MovedAll(K, from, to)) = Cardinality(K)
<1>. DEFINE T == MovedAll(K, from, to)
            f == [k \in K |-> Moved(k, from, to)]
<1>1. f \in [K -> T] /\ \A k \in K : f[k] = Moved(k, from, to)
    BY DEF MovedAll
<1>. HIDE DEF f
<1>2. \A k, l \in K : f[k] = f[l] => k = l
    BY <1>1
<1>3. \A t \in T : \E k \in K : f[k] = t
    BY <1>1 DEF MovedAll
<1>4. f \in Bijection(K, T)
    BY <1>1, <1>2, <1>3 DEF Bijection, Injection, Surjection, IsInjective
<1>. QED  BY <1>4, FS_Bijection DEF ExistsBijection

(* The alias does not lie on the path looked up. *)
LEMMA AliasApart ==
    ASSUME NEW s \in Seq(Name), NEW n \in Name, NEW from \in Seq(Name) \ {<<>>},
           from # Append(s, n), Front(from) = s
    PROVE  ~Below(from, Append(s, n))
<1>1. Append(s, n) \in Seq(Name) /\ Len(Append(s, n)) = Len(s) + 1
    BY SMT
<1>2. Len(from) = Len(s) + 1
    BY SMT DEF Front
<1>. QED  BY <1>1, <1>2, BelowSameLen

(* What is known of the path p looks up: there is no dentry, it lies in p's  *)
(* directory, and nobody else looks it up.                                   *)
PlaceOf(p, to) ==
    /\ to \in Seq(Name) \ {<<>>}
    /\ to \notin DOMAIN dcache
    /\ \A d \in Seq(Name) : Below(d, to) <=> d = to \/ Below(d, at[p])
    /\ \A q \in Process \ {p} : want[q].busy => Append(at[q], want[q].name) # to

(* PlaceOf holds of the path of the lookup. *)
LEMMA LookupPlace ==
    ASSUME IInv, NEW p \in Process, want[p].busy
    PROVE  PlaceOf(p, Append(at[p], want[p].name))
<1>1. /\ want[p].name \in Name /\ at[p] \in Seq(Name)
      /\ Append(at[p], want[p].name) \notin DOMAIN dcache
    BY DEF IInv, WalkInv, TypeInv
<1>2. Append(at[p], want[p].name) \in Seq(Name) \ {<<>>}
    BY <1>1, AppendProperties, SMT
<1>3. \A d \in Seq(Name) : Below(d, Append(at[p], want[p].name)) <=>
                              d = Append(at[p], want[p].name) \/ Below(d, at[p])
    BY <1>1, BelowAppend
<1>4. ASSUME NEW q \in Process \ {p}, want[q].busy
      PROVE  Append(at[q], want[q].name) # Append(at[p], want[p].name)
  <2>1. want[q].name \in Name /\ at[q] \in Seq(Name) /\ at[q] # at[p]
      BY <1>4 DEF IInv, WalkInv, TypeInv
  <2>2. \A s, t \in Seq(Name), m, n \in Name : Append(s, m) = Append(t, n) => s = t
      BY AppendInjective, SMT
  <2>. QED  BY <1>1, <2>1, <2>2
<1>. QED  BY <1>1, <1>2, <1>3, <1>4 DEF PlaceOf

(* The alias goes to the place looked up, with all below it and everybody    *)
(* there; the directories only the alias needed are put.                     *)
LEMMA UnaliasStep ==
    ASSUME IInv, mnt = "mounted", UNCHANGED mvars, UNCHANGED srv_type,
           NEW p \in Process, pc[p] = "lookup",
           pc' = [pc EXCEPT ![p] = "in"], want' = [want EXCEPT ![p] = NoWant],
           NEW from \in DOMAIN dcache, NEW to, PlaceOf(p, to),
           ~Below(from, to), Unalias(p, from, to)
    PROVE  IInv'
<1>. DEFINE M(d) == Moved(d, from, to)
            where == [q \in Process |-> IF q = p THEN to ELSE M(at[q])]
            kept == {d \in DOMAIN dcache : \E q \in Inside : Below(M(d), where[q])}
<1>1. want[p].busy /\ to \notin DOMAIN dcache /\ p \in Inside
    BY DEF IInv, WalkInv, PlaceOf, Inside
<1>2. to \in Seq(Name) \ {<<>>} /\ from \in Seq(Name) \ {<<>>}
    BY DEF IInv, TypeInv, PlaceOf
<1>3. /\ \A q \in Inside : ~Below(to, at[q])
      /\ \A d \in DOMAIN dcache : ~Below(to, d)
    BY <1>1, <1>2, NobodyBelow DEF IInv
<1>4. ASSUME NEW d \in Seq(Name)
      PROVE  /\ M(d) \in Seq(Name)
             /\ ~Below(from, d) => M(d) = d
             /\ Below(from, d) => Below(to, M(d))
             /\ ~Below(to, d) => Moved(M(d), to, from) = d
             /\ d # <<>> => M(d) # <<>>
             /\ d = <<>> => M(d) = <<>>
  <2>1. /\ M(d) \in Seq(Name)
        /\ ~Below(from, d) => M(d) = d
        /\ Below(from, d) => Below(to, M(d))
        /\ ~Below(to, d) => Moved(M(d), to, from) = d
      BY <1>2, MovedBelow, MovedStays, MovedBack
  <2>2. ~Below(from, <<>>) /\ ~Below(to, <<>>)
      BY <1>2, SMT DEF Below
  <2>. QED  BY <2>1, <2>2
<1>5. /\ inode' = vsnfs_dentry_iput(DOMAIN dcache \ kept)
      /\ dcache' = [d \in {M(k) : k \in kept} |-> dcache[Moved(d, to, from)]]
      /\ at' = where
    BY DEF Unalias
<1>6. kept \in SUBSET DOMAIN dcache
    OBVIOUS
<1>7. /\ at'[p] = to
      /\ \A q \in Process \ {p} : at'[q] = M(at[q])
    BY <1>5
<1>8. \A d \in DOMAIN dcache : d \in kept <=> \E q \in Inside : Below(M(d), at'[q])
    BY <1>5
<1>. HIDE DEF kept, where
<1>9. \A d \in DOMAIN dcache : /\ d \in Seq(Name) \ {<<>>}
                               /\ M(d) \in Seq(Name) \ {<<>>}
                               /\ Moved(M(d), to, from) = d
    BY <1>3, <1>4 DEF IInv, TypeInv
<1>10. /\ DOMAIN dcache' = {M(k) : k \in kept}
       /\ \A k \in kept : M(k) \in DOMAIN dcache' /\ dcache'[M(k)] = dcache[k]
    BY <1>5, <1>6, <1>9
<1>11. /\ \A q \in Process \ {p} : want'[q] = want[q] /\ pc'[q] = pc[q]
       /\ want'[p] = NoWant /\ ~NoWant.busy /\ NoWant \in Wanted /\ pc'[p] = "in"
  <2>1. NoWant \in Wanted /\ ~NoWant.busy
      BY Constants DEF NoWant, Wanted, NullFh, Handle, Type
  <2>. QED  BY <2>1 DEF IInv, TypeInv
<1>12. Inside' = Inside
    BY <1>1, <1>11 DEF Inside
<1>13. /\ inode' \in [CachedIno -> Inodes]
       /\ \A i \in CachedIno : SameFile(i)
    BY <1>5, <1>6, IputFields DEF IInv
<1>14. IsFiniteSet(kept)
    BY <1>6, FS_Subset DEF IInv, TypeInv
<1>. HIDE DEF M
<1>15. TypeInv'
  <2>1. IsFiniteSet(DOMAIN dcache')
    <3>1. \A k \in kept : Moved(Moved(k, from, to), to, from) = k
        BY <1>6, <1>9 DEF M
    <3>2. DOMAIN dcache' = MovedAll(kept, from, to)
        BY <1>10 DEF M, MovedAll
    <3>3. IsFiniteSet(MovedAll(kept, from, to))
        BY <1>14, <3>1, MovedSet
    <3>. QED  BY <3>2, <3>3
  <2>2. at' \in [Process -> Seq(Name)]
    <3>1. \A q \in Process : at[q] \in Seq(Name)
        BY DEF IInv, TypeInv
    <3>2. \A q \in Process : M(at[q]) \in Seq(Name)
        BY <1>4, <3>1
    <3>. QED  BY <1>2, <1>5, <3>2 DEF where
  <2>3. want' \in [Process -> Wanted] /\ pc' \in [Process -> {"out", "in", "lookup", "oops"}]
      BY <1>11 DEF IInv, TypeInv
  <2>4. \A d \in DOMAIN dcache' : d \in Seq(Name) \ {<<>>} /\
            dcache'[d] \in (CachedIno \cup {Freed}) \ {RootIno}
    <3>1. \A k \in kept : /\ M(k) \in Seq(Name) \ {<<>>}
                         /\ dcache[k] \in (CachedIno \cup {Freed}) \ {RootIno}
        BY <1>6, <1>9 DEF IInv, TypeInv
    <3>. QED  BY <1>10, <3>1
  <2>. QED  BY <1>13, <2>1, <2>2, <2>3, <2>4 DEF IInv, TypeInv
<1>16. MountInv'
    BY <1>13, Constants, MountStays
<1>17. WalkInv'
  <2>1. ASSUME NEW d \in Seq(Name) \ {<<>>}, Below(d, to)
        PROVE  d \in DOMAIN dcache'
    <3>1. CASE d = to
      <4>1. M(from) = to
          BY <1>2, MovedItself DEF M
      <4>2. Below(to, at'[p])
          BY <1>2, <1>7, BelowOrder
      <4>. QED  BY <1>1, <1>8, <1>10, <3>1, <4>1, <4>2
    <3>2. CASE d # to
      <4>1. Below(d, at[p])
          BY <2>1, <3>2 DEF PlaceOf
      <4>2. d \in DOMAIN dcache
          BY <1>1, <4>1 DEF IInv, WalkInv
      <4>3. ~Below(from, d)
          BY <1>2, <2>1, BelowOrder
      <4>4. M(d) = d
          BY <1>4, <4>3
      <4>5. Below(M(d), at'[p])
          BY <1>7, <2>1, <4>4
      <4>6. d \in kept
          BY <1>1, <1>8, <4>2, <4>5
      <4>. QED  BY <1>10, <4>4, <4>6
    <3>. QED  BY <3>1, <3>2
  <2>2. ASSUME NEW q \in Inside, q # p, NEW d \in Seq(Name) \ {<<>>}, Below(d, at'[q])
        PROVE  d \in DOMAIN dcache'
    <3>1. at[q] \in Seq(Name) /\ at'[q] = M(at[q])
        BY <1>7, <2>2 DEF IInv, TypeInv, Inside
    <3>2. CASE ~Below(from, at[q])
      <4>1. at'[q] = at[q]
          BY <1>4, <3>1, <3>2
      <4>2. d \in DOMAIN dcache
          BY <2>2, <4>1 DEF IInv, WalkInv
      <4>3. ~Below(from, d)
          BY <1>2, <2>2, <3>1, <3>2, <4>1, BelowOrder
      <4>4. M(d) = d
          BY <1>4, <4>3
      <4>. QED  BY <1>8, <1>10, <2>2, <4>2, <4>4
    <3>3. CASE Below(from, at[q])
      <4>1. \/ Below(d, to)
            \/ \E y \in Seq(Name) : Below(from, y) /\ Below(y, at[q]) /\ M(y) = d
        <5>1. Below(d, Moved(at[q], from, to))
            BY <2>2, <3>1 DEF M
        <5>2. \/ Below(d, to)
              \/ \E y \in Seq(Name) : /\ Below(from, y) /\ Below(y, at[q])
                                       /\ Moved(y, from, to) = d
            BY <1>2, <3>1, <3>3, <5>1, MovedWay, SMT
        <5>. QED  BY <5>2 DEF M
      <4>2. ASSUME NEW y \in Seq(Name), Below(from, y), Below(y, at[q]), M(y) = d
            PROVE  d \in DOMAIN dcache'
        <5>1. y # <<>>
            BY <1>4, <4>2
        <5>2. y \in DOMAIN dcache
            BY <4>2, <5>1 DEF IInv, WalkInv
        <5>. QED  BY <1>8, <1>10, <2>2, <4>2, <5>2
      <4>. QED  BY <2>1, <4>1, <4>2
    <3>. QED  BY <3>2, <3>3
  <2>3. \A q \in Inside', d \in Seq(Name) \ {<<>>} : Below(d, at'[q]) => d \in DOMAIN dcache'
      BY <1>7, <1>12, <2>1, <2>2
  <2>4. \A d \in DOMAIN dcache' : \E q \in Inside' : Below(d, at'[q])
      BY <1>6, <1>8, <1>10, <1>12
  <2>5. ASSUME NEW q \in Process, want'[q].busy
        PROVE  /\ q # p /\ q \in Inside /\ want[q].busy /\ want'[q] = want[q]
               /\ at[q] \in Seq(Name) /\ want[q].name \in Name
               /\ at[q] # at[p] /\ Append(at[q], want[q].name) \notin DOMAIN dcache
      BY <1>1, <1>11, <2>5 DEF IInv, WalkInv, TypeInv, Inside
  <2>6. ASSUME NEW q \in Process, want'[q].busy
        PROVE  Append(at'[q], want'[q].name) \notin DOMAIN dcache'
    <3>. DEFINE z == Append(at[q], want[q].name)
    <3>0. /\ q # p /\ q \in Inside /\ want'[q] = want[q] /\ at[q] # at[p]
          /\ at[q] \in Seq(Name) /\ want[q].name \in Name /\ z \notin DOMAIN dcache
        BY <2>5, <2>6
    <3>1. z \in Seq(Name)
        BY <3>0, AppendProperties
    <3>2. z # to
        BY <2>5, <2>6 DEF PlaceOf
    <3>3. ~Below(to, z)
      <4>1. Below(to, z) <=> to = z \/ Below(to, at[q])
          BY <1>2, <3>0, BelowAppend
      <4>. QED  BY <1>3, <3>0, <3>2, <4>1
    <3>4. Append(at'[q], want'[q].name) = M(z)
      <4>1. at'[q] = M(at[q]) /\ want'[q].name = want[q].name
          BY <1>7, <3>0
      <4>2. CASE Below(from, at[q])
        <5>1. Moved(z, from, to) = Append(Moved(at[q], from, to), want[q].name)
            BY <1>2, <3>0, <4>2, MovedAppend, SMT
        <5>. QED  BY <4>1, <5>1 DEF M
      <4>3. CASE ~Below(from, at[q])
        <5>1. ~Below(from, z)
          <6>1. Below(from, z) <=> from = z \/ Below(from, at[q])
              BY <1>2, <3>0, BelowAppend
          <6>. QED  BY <3>0, <4>3, <6>1
        <5>. QED  BY <1>4, <3>0, <3>1, <4>1, <4>3, <5>1
      <4>. QED  BY <4>2, <4>3
    <3>5. Moved(M(z), to, from) = z
        BY <1>4, <3>1, <3>3
    <3>. HIDE DEF z
    <3>6. ASSUME NEW k \in kept, M(z) = M(k) PROVE FALSE
        BY <1>6, <1>9, <3>0, <3>5, <3>6
    <3>. QED  BY <1>10, <3>4, <3>6
  <2>7. ASSUME NEW q \in Process, NEW r \in Process, want'[q].busy, want'[r].busy,
               at'[q] = at'[r]
        PROVE  q = r
    <3>1. M(at[q]) = M(at[r])
        BY <1>7, <2>5, <2>7
    <3>2. Moved(M(at[q]), to, from) = at[q] /\ Moved(M(at[r]), to, from) = at[r]
        BY <1>3, <1>4, <2>5, <2>7
    <3>3. at[q] = at[r]
        BY <3>1, <3>2
    <3>. QED  BY <2>5, <2>7, <3>3 DEF IInv, WalkInv
  <2>8. \A q \in Process : /\ pc'[q] = "lookup" => want'[q].busy
                           /\ want'[q].busy => /\ pc'[q] \in {"lookup", "oops"}
                                               /\ want'[q].name \in Name
      BY <1>11, <2>5 DEF IInv, WalkInv
  <2>. QED  BY <2>3, <2>4, <2>6, <2>7, <2>8 DEF WalkInv
<1>18. InodeInv'
  <2>1. ASSUME NEW i \in CachedIno PROVE InodeOK(i)'
    <3>1. (\A d \in DOMAIN dcache : dcache[d] # i)
            => \A d \in DOMAIN dcache' : dcache'[d] # i
        BY <1>6, <1>10
    <3>. QED  BY <1>13, <3>1, SameFileOK DEF IInv, InodeInv
  <2>. QED  BY <2>1 DEF InodeInv
<1>19. RefsBalanced'
  <2>1. ASSUME NEW i \in CachedIno
        PROVE  Cardinality(Dentries(i)') = Cardinality({d \in kept : dcache[d] = i})
    <3>. DEFINE K == {d \in kept : dcache[d] = i}
    <3>1. K \in SUBSET kept
        OBVIOUS
    <3>2. IsFiniteSet(K)
        BY <1>14, <3>1, FS_Subset
    <3>3. Dentries(i)' = {M(k) : k \in K}
        BY <1>10 DEF Dentries
    <3>. HIDE DEF K
    <3>4. \A k \in K : Moved(M(k), to, from) = k
        BY <1>6, <1>9, <3>1
    <3>5. Cardinality(Dentries(i)') = Cardinality(K)
      <4>1. \A k \in K : Moved(Moved(k, from, to), to, from) = k
          BY <3>4 DEF M
      <4>2. Dentries(i)' = MovedAll(K, from, to)
          BY <3>3 DEF M, MovedAll
      <4>3. Cardinality(MovedAll(K, from, to)) = Cardinality(K)
          BY <3>2, <4>1, MovedSet
      <4>. QED  BY <4>2, <4>3
    <3>. QED  BY <3>5 DEF K
  <2>. QED  BY <1>5, <1>6, <2>1, IputBalanced DEF IInv, mvars
<1>20. LookupDirStays'
  <2>1. ASSUME NEW q \in Process, want'[q].busy PROVE DirStays(q)'
    <3>1. q # p /\ want[q].busy /\ want'[q] = want[q] /\ q \in Inside
      <4>1. q # p /\ want'[q] = want[q] /\ want[q].busy
          BY <1>11, <2>1
      <4>2. pc[q] \in {"lookup", "oops"}
          BY <4>1 DEF IInv, WalkInv
      <4>. QED  BY <4>1, <4>2 DEF Inside
    <3>2. DirStays(q) /\ at[q] \in Seq(Name) /\ (at[q] # <<>> => at[q] \in DOMAIN dcache)
          /\ InoAt(at[q]) \in CachedIno \cup {Freed}
        BY <3>1, LookupDirs, InoAtType DEF IInv
    <3>3. at'[q] = M(at[q])
        BY <1>7, <3>1
    <3>4. InoAt(at[q])' = InoAt(at[q])
      <4>1. CASE at[q] = <<>>
          BY <1>4, <3>2, <3>3, <4>1 DEF InoAt
      <4>2. CASE at[q] # <<>>
        <5>1. M(at[q]) \in Seq(Name) /\ M(at[q]) # <<>>
            BY <1>4, <3>2, <4>2
        <5>2. Below(M(at[q]), at'[q])
            BY <3>3, <5>1, BelowOrder
        <5>3. at[q] \in kept
            BY <1>8, <3>1, <3>2, <4>2, <5>2
        <5>4. dcache'[at'[q]] = dcache[at[q]]
            BY <1>10, <3>3, <5>3
        <5>. QED  BY <3>3, <4>2, <5>1, <5>4 DEF InoAt
      <4>. QED  BY <4>1, <4>2
    <3>5. InoAt(at[q]) \in CachedIno
        BY <3>2 DEF DirStays, IsDir
    <3>. QED  BY <1>13, <3>1, <3>2, <3>4, <3>5, SameDir DEF mvars
  <2>. QED  BY <2>1 DEF LookupDirStays, DirStays
<1>21. DirsUnaliased'
  <2>1. ASSUME NEW x \in DOMAIN dcache', NEW y \in DOMAIN dcache',
               IsDir(x)', dcache'[x] = dcache'[y]
        PROVE  x = y
    <3>1. PICK d \in kept : x = M(d)
        BY <1>10
    <3>2. PICK e \in kept : y = M(e)
        BY <1>10
    <3>3. /\ d \in DOMAIN dcache /\ e \in DOMAIN dcache /\ d # <<>> /\ x # <<>>
          /\ dcache'[x] = dcache[d] /\ dcache'[y] = dcache[e]
        BY <1>6, <1>9, <1>10, <3>1, <3>2
    <3>4. dcache[d] # Freed /\ inode'[dcache[d]].type = VSNFS_DIR
        BY <2>1, <3>3 DEF IsDir, InoAt
    <3>5. dcache[d] \in CachedIno
        BY <3>3, <3>4 DEF IInv, TypeInv
    <3>6. IsDir(d)
        BY <1>13, <3>3, <3>4, <3>5 DEF IsDir, InoAt, SameFile
    <3>7. d = e
        BY <2>1, <3>3, <3>6 DEF IInv, DirsUnaliased
    <3>. QED  BY <3>1, <3>2, <3>7
  <2>. QED  BY <2>1 DEF DirsUnaliased
<1>. QED  BY <1>15, <1>16, <1>17, <1>18, <1>19, <1>20, <1>21 DEF IInv

-------------------------------------------------------------------------------
(* The RPC of vsnfs_lookup returns *)

(* The outcomes of a lookup whose answer is a handle. *)
LEMMA LookupReturnsStep ==
    ASSUME IInv, mnt = "mounted", UNCHANGED mvars,
           NEW p \in Process, LookupReturns(p)
    PROVE  IInv'
<1>. DEFINE path == Append(at[p], want[p].name)
<1>1. PICK h \in Answers :
        /\ pc[p] = "lookup"
        /\ \/ /\ pc' = [pc EXCEPT ![p] = "oops"]
              /\ UNCHANGED <<inode, dcache, at, want>>
           \/ /\ \/ UNCHANGED <<inode, dcache, at>>
                 \/ d_materialise_unique(p, h, path)
              /\ pc' = [pc EXCEPT ![p] = "in"]
              /\ want' = [want EXCEPT ![p] = NoWant]
        /\ UNCHANGED srv_type
    BY DEF LookupReturns
<1>2. pc[p] \in {"in", "lookup"} /\ srv_type' = srv_type
    BY <1>1
<1>3. CASE /\ pc' = [pc EXCEPT ![p] = "oops"]
           /\ UNCHANGED <<inode, dcache, at, want>>
  <2>1. UNCHANGED <<srv_type, inode, dcache, at>> /\ want' = want
      BY <1>2, <1>3
  <2>. QED  BY <1>2, <1>3, <2>1, LookupEnds
<1>4. ASSUME UNCHANGED <<inode, dcache, at>>,
             pc' = [pc EXCEPT ![p] = "in"], want' = [want EXCEPT ![p] = NoWant]
      PROVE  IInv'
  <2>1. UNCHANGED <<srv_type, inode, dcache, at>>
      BY <1>2, <1>4
  <2>. QED  BY <1>2, <1>4, <2>1, LookupEnds
<1>5. ASSUME d_materialise_unique(p, h, path),
             pc' = [pc EXCEPT ![p] = "in"], want' = [want EXCEPT ![p] = NoWant]
      PROVE  IInv'
  <2>1. CASE Aliases(h) = {} /\ Instantiate(p, h, path)
      BY <1>1, <1>5, <2>1, InstantiateStep
  <2>2. ASSUME NEW alias \in Aliases(h),
               Front(alias) = at[p] \/ ~Below(alias, path), Unalias(p, alias, path)
        PROVE  IInv'
    <3>1. want[p].busy
        BY <1>1 DEF IInv, WalkInv
    <3>2. PlaceOf(p, path)
        BY <3>1, LookupPlace
    <3>3. alias \in DOMAIN dcache
        BY DEF Aliases
    <3>4. ~Below(alias, path)
      <4>1. CASE Front(alias) = at[p]
        <5>1. at[p] \in Seq(Name) /\ want[p].name \in Name
            BY <3>1 DEF IInv, TypeInv, WalkInv
        <5>2. alias \in Seq(Name) \ {<<>>} /\ alias # path
            BY <3>2, <3>3 DEF IInv, TypeInv, PlaceOf
        <5>. QED  BY <4>1, <5>1, <5>2, AliasApart
      <4>. QED  BY <2>2, <4>1
    <3>. HIDE DEF path
    <3>. QED  BY <1>1, <1>5, <2>2, <3>2, <3>3, <3>4, UnaliasStep
  <2>3. CASE UNCHANGED <<inode, dcache, at>>
      BY <1>4, <1>5, <2>3
  <2>. HIDE DEF path
  <2>. QED  BY <1>5, <2>1, <2>2, <2>3 DEF d_materialise_unique
<1>. HIDE DEF path
<1>. QED  BY <1>1, <1>3, <1>4, <1>5
===============================================================================
