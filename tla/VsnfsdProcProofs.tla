--------------------------- MODULE VsnfsdProcProofs ---------------------------
(***************************************************************************)
(* What holds of the server procedures for every file system, every mount   *)
(* path and every environment, and what holds in addition while local users *)
(* only add files.                                                          *)
(***************************************************************************)
EXTENDS VsnfsdProc, TLAPS

-------------------------------------------------------------------------------
(* Types of the operators *)

(* Paths are sequences of names, and the other way round up to MaxDepth. *)
LEMMA PathSeq ==
    /\ \A p \in Path : p \in Seq(Name) /\ Len(p) <= MaxDepth
    /\ \A p \in Seq(Name) : Len(p) <= MaxDepth => p \in Path
  <1>1. ASSUME NEW p \in Path PROVE p \in Seq(Name) /\ Len(p) <= MaxDepth
    <2>1. PICK k \in 0..MaxDepth : p \in [1..k -> Name]
      BY DEF Path
    <2> QED
      BY <2>1, ConstantsAssumption
  <1>2. ASSUME NEW p \in Seq(Name), Len(p) <= MaxDepth PROVE p \in Path
    <2>1. p \in [1..Len(p) -> Name] /\ Len(p) \in 0..MaxDepth
      BY <1>2, ConstantsAssumption
    <2> QED
      BY <2>1 DEF Path
  <1> QED
    BY <1>1, <1>2

(* The file system gives an inode number of its own, or none. *)
LEMMA InoAtType ==
    ASSUME TypeOK, NEW p
    PROVE  InoAt(p) \in Ino \cup {NoIno}
  BY DEF TypeOK, InoAt

(* A walk, failed or not, ends at an inode or at a dentry without one. *)
LEMMA PathLookupType ==
    ASSUME TypeOK, NEW p, NEW s, NEW w \in path_lookup(p, s)
    PROVE  w.ok \in BOOLEAN /\ w.ino \in Ino \cup {NoIno}
  <1>1. \A i \in LastReached(p) : i \in Ino \cup {NoIno}
    BY InoAtType DEF LastReached
  <1>2. CASE Resolves(p, s)
    <2>1. CASE w = [ok |-> TRUE, ino |-> InoAt(p)]
      BY <2>1, InoAtType
    <2>2. CASE w = [ok |-> FALSE, ino |-> NoIno]
      BY <2>2
    <2> QED
      BY <1>2, <2>1, <2>2, Zenon DEF path_lookup
  <1>3. CASE ~Resolves(p, s)
    <2>1. PICK i \in LastReached(p) \cup {NoIno} : w = [ok |-> FALSE, ino |-> i]
      BY <1>3, Zenon DEF path_lookup
    <2> QED
      BY <1>1, <2>1
  <1> QED
    BY <1>2, <1>3

(* What the server makes of an inode is a handle. *)
LEMMA FhType ==
    ASSUME TypeOK, NEW i \in Ino
    PROVE  Fh(i) \in Handles /\ FileId(i) \in FileIds
  <1>1. FileId(i) \in FileIds
    BY DEF TypeOK, FileId, FileIds
  <1>2. HandleType(kind[i]) \in {0, VSNFS_REG, VSNFS_DIR}
    BY DEF HandleType
  <1> QED
    BY <1>1, <1>2 DEF Fh, Handles

LEMMA NullType == NullFh \in Handles /\ NoFile \in FileIds
  <1>1. NoFile \in FileIds
    BY ConstantsAssumption DEF NoFile, FileIds, NoIno
  <1> QED
    BY <1>1 DEF NullFh, Handles

(* Following a node's path with a name gives a path string. *)
LEMMA ExtendType ==
    ASSUME NEW node \in Nodes, NEW n \in Name
    PROVE  Extend(node, n) \in Seq(Name \cup {NoName})
  <1> DEFINE S == Name \cup {NoName}
  <1>1. node.path \in Seq(S)
    BY DEF Nodes
  <1>2. ASSUME NEW m PROVE Concat(m, n) \in S
    <2>1. \A c \in DOMAIN Cat : Cat[c] \in Name
      BY ConstantsAssumption
    <2> QED
      BY <2>1, Zenon DEF Concat
  <1>3. Append(node.path, n) \in Seq(S)
    BY <1>1
  <1>4. [node.path EXCEPT ![Len(node.path)] = Concat(@, n)] \in Seq(S)
    <2> DEFINE c == Concat(node.path[Len(node.path)], n)
    <2>1. c \in S
      BY <1>2
    <2> HIDE DEF c
    <2>2. node.path \in [1..Len(node.path) -> S] /\ Len(node.path) \in Nat
      BY <1>1
    <2>3. [node.path EXCEPT ![Len(node.path)] = c] \in [1..Len(node.path) -> S]
      BY <2>1, <2>2
    <2>4. [node.path EXCEPT ![Len(node.path)] = c] \in Seq(S)
      BY <2>2, <2>3
    <2> QED
      BY <2>4 DEF c
  <1> QED
    BY <1>3, <1>4 DEF Extend

(* A reply, and the sets of handles after it. *)
LEMMA AnswerType ==
    ASSUME NEW proc \in Procs, NEW ok \in BOOLEAN, NEW via \in Handles,
           NEW fh \in Handles, NEW file \in FileIds,
           Answer(proc, ok, via, fh, file)
    PROVE  /\ reply' \in Replies
           /\ reply'.ok = ok
           /\ ok => reply'.fh = fh
           /\ reply'.proc = proc /\ reply'.via = via
           /\ reply'.file = IF ok THEN file ELSE NoFile
  <1>1. reply' = [proc |-> proc, ok |-> ok, via |-> via,
                  fh |-> IF ok THEN fh ELSE NullFh,
                  file |-> IF ok THEN file ELSE NoFile, offset |-> 0, pos |-> 0]
    BY DEF Answer, NoReply
  <1>2. (IF ok THEN fh ELSE NullFh) \in Handles
    BY NullType
  <1>3. (IF ok THEN file ELSE NoFile) \in FileIds
    BY NullType
  <1> QED
    BY <1>1, <1>2, <1>3 DEF Replies

LEMMA ErrorType ==
    ASSUME NEW proc \in Procs, NEW via \in Handles, Error(proc, via)
    PROVE  reply' \in Replies /\ reply'.ok = FALSE
  <1>1. Answer(proc, FALSE, via, NullFh, NoFile)
    BY DEF Error
  <1> QED
    BY <1>1, AnswerType, NullType

LEMMA NoReplyType == NoReply \in Replies /\ NoReply.ok = FALSE
  BY NullType DEF NoReply, Replies, Procs

(* Adding the handle of a good reply to a set of handles. *)
LEMMA SentType ==
    ASSUME NEW S \in SUBSET Handles, reply' \in Replies
    PROVE  Sent(S) \in SUBSET Handles /\ S \subseteq Sent(S)
  BY DEF Sent, Replies

-------------------------------------------------------------------------------
(* Type correctness *)

LEMMA OopsType == TypeOK /\ Oops => TypeOK'
  BY NoReplyType DEF TypeOK, Oops, fs

LEMMA QuietType ==
    TypeOK /\ Quiet /\ lost_refs' \in BOOLEAN /\ reply' \in Replies => TypeOK'
  BY DEF TypeOK, Quiet, fs

LEMMA UnchangedType == TypeOK /\ Unchanged /\ reply' \in Replies => TypeOK'
  BY QuietType DEF TypeOK, Unchanged

LEMMA PutPathType ==
    ASSUME TypeOK, NEW w, PutPath(w)
    PROVE  lost_refs' \in BOOLEAN
  BY DEF TypeOK, PutPath

LEMMA GetrootType ==
    ASSUME TypeOK, NEW p \in MountPath, vsnfsd_proc_getroot(p)
    PROVE  TypeOK'
  <1>1. "getroot" \in Procs /\ NullFh \in Handles
    BY NullType DEF Procs
  <1>2. CASE KmallocFails /\ Error("getroot", NullFh) /\ Unchanged
    BY <1>1, <1>2, ErrorType, UnchangedType
  <1>3. ASSUME NEW w \in path_lookup(p, TRUE), GetrootWalked(p, w)
        PROVE  TypeOK'
    <2>1. w.ok \in BOOLEAN /\ w.ino \in Ino \cup {NoIno}
      BY PathLookupType
    <2>2. CASE Oops
      BY <2>2, OopsType
    <2>3. CASE Error("getroot", NullFh) /\ PutPath(w) /\ Quiet
      BY <1>1, <2>3, ErrorType, PutPathType, QuietType
    <2>4. ASSUME w.ino # NoIno,
                 lp_init' = TRUE,
                 PutPath(w),
                 daemon' \in {daemon, "oops"},
                 \/ reply' = NoReply /\ lp_tab' = {}
                 \/ Error("getroot", NullFh) /\ lp_tab' = {}
                 \/ /\ Answer("getroot", w.ok, NullFh, Fh(w.ino), FileId(w.ino))
                    /\ lp_tab' = {Node(w.ino, p, TRUE)},
                 issued' = Sent(issued),
                 live' = Sent({}),
                 UNCHANGED fs
          PROVE  TypeOK'
      <3>1. w.ino \in Ino /\ Fh(w.ino) \in Handles /\ FileId(w.ino) \in FileIds
        BY <2>1, <2>4, FhType
      <3>2. reply' \in Replies
        BY <1>1, <2>1, <2>4, <3>1, ErrorType, AnswerType, NoReplyType
      <3>3. Node(w.ino, p, TRUE) \in Nodes
        <4>1. p \in Seq(Name)
          BY PathSeq, ConstantsAssumption
        <4>2. p \in Seq(Name \cup {NoName})
          BY <4>1
        <4> QED
          BY <3>1, <4>2 DEF Node, Nodes
      <3>4. lp_tab' \subseteq Nodes
        BY <2>4, <3>3
      <3>5. issued' \subseteq Handles /\ live' \subseteq issued'
        BY <2>4, <3>2, SentType DEF TypeOK, Sent
      <3>6. lost_refs' \in BOOLEAN
        BY <2>4, PutPathType
      <3> QED
        BY <2>4, <3>2, <3>4, <3>5, <3>6 DEF TypeOK, fs
    <2> QED
      BY <1>3, <2>2, <2>3, <2>4 DEF GetrootWalked
  <1> QED
    BY <1>2, <1>3 DEF vsnfsd_proc_getroot

LEMMA LookupType ==
    ASSUME TypeOK, NEW h \in issued, NEW n \in Name, vsnfsd_proc_lookup(h, n)
    PROVE  TypeOK'
  <1>1. "lookup" \in Procs /\ h \in Handles
    BY DEF Procs, TypeOK
  <1>2. CASE Oops
    BY <1>2, OopsType
  <1>3. CASE Error("lookup", h) /\ Unchanged
    BY <1>1, <1>3, ErrorType, UnchangedType
  <1>4. CASE /\ Answer("lookup", TRUE, h, NullFh, NoFile)
             /\ issued' = Sent(issued)
             /\ live' = Sent(live)
             /\ UNCHANGED <<fs, lp_init, lp_tab, daemon, lost_refs>>
    <2>1. reply' \in Replies
      BY <1>1, <1>4, AnswerType, NullType
    <2>2. issued' \subseteq Handles /\ live' \subseteq issued'
      BY <1>4, <2>1, SentType DEF TypeOK, Sent
    <2> QED
      BY <1>4, <2>1, <2>2 DEF TypeOK, fs
  <1>5. ASSUME NEW node \in lp_tab,
               NEW w \in path_lookup(Extend(node, n), FALSE),
               LookupWalked(h, Extend(node, n), w)
        PROVE  TypeOK'
    <2> DEFINE p == Extend(node, n)
               d == InoAt(SubSeq(p, 1, Len(p) - 1))
               f == IF d = NoIno THEN NoFile ELSE FileId(d)
    <2>1. w.ok \in BOOLEAN /\ w.ino \in Ino \cup {NoIno}
      BY PathLookupType
    <2>2. CASE Error("lookup", h) /\ PutPath(w) /\ Quiet
      BY <1>1, <2>2, ErrorType, PutPathType, QuietType
    <2>3. ASSUME w.ino # NoIno,
                 Answer("lookup", w.ok, h, Fh(w.ino), f),
                 lp_tab' = IF InTable(w.ino) THEN lp_tab
                           ELSE lp_tab \cup {Node(w.ino, p, kind[w.ino] = "dir")},
                 issued' = Sent(issued),
                 live' = Sent(live),
                 PutPath(w),
                 UNCHANGED <<fs, lp_init, daemon>>
          PROVE  TypeOK'
      <3>1. w.ino \in Ino /\ Fh(w.ino) \in Handles
        BY <2>1, <2>3, FhType
      <3>2. f \in FileIds
        BY InoAtType, FhType, NullType
      <3>3. reply' \in Replies
        BY <1>1, <2>1, <2>3, <3>1, <3>2, AnswerType
      <3>4. Node(w.ino, p, kind[w.ino] = "dir") \in Nodes
        <4>1. p \in Seq(Name \cup {NoName})
          BY ExtendType DEF TypeOK
        <4> HIDE DEF p
        <4> QED
          BY <3>1, <4>1 DEF Node, Nodes
      <3>5. lp_tab' \subseteq Nodes
        BY <2>3, <3>4 DEF TypeOK
      <3>6. issued' \subseteq Handles /\ live' \subseteq issued'
        BY <2>3, <3>3, SentType DEF TypeOK, Sent
      <3>7. lost_refs' \in BOOLEAN
        BY <2>3, PutPathType
      <3> QED
        BY <2>3, <3>3, <3>5, <3>6, <3>7 DEF TypeOK, fs
    <2>4. CASE Oops
      BY <2>4, OopsType
    <2> QED
      BY <1>5, <2>2, <2>3, <2>4 DEF LookupWalked, Recorded
  <1> QED
    BY <1>2, <1>3, <1>4, <1>5 DEF vsnfsd_proc_lookup

LEMMA OpenType ==
    ASSUME TypeOK, NEW h, NEW i \in vsnfsd_open(h)
    PROVE  i \in Ino
  <1>1. PICK node \in lp_tab : Resolves(node.path, node.slash) /\ i = InoAt(node.path)
    BY DEF vsnfsd_open
  <1> QED
    BY <1>1, InoAtType DEF Resolves

(* READDIR and READ change nothing but the reply. *)
LEMMA ReaddirReadEffect ==
    ASSUME TypeOK, NEW h \in issued,
           vsnfsd_proc_readdir(h)
             \/ (\E offset \in Offset : vsnfsd_proc_read(h, offset))
    PROVE  Oops \/ (Unchanged /\ reply' \in Replies)
  <1>1. {"readdir", "read"} \subseteq Procs /\ h \in Handles
    BY DEF Procs, TypeOK
  <1>2. CASE vsnfsd_proc_readdir(h)
    <2>1. CASE Error("readdir", h) /\ Unchanged
      BY <1>1, <2>1, ErrorType
    <2>2. ASSUME NEW i \in vsnfsd_open(h),
                 Answer("readdir", TRUE, h, NullFh, FileId(i)), Unchanged
          PROVE  Unchanged /\ reply' \in Replies
      <3>1. FileId(i) \in FileIds
        BY OpenType, FhType
      <3> QED
        BY <1>1, <2>2, <3>1, AnswerType, NullType
    <2> QED
      BY <1>2, <2>1, <2>2 DEF vsnfsd_proc_readdir, OpenOops
  <1>3. ASSUME NEW offset \in Offset, vsnfsd_proc_read(h, offset)
        PROVE  Oops \/ (Unchanged /\ reply' \in Replies)
    <2>1. CASE Error("read", h) /\ Unchanged
      BY <1>1, <2>1, ErrorType
    <2>2. ASSUME NEW i \in vsnfsd_open(h), NEW pos \in Offset, Unchanged,
                 reply' = [NoReply EXCEPT !.proc = "read", !.ok = TRUE,
                                          !.via = h, !.file = FileId(i),
                                          !.offset = offset, !.pos = pos]
          PROVE  Unchanged /\ reply' \in Replies
      <3>1. FileId(i) \in FileIds
        BY OpenType, FhType
      <3>2. offset \in Nat /\ pos \in Nat
        BY ConstantsAssumption
      <3>3. reply' = [proc |-> "read", ok |-> TRUE, via |-> h, fh |-> NullFh,
                      file |-> FileId(i), offset |-> offset, pos |-> pos]
        BY <2>2 DEF NoReply
      <3>4. reply' \in Replies
        BY <1>1, <3>1, <3>2, <3>3, NullType DEF Replies
      <3> QED
        BY <2>2, <3>4, Zenon
    <2> QED
      BY <1>3, <2>1, <2>2 DEF vsnfsd_proc_read, OpenOops
  <1> QED
    BY <1>2, <1>3

(* Local changes keep the file system well typed and the server as it is. *)
LEMMA FsChangeType ==
    ASSUME TypeOK, FsChange
    PROVE  TypeOK' /\ NoCall
  <1>1. CASE \E p \in Path, i \in Ino, k \in Kind \ {"free"} : FsCreate(p, i, k)
    BY <1>1, NoReplyType DEF FsCreate, TypeOK, NoCall
  <1>2. CASE \E p \in Path, i \in Ino : FsLink(p, i)
    BY <1>2, NoReplyType DEF FsLink, TypeOK, NoCall
  <1>3. CASE \E p \in Path : FsRemove(p)
    <2>1. PICK p \in Path : FsRemove(p)
      BY <1>3
    <2>2. ino_at[p] \in Ino
      BY <2>1 DEF FsRemove, TypeOK
    <2>3. gen' \in [Ino -> 0..MaxGen] /\ kind' \in [Ino -> Kind]
      BY <2>1, <2>2, ConstantsAssumption DEF FsRemove, TypeOK, Kind
    <2> QED
      BY <2>1, <2>3, NoReplyType DEF FsRemove, TypeOK, NoCall
  <1>4. CASE \E p, q \in Path : FsRename(p, q)
    <2>1. PICK p \in Path, q \in Path : FsRename(p, q)
      BY <1>4
    <2>2. \A r : InoAt(r) \in Ino \cup {NoIno}
      BY InoAtType
    <2>3. ino_at' \in [Path -> Ino \cup {NoIno}]
      BY <2>1, <2>2 DEF FsRename, TypeOK
    <2> QED
      BY <2>1, <2>3, NoReplyType DEF FsRename, TypeOK, NoCall
  <1> QED
    BY <1>1, <1>2, <1>3, <1>4 DEF FsChange

LEMMA ReloadType == TypeOK /\ Reload => TypeOK'
  BY NoReplyType DEF TypeOK, Reload, fs

(* The types of vsnfsd's state hold in every behaviour: whatever clients     *)
(* send, whatever local users do and whichever kmalloc fails.                *)
THEOREM TypeCorrect == Spec => []TypeOK
  <1>1. Init => TypeOK
    <2>1. [i \in Ino |-> 0] \in [Ino -> 0..MaxGen]
      BY ConstantsAssumption
    <2> QED
      BY <2>1, ConstantsAssumption, NoReplyType DEF Init, TypeOK
  <1>2. TypeOK /\ [Next]_vars => TypeOK'
    <2> SUFFICES ASSUME TypeOK, [Next]_vars
                 PROVE  TypeOK'
      OBVIOUS
    <2>1. CASE Getroot
      BY <2>1, GetrootType DEF Getroot
    <2>2. CASE Lookup
      BY <2>2, LookupType DEF Lookup
    <2>3. CASE ReadDir \/ Read
      <3>1. PICK h \in issued :
              vsnfsd_proc_readdir(h)
                \/ (\E offset \in Offset : vsnfsd_proc_read(h, offset))
        BY <2>3 DEF ReadDir, Read
      <3> QED
        BY <3>1, ReaddirReadEffect, OopsType, UnchangedType
    <2>4. CASE FsChange
      BY <2>4, FsChangeType
    <2>5. CASE Reload
      BY <2>5, ReloadType
    <2>6. CASE UNCHANGED vars
      BY <2>6 DEF vars, TypeOK
    <2> QED
      BY <2>1, <2>2, <2>3, <2>4, <2>5, <2>6 DEF Next
  <1> QED
    BY <1>1, <1>2, PTL DEF Spec

-------------------------------------------------------------------------------
(* The table, in every environment *)

(* What one step may do to the table and to the handles of this mount. *)
TableStep ==
    \/ lp_tab' = lp_tab /\ live' \subseteq live \cup {NullFh}
    \/ lp_tab' = {} /\ live' = {}
    \/ \E i \in Ino :
         /\ \/ (\E p, s : lp_tab' = {Node(i, p, s)}) /\ live' \subseteq {Fh(i)}
            \/ /\ live' \subseteq live \cup {Fh(i)}
               /\ \/ InTable(i) /\ lp_tab' = lp_tab
                  \/ ~InTable(i) /\ \E p, s : lp_tab' = lp_tab \cup {Node(i, p, s)}

LEMMA SentEffect ==
    ASSUME NEW proc \in Procs, NEW ok \in BOOLEAN, NEW via \in Handles,
           NEW fh \in Handles, NEW file \in FileIds,
           Answer(proc, ok, via, fh, file), NEW S
    PROVE  Sent(S) = IF ok THEN S \cup {fh} ELSE S
  <1>1. reply'.ok = ok /\ (ok => reply'.fh = fh)
    BY AnswerType
  <1> QED
    BY <1>1 DEF Sent

LEMMA GetrootTable ==
    ASSUME TypeOK, NEW p \in MountPath, vsnfsd_proc_getroot(p)
    PROVE  TableStep
  <1>1. "getroot" \in Procs /\ NullFh \in Handles
    BY NullType DEF Procs
  <1>2. CASE Oops \/ Quiet
    BY <1>2 DEF Oops, Quiet, TableStep
  <1>3. ASSUME NEW w \in path_lookup(p, TRUE), GetrootWalked(p, w),
               ~(Oops \/ Quiet)
        PROVE  TableStep
    <2>1. /\ w.ino # NoIno
          /\ \/ (reply' = NoReply \/ Error("getroot", NullFh)) /\ lp_tab' = {}
             \/ /\ Answer("getroot", w.ok, NullFh, Fh(w.ino), FileId(w.ino))
                /\ lp_tab' = {Node(w.ino, p, TRUE)}
          /\ live' = Sent({})
      BY <1>3 DEF GetrootWalked
    <2>2. w.ok \in BOOLEAN /\ w.ino \in Ino
      BY <2>1, PathLookupType
    <2>3. Fh(w.ino) \in Handles /\ FileId(w.ino) \in FileIds
      BY <2>2, FhType
    <2>4. CASE (reply' = NoReply \/ Error("getroot", NullFh)) /\ lp_tab' = {}
      <3>1. reply'.ok = FALSE
        BY <1>1, <2>4, ErrorType, NoReplyType
      <3> QED
        BY <2>1, <2>4, <3>1 DEF Sent, TableStep
    <2>5. CASE /\ Answer("getroot", w.ok, NullFh, Fh(w.ino), FileId(w.ino))
               /\ lp_tab' = {Node(w.ino, p, TRUE)}
      <3>1. live' \subseteq {Fh(w.ino)}
        BY <1>1, <2>1, <2>2, <2>3, <2>5, SentEffect
      <3> QED
        BY <2>2, <2>5, <3>1 DEF TableStep
    <2> QED
      BY <2>1, <2>4, <2>5
  <1> QED
    BY <1>2, <1>3 DEF vsnfsd_proc_getroot, Unchanged

LEMMA LookupTable ==
    ASSUME TypeOK, NEW h \in issued, NEW n \in Name, vsnfsd_proc_lookup(h, n)
    PROVE  TableStep
  <1>1. "lookup" \in Procs /\ h \in Handles
    BY DEF Procs, TypeOK
  <1>2. CASE Oops \/ Quiet
    BY <1>2 DEF Oops, Quiet, TableStep
  <1>3. CASE /\ Answer("lookup", TRUE, h, NullFh, NoFile)
             /\ live' = Sent(live)
             /\ lp_tab' = lp_tab
    <2>1. live' = live \cup {NullFh}
      BY <1>1, <1>3, SentEffect, NullType
    <2> QED
      BY <1>3, <2>1 DEF TableStep
  <1>4. ASSUME NEW node \in lp_tab,
               NEW w \in path_lookup(Extend(node, n), FALSE),
               LookupWalked(h, Extend(node, n), w),
               ~(Oops \/ Quiet)
        PROVE  TableStep
    <2> DEFINE p == Extend(node, n)
               d == InoAt(SubSeq(p, 1, Len(p) - 1))
               f == IF d = NoIno THEN NoFile ELSE FileId(d)
    <2>1. /\ w.ino # NoIno
          /\ Answer("lookup", w.ok, h, Fh(w.ino), f)
          /\ lp_tab' = IF InTable(w.ino) THEN lp_tab
                       ELSE lp_tab \cup {Node(w.ino, p, kind[w.ino] = "dir")}
          /\ live' = Sent(live)
      BY <1>4 DEF LookupWalked, Recorded
    <2>2. w.ok \in BOOLEAN /\ w.ino \in Ino
      BY <2>1, PathLookupType
    <2>3. Fh(w.ino) \in Handles /\ f \in FileIds
      BY <2>2, FhType, InoAtType, NullType
    <2>4. live' \subseteq live \cup {Fh(w.ino)}
      BY <1>1, <2>1, <2>2, <2>3, SentEffect
    <2> QED
      BY <2>1, <2>2, <2>4 DEF TableStep
  <1> QED
    BY <1>2, <1>3, <1>4 DEF vsnfsd_proc_lookup, Unchanged

LEMMA NextTable ==
    ASSUME TypeOK, [Next]_vars
    PROVE  TableStep
  <1>1. CASE Getroot
    BY <1>1, GetrootTable DEF Getroot
  <1>2. CASE Lookup
    BY <1>2, LookupTable DEF Lookup
  <1>3. CASE ReadDir \/ Read
    <2>1. PICK h \in issued :
            vsnfsd_proc_readdir(h)
              \/ (\E offset \in Offset : vsnfsd_proc_read(h, offset))
      BY <1>3 DEF ReadDir, Read
    <2>2. Oops \/ Unchanged
      BY <2>1, ReaddirReadEffect
    <2> QED
      BY <2>2 DEF Oops, Unchanged, Quiet, TableStep
  <1>4. CASE FsChange
    BY <1>4, FsChangeType DEF NoCall, TableStep
  <1>5. CASE Reload
    BY <1>5 DEF Reload, TableStep
  <1>6. CASE UNCHANGED vars
    BY <1>6 DEF vars, TableStep
  <1> QED
    BY <1>1, <1>2, <1>3, <1>4, <1>5, <1>6 DEF Next

(* No inode number ever has two nodes in vsnfs_lp_tab, whatever is mounted,  *)
(* renamed, removed or reused, and whichever kmalloc fails.                  *)
THEOREM KeysAreUnique == Spec => []KeysUnique
  <1>1. Init => KeysUnique
    BY DEF Init, KeysUnique
  <1>2. TypeOK /\ KeysUnique /\ [Next]_vars => KeysUnique'
    <2> SUFFICES ASSUME TypeOK, KeysUnique, [Next]_vars
                 PROVE  KeysUnique'
      OBVIOUS
    <2>1. TableStep
      BY NextTable
    <2> QED
      BY <2>1 DEF TableStep, KeysUnique, InTable, Node
  <1> QED
    BY <1>1, <1>2, TypeCorrect, PTL DEF Spec

(* With inode numbers that fit in a handle, every handle sent since the last *)
(* GETROOT that emptied the table has a node: LOOKUP never answers with a    *)
(* handle it failed to record.                                               *)
THEOREM LiveHandlesAreKnown ==
    ASSUME InosFit
    PROVE  Spec => []LiveHandlesKnown
  <1>1. Init => LiveHandlesKnown
    BY DEF Init, LiveHandlesKnown
  <1>2. TypeOK /\ LiveHandlesKnown /\ [Next]_vars => LiveHandlesKnown'
    <2> SUFFICES ASSUME TypeOK, LiveHandlesKnown, [Next]_vars,
                        NEW h \in live', h.data # 0
                 PROVE  InTable(h.data)'
      BY DEF LiveHandlesKnown
    <2>1. TableStep
      BY NextTable
    <2>2. NullFh.data = 0
      BY DEF NullFh
    <2>3. \A i \in Ino : Fh(i).data = i
      BY InosFit DEF InosFit, Fh
    <2>4. CASE h \in live
      <3>1. PICK node \in lp_tab : node.ino = h.data
        BY <2>4 DEF LiveHandlesKnown, InTable
      <3>2. CASE lp_tab \subseteq lp_tab'
        BY <3>1, <3>2 DEF InTable
      <3>3. ASSUME NEW i \in Ino, NEW p, NEW s,
                   lp_tab' = {Node(i, p, s)}, h = Fh(i)
            PROVE  InTable(h.data)'
        BY <2>3, <3>3 DEF InTable, Node
      <3> QED
        BY <2>1, <3>2, <3>3 DEF TableStep
    <2>5. CASE h \notin live
      <3>1. PICK i \in Ino : /\ h = Fh(i)
                            /\ \/ \E p, s : Node(i, p, s) \in lp_tab'
                               \/ InTable(i) /\ lp_tab' = lp_tab
        BY <2>1, <2>2, <2>5 DEF TableStep
      <3>2. h.data = i
        BY <2>3, <3>1
      <3> QED
        BY <3>1, <3>2 DEF InTable, Node
    <2> QED
      BY <2>4, <2>5
  <1> QED
    BY <1>1, <1>2, TypeCorrect, PTL DEF Spec

-------------------------------------------------------------------------------
(* Paths and their prefixes *)

LEMMA PrefixPath ==
    ASSUME NEW p \in Path, NEW j \in 0..Len(p)
    PROVE  /\ SubSeq(p, 1, j) \in Path
           /\ Len(SubSeq(p, 1, j)) = j
           /\ SubSeq(p, 1, Len(p)) = p
  <1>1. p \in Seq(Name) /\ Len(p) <= MaxDepth
    BY PathSeq
  <1>2. SubSeq(p, 1, j) \in Seq(Name) /\ Len(SubSeq(p, 1, j)) = j
    BY <1>1
  <1>3. SubSeq(p, 1, Len(p)) = p
    BY <1>1
  <1>4. j <= MaxDepth
    BY <1>1, ConstantsAssumption
  <1>5. SubSeq(p, 1, j) \in Path
    BY <1>2, <1>4, PathSeq
  <1> QED
    BY <1>2, <1>3, <1>5

LEMMA PrefixOfPrefix ==
    ASSUME NEW p \in Path, NEW m \in 0..Len(p), NEW j \in 0..m
    PROVE  SubSeq(SubSeq(p, 1, m), 1, j) = SubSeq(p, 1, j)
  <1>1. p \in Seq(Name)
    BY PathSeq
  <1> QED
    BY <1>1

LEMMA PrefixOfAppend ==
    ASSUME NEW q \in Path, NEW n \in Name, NEW j \in 0..Len(q)
    PROVE  /\ SubSeq(Append(q, n), 1, j) = SubSeq(q, 1, j)
           /\ Len(Append(q, n)) = Len(q) + 1
           /\ SubSeq(Append(q, n), 1, Len(q) + 1) = Append(q, n)
  <1>1. q \in Seq(Name)
    BY PathSeq
  <1> QED
    BY <1>1

-------------------------------------------------------------------------------
(* The table while local users only add files *)

(* Every handle is the null handle or describes an existing file as it is. *)
HandlesSound ==
    \A h \in issued :
        \/ h = NullFh
        \/ h.data \in Ino /\ h = Fh(h.data) /\ kind[h.data] # "free"

MountsStay ==
    \A p \in MountPath : ino_at[p] # NoIno /\ kind[ino_at[p]] = "dir"

(* The inductive invariant.  TableSound is not inductive alone: that a       *)
(* LOOKUP extends the path of a directory, and so writes no wrong path,      *)
(* depends on the type in the handle (HandlesSound); that a failed walk ends *)
(* at an inode which has its node depends on IsTree.                         *)
SoundInv ==
    /\ TypeOK
    /\ IsTree(ino_at, kind)
    /\ MountsStay
    /\ HandlesSound
    /\ TableSound
    /\ HandleNamesItsFile

(* What a node's path leads to when its inode is a file of the tree. *)
LEMMA NodePath ==
    ASSUME SoundInv, NEW node \in lp_tab
    PROVE  /\ node.ino \in Ino /\ node.ino # NoIno
           /\ node.path \in Path /\ ino_at[node.path] = node.ino
           /\ kind[node.ino] # "free"
  <1>1. node.ino \in Ino /\ InoAt(node.path) = node.ino
    BY DEF SoundInv, TypeOK, Nodes, TableSound
  <1>2. node.ino # NoIno
    BY <1>1, ConstantsAssumption DEF NoIno
  <1>3. node.path \in Path /\ ino_at[node.path] = node.ino
    BY <1>1, <1>2 DEF InoAt
  <1> QED
    BY <1>1, <1>2, <1>3 DEF SoundInv, IsTree

(* A step that leaves the file system, the table and the handles alone. *)
LEMMA SoundQuiet ==
    ASSUME SoundInv, TypeOK', HandleNamesItsFile',
           UNCHANGED <<fs, issued>>, lp_tab' \subseteq lp_tab
    PROVE  SoundInv'
  BY DEF SoundInv, IsTree, MountsStay, HandlesSound, TableSound, InoAt, Fh,
         FileId, fs

(* Adding a file, or another name of one, at a free path. *)
LEMMA SoundAdds ==
    ASSUME SoundInv, TypeOK', NEW p \in Path, NEW i \in Ino, FreePath(p),
           ino_at' = [ino_at EXCEPT ![p] = i],
           \A m \in Ino : kind[m] # "free" => kind'[m] = kind[m],
           kind'[i] # "free",
           gen' = gen, NoCall
    PROVE  SoundInv'
  <1>1. /\ ino_at \in [Path -> Ino \cup {NoIno}]
        /\ kind \in [Ino -> Kind]
        /\ NoIno \notin Ino
    BY ConstantsAssumption DEF SoundInv, TypeOK, NoIno
  <1>2. \A q \in Path : ino_at[q] # NoIno =>
           /\ q # p /\ ino_at'[q] = ino_at[q]
           /\ ino_at[q] \in Ino
           /\ kind[ino_at[q]] # "free"
           /\ kind'[ino_at[q]] = kind[ino_at[q]]
    BY <1>1 DEF SoundInv, IsTree, FreePath
  <1>3. IsTree(ino_at, kind)'
    <2> SUFFICES ASSUME NEW q \in Path, ino_at'[q] # NoIno
                 PROVE  /\ kind'[ino_at'[q]] # "free"
                        /\ \A j \in 0..Len(q) - 1 :
                              /\ ino_at'[SubSeq(q, 1, j)] # NoIno
                              /\ kind'[ino_at'[SubSeq(q, 1, j)]] = "dir"
      BY DEF IsTree
    <2>1. ASSUME NEW r \in Path, ino_at[r] # NoIno, kind[ino_at[r]] = "dir"
          PROVE  ino_at'[r] # NoIno /\ kind'[ino_at'[r]] = "dir"
      BY <1>2, <2>1
    <2>2. Len(q) \in Nat /\ \A j \in 0..Len(q) : SubSeq(q, 1, j) \in Path
      BY PathSeq, PrefixPath
    <2>3. CASE q # p
      <3>1. ino_at[q] # NoIno
        BY <1>1, <2>3
      <3>2. \A j \in 0..Len(q) - 1 :
               /\ ino_at[SubSeq(q, 1, j)] # NoIno
               /\ kind[ino_at[SubSeq(q, 1, j)]] = "dir"
        BY <3>1 DEF SoundInv, IsTree
      <3>3. \A j \in 0..Len(q) - 1 : SubSeq(q, 1, j) \in Path
        BY <2>2
      <3>4. \A j \in 0..Len(q) - 1 :
               /\ ino_at'[SubSeq(q, 1, j)] # NoIno
               /\ kind'[ino_at'[SubSeq(q, 1, j)]] = "dir"
        <4> TAKE j \in 0..Len(q) - 1
        <4> QED
          BY <2>1, <3>2, <3>3
      <3>5. kind'[ino_at'[q]] # "free"
        BY <1>2, <3>1
      <3> QED
        BY <3>4, <3>5
    <2>4. CASE q = p
      <3>1. kind'[ino_at'[q]] # "free"
        BY <1>1, <2>4
      <3> DEFINE up == SubSeq(p, 1, Len(p) - 1)
      <3>2. Len(p) >= 1 /\ Len(p) \in Nat
        <4>1. p \in Seq(Name) /\ p # <<>>
          BY PathSeq DEF FreePath
        <4> QED
          BY <4>1
      <3>3. up \in Path /\ Len(up) = Len(p) - 1
        <4>1. Len(p) - 1 \in 0..Len(p)
          BY <3>2
        <4> QED
          BY <4>1, PrefixPath
      <3>4. ino_at[up] # NoIno /\ kind[ino_at[up]] = "dir"
        BY <3>3 DEF FreePath, IsDir, InoAt
      <3>5. ASSUME NEW j \in 0..Len(p) - 1
            PROVE  /\ ino_at[SubSeq(p, 1, j)] # NoIno
                   /\ kind[ino_at[SubSeq(p, 1, j)]] = "dir"
        <4>1. CASE j = Len(p) - 1
          BY <3>4, <4>1
        <4>2. CASE j # Len(p) - 1
          <5>1. SubSeq(up, 1, j) = SubSeq(p, 1, j)
            BY <3>2, PrefixOfPrefix
          <5>2. j \in 0..Len(up) - 1
            BY <3>2, <3>3, <4>2
          <5> HIDE DEF up
          <5>3. /\ ino_at[SubSeq(up, 1, j)] # NoIno
                /\ kind[ino_at[SubSeq(up, 1, j)]] = "dir"
            BY <3>3, <3>4, <5>2 DEF SoundInv, IsTree
          <5> QED
            BY <5>1, <5>3
        <4> QED
          BY <4>1, <4>2
      <3>6. \A j \in 0..Len(p) - 1 : SubSeq(p, 1, j) \in Path
        BY <2>2, <2>4
      <3> QED
        BY <2>1, <2>4, <3>1, <3>5, <3>6
    <2> QED
      BY <2>3, <2>4
  <1>4. MountsStay'
    BY <1>2, ConstantsAssumption DEF SoundInv, MountsStay
  <1>5. HandlesSound'
    BY DEF SoundInv, HandlesSound, NoCall, Fh, FileId, NullFh, NoFile
  <1>6. TableSound'
    <2> SUFFICES ASSUME NEW node \in lp_tab
                 PROVE  /\ InoAt(node.path)' = node.ino
                        /\ node.slash <=> kind'[node.ino] = "dir"
      BY DEF TableSound, NoCall
    <2>1. /\ node.path \in Path /\ ino_at[node.path] = node.ino
          /\ node.ino # NoIno
      BY NodePath
    <2>2. node.slash <=> kind[node.ino] = "dir"
      BY DEF SoundInv, TableSound
    <2>3. ino_at'[node.path] = node.ino /\ kind'[node.ino] = kind[node.ino]
      BY <1>2, <2>1
    <2> QED
      BY <2>1, <2>2, <2>3 DEF InoAt
  <1>7. HandleNamesItsFile'
    BY NoReplyType DEF HandleNamesItsFile, NoCall
  <1> QED
    BY <1>3, <1>4, <1>5, <1>6, <1>7 DEF SoundInv

(* Walking on from the directory of a node: the walk succeeds, or ends there. *)
LEMMA WalkFromNode ==
    ASSUME SoundInv, NEW node \in lp_tab, NEW n \in Name,
           NEW w \in path_lookup(Append(node.path, n), FALSE), w.ino # NoIno
    PROVE  LET p == Append(node.path, n)
           IN  /\ InoAt(SubSeq(p, 1, Len(p) - 1)) = node.ino
               /\ w.ok => w.ino = InoAt(p)
               /\ ~w.ok => w.ino = node.ino
  <1> DEFINE q == node.path
             p == Append(q, n)
  <1>1. /\ q \in Path /\ ino_at[q] = node.ino /\ node.ino # NoIno
        /\ q \in Seq(Name) /\ Len(q) \in Nat
    BY NodePath, PathSeq
  <1>2. /\ Len(p) = Len(q) + 1
        /\ SubSeq(p, 1, Len(p)) = p
        /\ \A j \in 0..Len(q) : /\ SubSeq(p, 1, j) = SubSeq(q, 1, j)
                                /\ SubSeq(q, 1, j) \in Path
        /\ SubSeq(q, 1, Len(q)) = q
    BY <1>1, PrefixOfAppend, PrefixPath
  <1>3. InoAt(SubSeq(p, 1, Len(q))) = node.ino
    <2>1. SubSeq(p, 1, Len(q)) = q
      BY <1>1, <1>2
    <2> HIDE DEF p, q
    <2> QED
      BY <1>1, <2>1 DEF InoAt
  <1>4. \A j \in 0..Len(q) : InoAt(SubSeq(p, 1, j)) # NoIno
    <2> TAKE j \in 0..Len(q)
    <2>1. CASE j = Len(q)
      BY <1>1, <1>3, <2>1
    <2>2. CASE j # Len(q)
      <3>1. j \in 0..Len(q) - 1
        BY <1>1, <2>2
      <3>2. ino_at[SubSeq(q, 1, j)] # NoIno
        BY <1>1, <3>1 DEF SoundInv, IsTree
      <3> QED
        BY <1>2, <3>2 DEF InoAt
    <2> QED
      BY <2>1, <2>2
  <1> HIDE DEF p
  <1>5. CASE Resolves(p, FALSE)
    <2>1. w \in {[ok |-> TRUE, ino |-> InoAt(p)], [ok |-> FALSE, ino |-> NoIno]}
      BY <1>5, Zenon DEF path_lookup, p
    <2>2. w.ok = TRUE /\ w.ino = InoAt(p)
      BY <2>1
    <2> QED
      BY <1>1, <1>2, <1>3, <2>2 DEF p
  <1>6. CASE ~Resolves(p, FALSE)
    <2>1. w.ok = FALSE /\ w.ino \in LastReached(p)
      BY <1>6 DEF path_lookup, p
    <2>2. PICK k \in 0..Len(p) :
              /\ w.ino = InoAt(SubSeq(p, 1, k))
              /\ k < Len(p) => InoAt(SubSeq(p, 1, k + 1)) = NoIno
      BY <2>1 DEF LastReached
    <2>3. InoAt(p) = NoIno
      BY <1>6 DEF Resolves
    <2>4. k # Len(p)
      BY <1>2, <2>2, <2>3
    <2>5. ~(k + 1 \in 0..Len(q))
      BY <1>1, <1>2, <1>4, <2>2, <2>4
    <2>6. k = Len(q)
      BY <1>1, <1>2, <2>4, <2>5
    <2> QED
      BY <1>1, <1>2, <1>3, <2>1, <2>2, <2>6 DEF p
  <1> QED
    BY <1>5, <1>6

(* What a handle whose type is VSNFS_DIR or VSNFS_REG says. *)
LEMMA HandleFacts ==
    ASSUME SoundInv, NEW h \in issued, h.type \in {VSNFS_DIR, VSNFS_REG}
    PROVE  /\ h.data \in Ino
           /\ h.file = FileId(h.data)
           /\ h.type = VSNFS_DIR => kind[h.data] = "dir"
  <1>1. h # NullFh
    BY DEF NullFh, VSNFS_DIR, VSNFS_REG
  <1>2. h.data \in Ino /\ h = Fh(h.data)
    BY <1>1 DEF SoundInv, HandlesSound
  <1>3. h.file = FileId(h.data) /\ h.type = HandleType(kind[h.data])
    BY <1>2 DEF Fh
  <1> QED
    BY <1>2, <1>3 DEF HandleType, VSNFS_DIR, VSNFS_REG

(* The new handle set when the handle of inode i may have been sent. *)
LEMMA SoundSent ==
    ASSUME InosFit, SoundInv, NEW i \in Ino, kind[i] # "free",
           issued' \subseteq issued \cup {Fh(i), NullFh}, UNCHANGED fs
    PROVE  HandlesSound'
  <1>1. Fh(i).data = i
    BY DEF InosFit, Fh
  <1>2. \A j : Fh(j)' = Fh(j)
    BY DEF Fh, FileId, fs
  <1>3. kind' = kind /\ NullFh' = NullFh
    BY DEF fs, NullFh, NoFile
  <1> SUFFICES ASSUME NEW h \in issued'
               PROVE  \/ h = NullFh
                      \/ h.data \in Ino /\ h = Fh(h.data) /\ kind[h.data] # "free"
    BY <1>2, <1>3 DEF HandlesSound
  <1> QED
    BY <1>1 DEF SoundInv, HandlesSound

(* A walk of a mount path finds it, or ends the thread. *)
LEMMA MountWalk ==
    ASSUME SoundInv, NEW p \in MountPath, NEW w \in path_lookup(p, TRUE),
           w.ino # NoIno
    PROVE  w.ok = TRUE /\ w.ino = ino_at[p]
  <1>1. p \in Path /\ ino_at[p] # NoIno /\ kind[ino_at[p]] = "dir"
    BY ConstantsAssumption DEF SoundInv, MountsStay
  <1>2. InoAt(p) = ino_at[p] /\ Resolves(p, TRUE)
    BY <1>1 DEF InoAt, Resolves
  <1>3. w \in {[ok |-> TRUE, ino |-> ino_at[p]], [ok |-> FALSE, ino |-> NoIno]}
    BY <1>2, Zenon DEF path_lookup
  <1> QED
    BY <1>3

LEMMA SoundGetroot ==
    ASSUME InosFit, SoundInv, TypeOK', NEW p \in MountPath,
           vsnfsd_proc_getroot(p)
    PROVE  SoundInv'
  <1>1. "getroot" \in Procs /\ NullFh \in Handles
    BY NullType DEF Procs
  <1>2. ASSUME Error("getroot", NullFh) \/ reply' = NoReply
        PROVE  HandleNamesItsFile'
    BY <1>1, <1>2, ErrorType, NoReplyType DEF HandleNamesItsFile
  <1>3. CASE Oops \/ (Error("getroot", NullFh) /\ Quiet)
    BY <1>2, <1>3, SoundQuiet DEF Oops, Quiet
  <1>4. ASSUME NEW w \in path_lookup(p, TRUE), GetrootWalked(p, w),
               ~(Oops \/ (Error("getroot", NullFh) /\ Quiet))
        PROVE  SoundInv'
    <2> DEFINE i == ino_at[p]
    <2>1. p \in Path /\ i \in Ino /\ i # NoIno /\ kind[i] = "dir"
      BY ConstantsAssumption DEF SoundInv, TypeOK, MountsStay
    <2>2. w.ok = TRUE /\ w.ino = i
      BY <1>4, MountWalk DEF GetrootWalked, SoundInv
    <2> HIDE DEF i
    <2>3. /\ \/ (Error("getroot", NullFh) \/ reply' = NoReply) /\ lp_tab' = {}
             \/ /\ Answer("getroot", TRUE, NullFh, Fh(i), FileId(i))
                /\ lp_tab' = {Node(i, p, TRUE)}
          /\ issued' = Sent(issued)
          /\ UNCHANGED fs
      BY <1>4, <2>2 DEF GetrootWalked
    <2>4. Fh(i) \in Handles /\ FileId(i) \in FileIds
      BY <2>1, FhType DEF SoundInv
    <2>5. CASE (Error("getroot", NullFh) \/ reply' = NoReply) /\ lp_tab' = {}
      <3>1. issued' = issued
        BY <1>1, <2>3, <2>5, ErrorType, NoReplyType DEF Sent
      <3> QED
        BY <1>2, <2>3, <2>5, <3>1, SoundQuiet
    <2>6. CASE /\ Answer("getroot", TRUE, NullFh, Fh(i), FileId(i))
               /\ lp_tab' = {Node(i, p, TRUE)}
      <3>1. issued' = issued \cup {Fh(i)} /\ reply'.via = NullFh
        BY <1>1, <2>3, <2>4, <2>6, SentEffect, AnswerType
      <3>2. HandlesSound'
        BY <2>1, <2>3, <3>1, SoundSent
      <3>3. HandleNamesItsFile'
        BY <3>1 DEF HandleNamesItsFile, NullFh, NoFile
      <3>4. TableSound'
        <4>1. ino_at' = ino_at /\ kind' = kind
          BY <2>3 DEF fs
        <4>2. InoAt(p)' = i
          BY <2>1, <4>1 DEF InoAt, i
        <4> SUFFICES ASSUME NEW m \in lp_tab'
                     PROVE  /\ InoAt(m.path)' = m.ino
                            /\ m.slash <=> kind'[m.ino] = "dir"
          BY DEF TableSound
        <4>3. m.ino = i /\ m.path = p /\ m.slash = TRUE
          BY <2>6 DEF Node
        <4> QED
          BY <2>1, <4>1, <4>2, <4>3
      <3>5. IsTree(ino_at, kind)' /\ MountsStay'
        BY <2>3 DEF SoundInv, IsTree, MountsStay, fs
      <3> QED
        BY <3>2, <3>3, <3>4, <3>5 DEF SoundInv
    <2> QED
      BY <2>3, <2>5, <2>6
  <1> QED
    BY <1>3, <1>4 DEF vsnfsd_proc_getroot, Unchanged

LEMMA SoundLookup ==
    ASSUME InosFit, SoundInv, TypeOK', NEW h \in issued, NEW n \in Name,
           h.type = VSNFS_DIR, vsnfsd_proc_lookup(h, n)
    PROVE  SoundInv'
  <1>1. "lookup" \in Procs /\ h \in Handles /\ NullFh \in Handles
    BY NullType DEF Procs, SoundInv, TypeOK
  <1>2. /\ h.data \in Ino /\ h.file = FileId(h.data) /\ kind[h.data] = "dir"
    BY HandleFacts
  <1>3. CASE Oops \/ (Error("lookup", h) /\ Quiet)
    <2>1. HandleNamesItsFile'
      BY <1>1, <1>3, ErrorType, NoReplyType DEF HandleNamesItsFile, Oops
    <2> QED
      BY <1>3, <2>1, SoundQuiet DEF Oops, Quiet
  <1>4. CASE /\ Answer("lookup", TRUE, h, NullFh, NoFile)
             /\ issued' = Sent(issued)
             /\ UNCHANGED <<fs, lp_tab>>
    <2>1. issued' = issued \cup {NullFh} /\ reply'.file = NoFile
      BY <1>1, <1>4, SentEffect, AnswerType, NullType
    <2>2. HandlesSound'
      BY <1>2, <1>4, <2>1, SoundSent
    <2>3. HandleNamesItsFile'
      BY <2>1 DEF HandleNamesItsFile, NoFile
    <2> QED
      BY <1>4, <2>2, <2>3 DEF SoundInv, IsTree, MountsStay, TableSound, InoAt, fs
  <1>5. ASSUME NEW node \in lp_tab, node.ino = h.data,
               NEW w \in path_lookup(Extend(node, n), FALSE),
               LookupWalked(h, Extend(node, n), w),
               ~(Oops \/ (Error("lookup", h) /\ Quiet))
        PROVE  SoundInv'
    <2> DEFINE p == Append(node.path, n)
               f == FileId(node.ino)
    <2>1. Extend(node, n) = p
      BY <1>2, <1>5 DEF Extend, SoundInv, TableSound
    <2>2. w.ok \in BOOLEAN /\ w.ino \in Ino \cup {NoIno}
      BY PathLookupType DEF SoundInv
    <2>3. w.ino # NoIno
      BY <1>5 DEF LookupWalked, Recorded
    <2>4. /\ InoAt(SubSeq(p, 1, Len(p) - 1)) = node.ino
          /\ w.ok => w.ino = InoAt(p)
          /\ ~w.ok => w.ino = node.ino
      BY <1>5, <2>1, <2>3, WalkFromNode
    <2>5. node.ino \in Ino /\ node.ino # NoIno /\ kind[node.ino] # "free"
      BY NodePath
    <2> HIDE DEF p
    <2>6. /\ Answer("lookup", w.ok, h, Fh(w.ino), f)
          /\ lp_tab' = IF InTable(w.ino) THEN lp_tab
                       ELSE lp_tab \cup {Node(w.ino, p, kind[w.ino] = "dir")}
          /\ issued' = Sent(issued)
          /\ UNCHANGED fs
      BY <1>5, <2>1, <2>3, <2>4, <2>5 DEF LookupWalked, Recorded
    <2>7. w.ino \in Ino /\ kind[w.ino] # "free"
      <3>1. w.ok /\ InoAt(p) # NoIno => kind[InoAt(p)] # "free"
        BY DEF InoAt, SoundInv, IsTree
      <3> QED
        BY <2>2, <2>3, <2>4, <2>5, <3>1
    <2>8. /\ Fh(w.ino) \in Handles /\ f \in FileIds
      BY <2>5, <2>7, FhType DEF SoundInv
    <2>9. /\ issued' \subseteq issued \cup {Fh(w.ino), NullFh}
          /\ reply'.via = h
          /\ reply'.ok => reply'.file = f
      <3>1. "lookup" \in Procs /\ w.ok \in BOOLEAN /\ h \in Handles
        BY <1>1, <2>2 DEF Procs
      <3>2. Answer("lookup", w.ok, h, Fh(w.ino), f)
        BY <2>6
      <3>3. /\ reply'.ok = w.ok /\ reply'.via = h
            /\ reply'.file = IF w.ok THEN f ELSE NoFile
        BY <2>8, <3>1, <3>2, AnswerType
      <3>4. Sent(issued) = IF w.ok THEN issued \cup {Fh(w.ino)} ELSE issued
        BY <2>8, <3>1, <3>2, SentEffect
      <3>5. issued' = Sent(issued)
        BY <2>6
      <3>6. issued' \subseteq issued \cup {Fh(w.ino), NullFh}
        BY <3>4, <3>5
      <3> QED
        BY <3>3, <3>6
    <2>10. HandlesSound'
      BY <2>6, <2>7, <2>9, SoundSent
    <2>11. HandleNamesItsFile'
      BY <1>2, <1>5, <2>9 DEF HandleNamesItsFile
    <2>12. TableSound'
      <3>1. ~InTable(w.ino) => w.ino = InoAt(p)
        BY <2>2, <2>4 DEF InTable
      <3>2. \A r : InoAt(r)' = InoAt(r)
        BY <2>6 DEF InoAt, fs
      <3>3. kind' = kind
        BY <2>6 DEF fs
      <3> SUFFICES ASSUME NEW m \in lp_tab'
                   PROVE  /\ InoAt(m.path) = m.ino
                          /\ m.slash <=> kind[m.ino] = "dir"
        BY <3>2, <3>3 DEF TableSound
      <3>4. CASE m \in lp_tab
        BY <3>4 DEF SoundInv, TableSound
      <3>5. CASE m \notin lp_tab
        <4>1. m = Node(w.ino, p, kind[w.ino] = "dir") /\ ~InTable(w.ino)
          BY <2>6, <3>5
        <4> QED
          BY <3>1, <4>1 DEF Node
      <3> QED
        BY <3>4, <3>5
    <2>13. IsTree(ino_at, kind)' /\ MountsStay'
      BY <2>6 DEF SoundInv, IsTree, MountsStay, fs
    <2> QED
      BY <2>10, <2>11, <2>12, <2>13 DEF SoundInv
  <1> QED
    BY <1>3, <1>4, <1>5 DEF vsnfsd_proc_lookup, Unchanged

LEMMA SoundRead ==
    ASSUME SoundInv, TypeOK', NEW h \in issued,
           h.type \in {VSNFS_DIR, VSNFS_REG},
           vsnfsd_proc_readdir(h)
             \/ (\E offset \in Offset : vsnfsd_proc_read(h, offset))
    PROVE  SoundInv'
  <1>1. {"readdir", "read"} \subseteq Procs /\ h \in Handles
    BY DEF Procs, SoundInv, TypeOK
  <1>2. h.data \in Ino /\ h.file = FileId(h.data)
    BY HandleFacts
  <1>3. UNCHANGED <<fs, issued>> /\ lp_tab' \subseteq lp_tab
    BY ReaddirReadEffect DEF SoundInv, Oops, Unchanged, Quiet
  <1>4. \A i \in vsnfsd_open(h) : FileId(i) = h.file /\ FileId(i) \in FileIds
    <2> TAKE i \in vsnfsd_open(h)
    <2>1. PICK node \in lp_tab : node.ino = h.data /\ i = InoAt(node.path)
      BY DEF vsnfsd_open
    <2> QED
      BY <1>2, <2>1, FhType DEF SoundInv, TableSound
  <1>5. HandleNamesItsFile'
    <2>1. CASE Oops \/ Error("readdir", h) \/ Error("read", h)
      BY <1>1, <2>1, ErrorType, NoReplyType DEF HandleNamesItsFile, Oops
    <2>2. ASSUME NEW i \in vsnfsd_open(h),
                 Answer("readdir", TRUE, h, NullFh, FileId(i))
          PROVE  HandleNamesItsFile'
      BY <1>1, <1>4, <2>2, AnswerType, NullType DEF HandleNamesItsFile
    <2>3. ASSUME NEW i \in vsnfsd_open(h), NEW offset, NEW pos,
                 reply' = [NoReply EXCEPT !.proc = "read", !.ok = TRUE,
                                          !.via = h, !.file = FileId(i),
                                          !.offset = offset, !.pos = pos]
          PROVE  HandleNamesItsFile'
      <3>1. reply'.via = h /\ reply'.file = FileId(i)
        BY <2>3 DEF NoReply
      <3>2. reply'.via.file = reply'.file
        BY <1>4, <3>1
      <3> HIDE <2>3
      <3> QED
        BY <3>2 DEF HandleNamesItsFile
    <2> QED
      BY <2>1, <2>2, <2>3 DEF vsnfsd_proc_readdir, vsnfsd_proc_read, OpenOops
  <1> QED
    BY <1>3, <1>5, SoundQuiet

(* The invariant holds throughout, while local users only add files. *)
THEOREM SoundAlways ==
    ASSUME InosFit, OnlyAdds
    PROVE  Spec => []SoundInv
  <1>1. Init => SoundInv
    <2> SUFFICES ASSUME Init
                 PROVE  SoundInv
      OBVIOUS
    <2>1. TypeOK
      <3>1. [i \in Ino |-> 0] \in [Ino -> 0..MaxGen]
        BY ConstantsAssumption
      <3> QED
        BY <3>1, ConstantsAssumption, NoReplyType DEF Init, TypeOK
    <2>2. IsTree(ino_at, kind) /\ MountsStay
      BY ConstantsAssumption DEF Init, OnlyAdds, MountsStay
    <2>3. HandlesSound /\ TableSound /\ HandleNamesItsFile
      BY NoReplyType DEF Init, HandlesSound, TableSound, HandleNamesItsFile
    <2> QED
      BY <2>1, <2>2, <2>3 DEF SoundInv
  <1>2. SoundInv /\ TypeOK' /\ [Next]_vars => SoundInv'
    <2> SUFFICES ASSUME SoundInv, TypeOK', [Next]_vars
                 PROVE  SoundInv'
      OBVIOUS
    <2>1. CASE Getroot
      BY <2>1, SoundGetroot DEF Getroot
    <2>2. CASE Lookup
      BY <2>2, SoundLookup DEF Lookup
    <2>3. CASE ReadDir \/ Read
      <3>1. PICK h \in issued :
              /\ h.type \in {VSNFS_DIR, VSNFS_REG}
              /\ vsnfsd_proc_readdir(h)
                   \/ (\E offset \in Offset : vsnfsd_proc_read(h, offset))
        BY <2>3 DEF ReadDir, Read
      <3> QED
        BY <3>1, SoundRead
    <2>4. CASE FsChange
      <3>1. ASSUME NEW p \in Path, NEW i \in Ino, NEW k \in Kind \ {"free"},
                   FsCreate(p, i, k)
            PROVE  SoundInv'
        <4>1. kind' = [kind EXCEPT ![i] = k] /\ kind[i] = "free" /\ k # "free"
          BY <3>1 DEF FsCreate
        <4>2. /\ kind'[i] # "free"
              /\ \A m \in Ino : kind[m] # "free" => kind'[m] = kind[m]
          BY <4>1 DEF SoundInv, TypeOK
        <4> QED
          BY <3>1, <4>2, SoundAdds DEF FsCreate
      <3>2. ASSUME NEW p \in Path, NEW i \in Ino, FsLink(p, i)
            PROVE  SoundInv'
        <4>1. kind' = kind /\ kind[i] # "free"
          BY <3>2 DEF FsLink
        <4> QED
          BY <3>2, <4>1, SoundAdds DEF FsLink
      <3> QED
        BY <2>4, <3>1, <3>2 DEF FsChange, FsRemove, FsRename, OnlyAdds
    <2>5. CASE Reload
      <3>1. HandleNamesItsFile'
        BY <2>5, NoReplyType DEF Reload, HandleNamesItsFile
      <3> QED
        BY <2>5, <3>1, SoundQuiet DEF Reload
    <2>6. CASE UNCHANGED vars
      <3>1. HandleNamesItsFile'
        BY <2>6 DEF vars, SoundInv, HandleNamesItsFile
      <3> QED
        BY <2>6, <3>1, SoundQuiet DEF vars, fs
    <2> QED
      BY <2>1, <2>2, <2>3, <2>4, <2>5, <2>6 DEF Next
  <1> QED
    BY <1>1, <1>2, TypeCorrect, PTL DEF Spec

(* While local users only add files, every path in vsnfs_lp_tab leads to the *)
(* inode it is filed under, for any file system whose inode numbers fit the  *)
(* seven digits of a handle.                                                 *)
THEOREM TableIsSound ==
    ASSUME InosFit, OnlyAdds
    PROVE  Spec => []TableSound
  <1>1. SoundInv => TableSound
    BY DEF SoundInv
  <1> QED
    BY <1>1, SoundAlways, PTL

(* Under the same conditions every procedure that succeeds worked on the     *)
(* file its handle was made for.                                             *)
THEOREM HandlesNameTheirFiles ==
    ASSUME InosFit, OnlyAdds
    PROVE  Spec => []HandleNamesItsFile
  <1>1. SoundInv => HandleNamesItsFile
    BY DEF SoundInv
  <1> QED
    BY <1>1, SoundAlways, PTL
===============================================================================
