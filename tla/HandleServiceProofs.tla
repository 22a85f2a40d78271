-------------------------- MODULE HandleServiceProofs --------------------------
(***************************************************************************)
(* The server procedures implement HandleService, while local users of the  *)
(* server only add files: for every file system, mount path and sequence of *)
(* calls, failed allocations and reloads.                                   *)
(***************************************************************************)
EXTENDS VsnfsdProcProofs

(* A handle of the server as HandleService has it. *)
Grant(h) == [data |-> h.data, file |-> h.file]

(* What a reply of each kind is answered with. *)
LEMMA AnsweredNone ==
    ASSUME reply' = NoReply
    PROVE  Answered' = [what |-> "none"]
  <1>1. reply'.proc = "none"
    BY DEF NoReply
  <1> QED
    BY <1>1 DEF Answered

LEMMA AnsweredError ==
    ASSUME NEW proc \in Procs \ {"none"}, NEW via \in Handles, Error(proc, via)
    PROVE  Answered' = [what |-> "refused"]
  <1>1. Answer(proc, FALSE, via, NullFh, NoFile)
    BY DEF Error
  <1>2. reply'.proc = proc /\ reply'.ok = FALSE
    BY <1>1, AnswerType, NullType
  <1> QED
    BY <1>2 DEF Answered

LEMMA AnsweredDone ==
    ASSUME reply'.proc \in Procs \ {"none"}, reply'.ok = TRUE,
           reply'.proc = "lookup" => reply'.fh # NullFh
    PROVE  Answered' = [what |-> "done", file |-> reply'.file]
  BY DEF Answered, NullFh, NoFile

(* A step that answers no call. *)
LEMMA MapsToNoCall ==
    ASSUME issued' = issued, lp_tab' = lp_tab \/ lp_tab' = {}, reply' = NoReply
    PROVE  Promise!Next
  <1>1. Granted' = Granted /\ Known' \in {Known, {}}
    BY DEF Granted, Known, NullFh, NoFile
  <1> QED
    BY <1>1, AnsweredNone DEF Promise!Next, Promise!NoCall, Promise!NoAnswer

(* A call that is answered with an error. *)
LEMMA MapsToRefuse ==
    ASSUME issued' = issued, lp_tab' = lp_tab \/ lp_tab' = {},
           Answered' = [what |-> "refused"]
    PROVE  Promise!Next
  <1>1. Granted' = Granted /\ Known' \in {Known, {}}
    BY DEF Granted, Known, NullFh, NoFile
  <1> QED
    BY <1>1 DEF Promise!Next, Promise!Refuse, Promise!Refusal

LEMMA MapsToOops == Oops => Promise!Next
  BY MapsToNoCall DEF Oops

LEMMA MapsToError ==
    ASSUME NEW proc \in Procs \ {"none"}, NEW via \in Handles,
           Error(proc, via), Quiet
    PROVE  Promise!Next
  BY AnsweredError, MapsToRefuse DEF Quiet

(* The handle of inode i may be granted: it means the file it always meant. *)
LEMMA GrantableFh ==
    ASSUME InosFit, SoundInv, NEW i \in Ino
    PROVE  /\ Grant(Fh(i)) \in Promise!Handle
           /\ Grant(Fh(i)).data = i /\ Grant(Fh(i)).file = FileId(i)
           /\ Fh(i) # NullFh
           /\ Promise!Grantable(Grant(Fh(i)))
  <1>1. Fh(i).data = i /\ Fh(i).file = FileId(i)
    BY DEF InosFit, Fh
  <1>2. Grant(Fh(i)) = [data |-> i, file |-> FileId(i)]
    BY <1>1 DEF Grant
  <1>3. FileId(i) \in [ino : Ino, gen : 0..MaxGen]
    BY DEF FileId, SoundInv, TypeOK
  <1>4. 0 \notin Ino
    BY ConstantsAssumption
  <1>5. \A h \in issued \ {NullFh} : h.data = i => h.file = FileId(i)
    BY <1>1 DEF SoundInv, HandlesSound
  <1>6. \A g \in Granted : g.data = i => g = [data |-> i, file |-> FileId(i)]
    BY <1>5 DEF Granted
  <1>7. Fh(i) # NullFh
    BY <1>1, <1>4 DEF NullFh
  <1> QED
    BY <1>2, <1>3, <1>6, <1>7 DEF Promise!Handle, Promise!Grantable

(* Sending the handle of inode i, or the null handle. *)
LEMMA GrantedAfter ==
    ASSUME NEW i \in Ino, Fh(i) # NullFh
    PROVE  /\ issued' = issued \cup {Fh(i)} => Granted' = Granted \cup {Grant(Fh(i))}
           /\ issued' = issued \cup {NullFh} => Granted' = Granted
  <1>1. NullFh' = NullFh
    BY DEF NullFh, NoFile
  <1> QED
    BY <1>1 DEF Granted, Grant

(* Recording a node for inode i, unless there is one. *)
LEMMA KnownAfter ==
    ASSUME NEW i, NEW p, NEW s,
           lp_tab' = IF InTable(i) THEN lp_tab ELSE lp_tab \cup {Node(i, p, s)}
    PROVE  Known' = Known \cup {i}
  <1>1. Node(i, p, s).ino = i
    BY DEF Node
  <1>2. CASE InTable(i)
    <2>1. i \in Known /\ lp_tab' = lp_tab
      BY <1>2 DEF InTable, Known
    <2> QED
      BY <2>1 DEF Known
  <1>3. CASE ~InTable(i)
    BY <1>1, <1>3 DEF Known
  <1> QED
    BY <1>2, <1>3

(* The handle a client calls with was granted. *)
LEMMA CallerGranted ==
    ASSUME SoundInv, NEW h \in issued, h.type \in {VSNFS_DIR, VSNFS_REG}
    PROVE  Grant(h) \in Granted /\ (Grant(h).data \in Known <=> InTable(h.data))
  <1>1. h # NullFh
    BY DEF NullFh, VSNFS_DIR, VSNFS_REG
  <1>2. Grant(h) \in Granted
    BY <1>1 DEF Granted, Grant
  <1>3. Grant(h).data = h.data
    BY DEF Grant
  <1> QED
    BY <1>2, <1>3 DEF Known, InTable

-------------------------------------------------------------------------------
(* The procedures *)

LEMMA MapsGetroot ==
    ASSUME InosFit, SoundInv, NEW p \in MountPath, vsnfsd_proc_getroot(p)
    PROVE  Promise!Next
  <1>1. "getroot" \in Procs \ {"none"} /\ NullFh \in Handles
    BY NullType DEF Procs
  <1>2. CASE Oops \/ (Error("getroot", NullFh) /\ Quiet)
    BY <1>1, <1>2, MapsToOops, MapsToError
  <1>3. ASSUME NEW w \in path_lookup(p, TRUE), GetrootWalked(p, w),
               ~(Oops \/ (Error("getroot", NullFh) /\ Quiet))
        PROVE  Promise!Next
    <2> DEFINE i == ino_at[p]
    <2>1. p \in Path /\ i \in Ino /\ i # NoIno /\ kind[i] = "dir"
      BY ConstantsAssumption DEF SoundInv, TypeOK, MountsStay
    <2>2. w.ok = TRUE /\ w.ino = i
      BY <1>3, MountWalk DEF GetrootWalked
    <2> HIDE DEF i
    <2>3. /\ \/ reply' = NoReply /\ lp_tab' = {}
             \/ Error("getroot", NullFh) /\ lp_tab' = {}
             \/ /\ Answer("getroot", TRUE, NullFh, Fh(i), FileId(i))
                /\ lp_tab' = {Node(i, p, TRUE)}
          /\ issued' = Sent(issued)
      BY <1>3, <2>2 DEF GetrootWalked
    <2>4. Fh(i) \in Handles /\ FileId(i) \in FileIds
      BY <2>1, FhType DEF SoundInv
    <2>5. CASE Error("getroot", NullFh) /\ lp_tab' = {}
      <3>1. issued' = issued
        BY <1>1, <2>3, <2>5, ErrorType DEF Sent
      <3>2. Answered' = [what |-> "refused"]
        BY <1>1, <2>5, AnsweredError
      <3> QED
        BY <2>5, <3>1, <3>2, MapsToRefuse
    <2>6. CASE /\ Answer("getroot", TRUE, NullFh, Fh(i), FileId(i))
               /\ lp_tab' = {Node(i, p, TRUE)}
      <3>1. /\ issued' = issued \cup {Fh(i)}
            /\ reply'.proc = "getroot" /\ reply'.ok = TRUE
            /\ reply'.file = FileId(i)
        <4>1. Sent(issued) = issued \cup {Fh(i)}
          BY <1>1, <2>4, <2>6, SentEffect
        <4>2. /\ reply'.proc = "getroot" /\ reply'.ok = TRUE
              /\ reply'.file = FileId(i)
          BY <1>1, <2>4, <2>6, AnswerType
        <4> QED
          BY <2>3, <4>1, <4>2
      <3>2. Answered' = [what |-> "done", file |-> FileId(i)]
        BY <1>1, <3>1, AnsweredDone
      <3>3. Known' = {i}
        BY <2>6 DEF Known, Node
      <3>4. Granted' = Granted \cup {Grant(Fh(i))}
        BY <2>1, <3>1, GrantableFh, GrantedAfter
      <3>5. Promise!Mount(Grant(Fh(i)))
        BY <2>1, <3>2, <3>3, <3>4, GrantableFh DEF Promise!Mount, Promise!Done
      <3> QED
        BY <2>1, <3>5, GrantableFh DEF Promise!Next
    <2>7. CASE reply' = NoReply /\ lp_tab' = {}
      <3>1. issued' = issued
        BY <2>3, <2>7, NoReplyType DEF Sent
      <3> QED
        BY <2>7, <3>1, MapsToNoCall
    <2> QED
      BY <2>3, <2>5, <2>6, <2>7
  <1> QED
    BY <1>2, <1>3 DEF vsnfsd_proc_getroot, Unchanged

LEMMA MapsLookup ==
    ASSUME InosFit, SoundInv, NEW h \in issued, NEW n \in Name,
           h.type = VSNFS_DIR, vsnfsd_proc_lookup(h, n)
    PROVE  Promise!Next
  <1>1. "lookup" \in Procs \ {"none"} /\ h \in Handles
    BY DEF Procs, SoundInv, TypeOK
  <1>2. h.data \in Ino /\ h.file = FileId(h.data) /\ kind[h.data] = "dir"
    BY HandleFacts
  <1>3. Grant(h) \in Granted /\ (Grant(h).data \in Known <=> InTable(h.data))
    BY CallerGranted
  <1>4. CASE Oops \/ (Error("lookup", h) /\ Quiet)
    BY <1>1, <1>4, MapsToOops, MapsToError
  <1>5. CASE /\ ~InTable(h.data)
             /\ Answer("lookup", TRUE, h, NullFh, NoFile)
             /\ issued' = Sent(issued)
             /\ lp_tab' = lp_tab
    <2>1. /\ issued' = issued \cup {NullFh}
          /\ reply'.proc = "lookup" /\ reply'.ok = TRUE /\ reply'.fh = NullFh
      BY <1>1, <1>5, SentEffect, AnswerType, NullType
    <2>2. Answered' = [what |-> "empty"]
      BY <2>1 DEF Answered, NullFh, NoFile
    <2>3. Granted' = Granted /\ Known' = Known
      BY <1>2, <1>5, <2>1, GrantableFh, GrantedAfter DEF Known
    <2>4. Promise!LookUpForgotten(Grant(h))
      BY <1>3, <1>5, <2>2, <2>3 DEF Promise!LookUpForgotten, Promise!Nothing
    <2> QED
      BY <1>3, <2>4 DEF Promise!Next
  <1>6. ASSUME NEW node \in lp_tab, node.ino = h.data,
               NEW w \in path_lookup(Extend(node, n), FALSE),
               LookupWalked(h, Extend(node, n), w),
               ~(Oops \/ (Error("lookup", h) /\ Quiet))
        PROVE  Promise!Next
    <2> DEFINE p == Append(node.path, n)
               f == FileId(node.ino)
    <2>1. Extend(node, n) = p
      BY <1>2, <1>6 DEF Extend, SoundInv, TableSound
    <2>2. w.ok \in BOOLEAN /\ w.ino \in Ino \cup {NoIno}
      BY PathLookupType DEF SoundInv
    <2>3. w.ino # NoIno
      BY <1>6 DEF LookupWalked, Recorded
    <2>4. /\ InoAt(SubSeq(p, 1, Len(p) - 1)) = node.ino
          /\ ~w.ok => w.ino = node.ino
      BY <1>6, <2>1, <2>3, WalkFromNode
    <2>5. node.ino \in Ino /\ node.ino # NoIno
      BY NodePath
    <2> HIDE DEF p
    <2>6. /\ Answer("lookup", w.ok, h, Fh(w.ino), f)
          /\ lp_tab' = IF InTable(w.ino) THEN lp_tab
                       ELSE lp_tab \cup {Node(w.ino, p, kind[w.ino] = "dir")}
          /\ issued' = Sent(issued)
      BY <1>6, <2>1, <2>3, <2>4, <2>5 DEF LookupWalked, Recorded
    <2>7. w.ino \in Ino /\ Fh(w.ino) \in Handles /\ f \in FileIds
      BY <2>2, <2>3, <2>5, FhType DEF SoundInv
    <2>8. CASE ~w.ok
      <3>1. Error("lookup", h) /\ issued' = issued
        <4>1. Answer("lookup", FALSE, h, Fh(w.ino), f)
          BY <2>2, <2>6, <2>8
        <4>2. Sent(issued) = issued
          BY <1>1, <2>7, <4>1, SentEffect
        <4>3. Error("lookup", h)
          BY <4>1 DEF Error, Answer
        <4> QED
          BY <2>6, <4>2, <4>3
      <3>2. lp_tab' = lp_tab
        BY <2>4, <2>6, <2>8 DEF InTable
      <3>3. Answered' = [what |-> "refused"]
        BY <1>1, <3>1, AnsweredError
      <3> QED
        BY <3>1, <3>2, <3>3, MapsToRefuse
    <2>9. CASE w.ok
      <3> DEFINE i == w.ino
      <3> HIDE DEF f
      <3>0. i \in Ino
        BY <2>7
      <3>1. /\ issued' = issued \cup {Fh(i)}
            /\ reply'.proc = "lookup" /\ reply'.ok = TRUE
            /\ reply'.fh = Fh(i) /\ reply'.file = f
        <4>1. Answer("lookup", TRUE, h, Fh(i), f)
          BY <2>2, <2>6, <2>9
        <4>2. Sent(issued) = issued \cup {Fh(i)}
          BY <1>1, <2>7, <4>1, SentEffect
        <4>3. /\ reply'.proc = "lookup" /\ reply'.ok = TRUE
              /\ reply'.fh = Fh(i) /\ reply'.file = f
          BY <1>1, <2>7, <4>1, AnswerType
        <4> QED
          BY <2>6, <4>2, <4>3
      <3> HIDE DEF i
      <3>2. Answered' = [what |-> "done", file |-> f]
        BY <1>1, <3>0, <3>1, GrantableFh, AnsweredDone
      <3>3. Known' = Known \cup {i}
        BY <2>6, KnownAfter DEF i
      <3>4. Granted' = Granted \cup {Grant(Fh(i))}
        BY <3>0, <3>1, GrantableFh, GrantedAfter
      <3>5. Grant(h).file = f /\ Grant(h).data \in Known
        BY <1>2, <1>3, <1>6 DEF Grant, f, InTable
      <3>6. Promise!LookUp(Grant(h), Grant(Fh(i)))
        BY <3>0, <3>2, <3>3, <3>4, <3>5, GrantableFh DEF Promise!LookUp, Promise!Done
      <3> QED
        BY <1>3, <3>0, <3>6, GrantableFh DEF Promise!Next
    <2> QED
      BY <2>8, <2>9
  <1> QED
    BY <1>4, <1>5, <1>6 DEF vsnfsd_proc_lookup, Unchanged

LEMMA MapsRead ==
    ASSUME SoundInv, NEW h \in issued, h.type \in {VSNFS_DIR, VSNFS_REG},
           vsnfsd_proc_readdir(h)
             \/ (\E offset \in Offset : vsnfsd_proc_read(h, offset))
    PROVE  Promise!Next
  <1>1. {"readdir", "read"} \subseteq Procs \ {"none"} /\ h \in Handles
    BY DEF Procs, SoundInv, TypeOK
  <1>2. h.data \in Ino /\ h.file = FileId(h.data)
    BY HandleFacts
  <1>3. CASE Oops \/ ((Error("readdir", h) \/ Error("read", h)) /\ Unchanged)
    BY <1>1, <1>3, MapsToOops, MapsToError DEF Unchanged
  <1>4. ASSUME NEW i \in vsnfsd_open(h), Unchanged,
               reply'.proc \in {"readdir", "read"}, reply'.ok = TRUE,
               reply'.file = FileId(i)
        PROVE  Promise!Next
    <2>1. PICK node \in lp_tab : node.ino = h.data /\ i = InoAt(node.path)
      BY DEF vsnfsd_open
    <2>2. i = h.data /\ InTable(h.data)
      BY <2>1 DEF SoundInv, TableSound, InTable
    <2>3. Answered' = [what |-> "done", file |-> h.file]
      BY <1>1, <1>2, <1>4, <2>2, AnsweredDone
    <2>4. Granted' = Granted /\ Known' = Known
      BY <1>4 DEF Unchanged, Quiet, Granted, Known, NullFh, NoFile
    <2>5. Grant(h) \in Granted /\ Grant(h).data \in Known /\ Grant(h).file = h.file
      BY <2>2, CallerGranted DEF Grant
    <2>6. Promise!Use(Grant(h))
      BY <2>3, <2>4, <2>5 DEF Promise!Use, Promise!Done
    <2> QED
      BY <2>5, <2>6 DEF Promise!Next
  <1>5. ASSUME NEW i \in vsnfsd_open(h), Unchanged,
               Answer("readdir", TRUE, h, NullFh, FileId(i))
        PROVE  Promise!Next
    <2>1. FileId(i) \in FileIds /\ NullFh \in Handles
      BY OpenType, FhType, NullType DEF SoundInv
    <2>2. /\ reply'.proc = "readdir" /\ reply'.ok = TRUE
          /\ reply'.file = FileId(i)
      BY <1>1, <1>5, <2>1, AnswerType
    <2> QED
      BY <1>4, <1>5, <2>2
  <1>6. ASSUME NEW i \in vsnfsd_open(h), NEW offset, NEW pos, Unchanged,
               reply' = [NoReply EXCEPT !.proc = "read", !.ok = TRUE,
                                        !.via = h, !.file = FileId(i),
                                        !.offset = offset, !.pos = pos]
        PROVE  Promise!Next
    <2>1. /\ reply'.proc = "read" /\ reply'.ok = TRUE
          /\ reply'.file = FileId(i)
      BY <1>6 DEF NoReply
    <2> QED
      BY <1>4, <1>6, <2>1
  <1> QED
    BY <1>3, <1>5, <1>6 DEF vsnfsd_proc_readdir, vsnfsd_proc_read, OpenOops

-------------------------------------------------------------------------------
(* The procedures of the server, with the table behind them, keep the        *)
(* promise of HandleService: a handle is granted for one file and means that *)
(* file for as long as the server runs, LOOKUP, READDIR and READ through a   *)
(* handle with a node are about its file, and handles are forgotten only all *)
(* at once, by GETROOT or a reload.                                          *)
THEOREM ServerKeepsPromise ==
    ASSUME InosFit, OnlyAdds
    PROVE  Spec => KeepsPromise
  <1>1. Init => Promise!Init
    <2> SUFFICES ASSUME Init PROVE Promise!Init
      OBVIOUS
    <2>1. Granted = {} /\ Known = {}
      BY DEF Init, Granted, Known
    <2>2. Answered = [what |-> "none"]
      <3>1. reply.proc = "none"
        BY DEF Init, NoReply
      <3> QED
        BY <3>1 DEF Answered
    <2> QED
      BY <2>1, <2>2 DEF Promise!Init, Promise!NoAnswer
  <1>2. SoundInv /\ [Next]_vars => [Promise!Next]_Promise!vars
    <2> SUFFICES ASSUME SoundInv, [Next]_vars
                 PROVE  Promise!Next \/ UNCHANGED Promise!vars
      OBVIOUS
    <2>1. CASE Getroot
      BY <2>1, MapsGetroot DEF Getroot
    <2>2. CASE Lookup
      BY <2>2, MapsLookup DEF Lookup
    <2>3. CASE ReadDir \/ Read
      <3>1. PICK h \in issued :
              /\ h.type \in {VSNFS_DIR, VSNFS_REG}
              /\ vsnfsd_proc_readdir(h)
                   \/ (\E offset \in Offset : vsnfsd_proc_read(h, offset))
        BY <2>3 DEF ReadDir, Read
      <3> QED
        BY <3>1, MapsRead
    <2>4. CASE FsChange
      <3>1. NoCall
        BY <2>4 DEF FsChange, FsCreate, FsLink, FsRemove, FsRename
      <3> QED
        BY <3>1, MapsToNoCall DEF NoCall
    <2>5. CASE Reload
      BY <2>5, MapsToNoCall DEF Reload
    <2>6. CASE UNCHANGED vars
      <3>1. issued' = issued /\ lp_tab' = lp_tab /\ reply' = reply
        BY <2>6 DEF vars
      <3> QED
        BY <3>1 DEF Promise!vars, Granted, Known, Answered, NullFh, NoFile
    <2> QED
      BY <2>1, <2>2, <2>3, <2>4, <2>5, <2>6 DEF Next
  <1> QED
    BY <1>1, <1>2, SoundAlways, PTL DEF Spec, KeepsPromise, Promise!Spec
===============================================================================
