----------------------------- MODULE ReaddirProofs -----------------------------
(***************************************************************************)
(* The server's filler never writes past the page of a READDIR reply, for   *)
(* every size of page and request and every directory.                      *)
(***************************************************************************)
EXTENDS Readdir, SequenceTheorems, TLAPS

(* The words there are for a reply: the page, or less if the client asks for *)
(* less.                                                                     *)
Limit == (IF Count > 4 * PageWords THEN 4 * PageWords ELSE Count) \div 4

(* The parts of the state the filler computes with. *)
FillType ==
    /\ dir \in Seq([len : Nat, big : {"none", "offset", "ino"}])
    /\ next \in Nat \ {0}
    /\ page \in Seq(Int)
    /\ buflen \in Nat
    /\ offset \in 0..Len(page)

(* The inductive invariant: while entries are added, buflen counts the words *)
(* left, with two kept back for the end mark and the eof flag.               *)
FillInv ==
    /\ FillType
    /\ Len(page) <= Limit
    /\ pc \in {"fill", "stopped"} => Len(page) + buflen + 2 <= Limit

(* The limit is within the page and the request, and has room for the end.  *)
LEMMA LimitFits ==
    /\ Limit \in Nat /\ Limit >= 2
    /\ Limit <= PageWords /\ 4 * Limit <= Count
  BY ReaddirAssumption DEF Limit

(* A name takes a whole number of words. *)
LEMMA QuadlenType ==
    ASSUME NEW n \in Nat
    PROVE  XDR_QUADLEN(n) \in Nat
  BY DEF XDR_QUADLEN

(* An entry takes the words BuflenAfter subtracts. *)
LEMMA EntryLength ==
    ASSUME NEW n \in Nat, NEW len \in Nat
    PROVE  /\ EntryWords(n, len) \in Seq(Int)
           /\ Len(EntryWords(n, len)) = XDR_QUADLEN(len) + (5 + FhWords)
  <1> DEFINE q == XDR_QUADLEN(len)
  <1>1. q \in Nat
    BY QuadlenType
  <1> HIDE DEF q
  <1>2. /\ Repeat(n, q) \in Seq(Int) /\ Len(Repeat(n, q)) = q
        /\ Repeat(n, FhWords) \in Seq(Int) /\ Len(Repeat(n, FhWords)) = 2
    BY <1>1 DEF Repeat, FhWords
  <1>3. /\ <<1, n, len>> \in Seq(Int) /\ Len(<<1, n, len>>) = 3
        /\ <<DT_REG, NoOffset>> \in Seq(Int) /\ Len(<<DT_REG, NoOffset>>) = 2
    BY DEF DT_REG, NoOffset
  <1>4. EntryWords(n, len) = <<1, n, len>> \o Repeat(n, q) \o Repeat(n, FhWords)
                                \o <<DT_REG, NoOffset>>
    BY DEF EntryWords, q
  <1> DEFINE a == <<1, n, len>> \o Repeat(n, q)
             b == a \o Repeat(n, FhWords)
  <1>5. a \in Seq(Int) /\ Len(a) = 3 + q
    BY <1>1, <1>2, <1>3, ConcatProperties
  <1> HIDE DEF a
  <1>6. b \in Seq(Int) /\ Len(b) = 5 + q
    <2> DEFINE h == Repeat(n, FhWords)
    <2>1. h \in Seq(Int) /\ Len(h) = 2
      BY <1>2
    <2> HIDE DEF h
    <2>2. a \o h \in Seq(Int) /\ Len(a \o h) = Len(a) + Len(h)
      BY <1>5, <2>1, ConcatProperties
    <2>3. b = a \o h
      BY DEF h
    <2> QED
      BY <1>1, <1>5, <2>1, <2>2, <2>3
  <1>7. EntryWords(n, len) = b \o <<DT_REG, NoOffset>>
    BY <1>4 DEF a
  <1> HIDE DEF b
  <1>8. EntryWords(n, len) \in Seq(Int) /\ Len(EntryWords(n, len)) = 7 + q
    BY <1>1, <1>3, <1>6, <1>7, ConcatProperties
  <1> QED
    BY <1>1, <1>8 DEF FhWords, q

(* A step that leaves the reply alone and adds no entry. *)
LEMMA FillQuiet ==
    ASSUME FillInv, UNCHANGED <<dir, next, page, buflen, offset>>,
           pc' \in {"fill", "stopped"} => pc \in {"fill", "stopped"}
    PROVE  FillInv'
  BY DEF FillInv, FillType

(* A new reply is empty, and all its words but two are for entries. *)
LEMMA FillStarts ==
    ASSUME FillInv, vsnfsd_proc_readdir
    PROVE  FillInv'
  <1>1. buflen' = Limit - 2
    BY LimitFits DEF vsnfsd_proc_readdir, Limit
  <1>2. page' = <<>> /\ next' = 1 /\ dir' = dir /\ offset' = 0
    BY DEF vsnfsd_proc_readdir
  <1> QED
    BY <1>1, <1>2, LimitFits DEF FillInv, FillType

(* Filling in the offset of the entry before changes no length. *)
LEMMA FillEntry ==
    ASSUME FillInv, vsnfssvc_encode_entry
    PROVE  FillInv'
  <1> DEFINE len     == NameLen(dir[next])
             patched == IF offset = 0 THEN page ELSE [page EXCEPT ![offset] = next]
  <1>1. next \in 1..Len(dir) /\ pc = "fill" /\ dir' = dir
    BY DEF vsnfssvc_encode_entry, FillInv, FillType
  <1>2. len \in Nat
    <2>1. dir[next] \in [len : Nat, big : {"none", "offset", "ino"}]
      BY <1>1, ElementOfSeq DEF FillInv, FillType
    <2>2. dir[next].len \in Nat
      BY <2>1
    <2> QED
      BY <2>2, ReaddirAssumption DEF NameLen
  <1>3. patched \in Seq(Int) /\ Len(patched) = Len(page)
    <2>1. page \in Seq(Int) /\ Len(page) \in Nat /\ next \in Int
      BY DEF FillInv, FillType
    <2>2. CASE offset = 0
      BY <2>1, <2>2
    <2>3. CASE offset # 0
      <3>1. offset \in 1..Len(page)
        BY <2>1, <2>3 DEF FillInv, FillType
      <3>2. /\ [page EXCEPT ![offset] = next] \in Seq(Int)
            /\ Len([page EXCEPT ![offset] = next]) = Len(page)
        BY <2>1, <3>1, ExceptSeq
      <3> QED
        BY <2>3, <3>2
    <2> QED
      BY <2>2, <2>3
  <1>4. \/ page' = page /\ UNCHANGED <<next, buflen, offset>>
        \/ page' = patched /\ UNCHANGED <<next, buflen, offset>>
        \/ /\ page' = patched \o EntryWords(next, len)
           /\ buflen' = BuflenAfter(len) /\ BuflenAfter(len) >= 0
           /\ next' = next + 1 /\ offset' = Len(page')
    BY DEF vsnfssvc_encode_entry
  <1> HIDE DEF patched, len
  <1>5. CASE page' \in {page, patched} /\ UNCHANGED <<next, buflen, offset>>
    BY <1>1, <1>3, <1>5 DEF FillInv, FillType
  <1>6. CASE /\ page' = patched \o EntryWords(next, len)
             /\ buflen' = BuflenAfter(len) /\ BuflenAfter(len) >= 0
             /\ next' = next + 1 /\ offset' = Len(page')
    <2> DEFINE words == EntryWords(next, len)
               q     == XDR_QUADLEN(len)
    <2>1. words \in Seq(Int) /\ Len(words) = q + (5 + FhWords) /\ q \in Nat
      BY <1>1, <1>2, EntryLength, QuadlenType DEF FillInv, FillType
    <2>2. buflen' = buflen - q - (5 + FhWords) /\ buflen' >= 0
      BY <1>6 DEF BuflenAfter
    <2> HIDE DEF words, q
    <2>3. page' = patched \o words
      BY <1>6 DEF words
    <2>4. page' \in Seq(Int) /\ Len(page') = Len(page) + q + (5 + FhWords)
      <3>1. patched \o words \in Seq(Int)
            /\ Len(patched \o words) = Len(patched) + Len(words)
        BY <1>3, <2>1, ConcatProperties
      <3>2. Len(page) \in Nat
        BY DEF FillInv, FillType
      <3> QED
        BY <1>3, <2>1, <2>3, <3>1, <3>2 DEF FhWords
    <2>5. Len(page') + buflen' = Len(page) + buflen /\ buflen' \in Nat
      BY <2>1, <2>2, <2>4 DEF FhWords, FillInv, FillType
    <2>6. Len(page) + buflen + 2 <= Limit
      BY <1>1 DEF FillInv
    <2>7. FillType'
      <3>1. Len(page') \in Nat
        BY <2>4, LenProperties
      <3>2. offset' \in 0..Len(page')
        BY <1>6, <3>1
      <3>3. next' \in Nat \ {0}
        BY <1>6 DEF FillInv, FillType
      <3>4. dir' \in Seq([len : Nat, big : {"none", "offset", "ino"}])
        BY <1>1 DEF FillInv, FillType
      <3> QED
        BY <2>4, <2>5, <3>2, <3>3, <3>4 DEF FillType
    <2>8. Len(page') + buflen' + 2 <= Limit /\ Len(page') <= Limit
      BY <2>4, <2>5, <2>6, LimitFits DEF FillInv, FillType
    <2> QED
      BY <2>7, <2>8 DEF FillInv
  <1> QED
    BY <1>4, <1>5, <1>6

(* The two words kept back are written at the end. *)
LEMMA FillEnds ==
    ASSUME FillInv, vsnfssvc_encode_readdirres
    PROVE  FillInv'
  <1>1. PICK eof \in {0, 1} : page' = page \o <<0, eof>>
    BY DEF vsnfssvc_encode_readdirres
  <1>2. page' \in Seq(Int) /\ Len(page') = Len(page) + 2
    BY <1>1 DEF FillInv, FillType
  <1>3. pc' = "decode" /\ UNCHANGED <<dir, next, buflen, offset>>
    BY DEF vsnfssvc_encode_readdirres
  <1>4. Len(page) + buflen + 2 <= Limit /\ buflen \in Nat
    BY DEF vsnfssvc_encode_readdirres, FillInv, FillType
  <1> QED
    BY <1>2, <1>3, <1>4, LimitFits DEF FillInv, FillType

(* No reply of READDIR is longer than the page or than the client asked for, *)
(* the end mark and the eof flag included: vsnfssvc_encode_entry counts      *)
(* every word it writes, and vsnfsd_proc_readdir keeps two back.             *)
THEOREM PageIsBounded == Spec => []PageBound
  <1>1. Init => FillInv
    <2> SUFFICES ASSUME Init PROVE FillInv
      OBVIOUS
    <2>1. dir \in Seq([len : Nat, big : {"none", "offset", "ino"}])
      <3> DEFINE E == [len : Nat, big : {"none", "offset", "ino"}]
                 d == <<[len |-> 1, big |-> "none"], [len |-> 2, big |-> "none"]>>
      <3>1. PICK s \in UNION {[1..n -> Entry] : n \in 0..MaxEntries - 2} : dir = d \o s
        BY DEF Init, Directory
      <3>2. PICK n \in 0..MaxEntries - 2 : s \in [1..n -> Entry]
        OBVIOUS
      <3>3. s \in Seq(E)
        <4>1. s \in [1..n -> E] /\ n \in Nat
          BY <3>2, ReaddirAssumption
        <4> HIDE DEF E
        <4> QED
          BY <4>1, SeqDef
      <3>4. d \in Seq(E)
        OBVIOUS
      <3> QED
        BY <3>1, <3>3, <3>4, ConcatProperties
    <2>2. next = 1 /\ page = <<>> /\ buflen = 0 /\ offset = 0 /\ pc = "user"
      BY DEF Init
    <2> QED
      BY <2>1, <2>2, LimitFits DEF FillInv, FillType
  <1>2. FillInv /\ [Next]_vars => FillInv'
    <2> SUFFICES ASSUME FillInv, [Next]_vars PROVE FillInv'
      OBVIOUS
    <2>1. CASE ReaddirReturns \/ ReaddirFails
      BY <2>1, FillQuiet DEF ReaddirReturns, ReaddirFails, Return, server
    <2>2. CASE vsnfsd_proc_readdir
      BY <2>2, FillStarts
    <2>3. CASE vsnfssvc_encode_entry
      BY <2>3, FillEntry
    <2>4. CASE vsnfssvc_encode_readdirres
      BY <2>4, FillEnds
    <2>5. CASE FilldirNoEntry \/ FilldirNoRoom
      BY <2>5, FillQuiet DEF FilldirNoEntry, FilldirNoRoom, Return, server
    <2>6. CASE FilldirEntry
      BY <2>6, FillQuiet DEF FilldirEntry, Return, server
    <2>7. CASE Done \/ UNCHANGED vars
      BY <2>7, FillQuiet DEF Done, vars
    <2> QED
      BY <2>1, <2>2, <2>3, <2>4, <2>5, <2>6, <2>7 DEF Next
  <1>3. FillInv => PageBound
    BY LimitFits, ReaddirAssumption DEF FillInv, FillType, PageBound
  <1> QED
    BY <1>1, <1>2, <1>3, PTL DEF Spec
===============================================================================
