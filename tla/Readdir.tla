------------------------------- MODULE Readdir -------------------------------
(***************************************************************************)
(* Listing a directory, from the user's getdents loop to the page of        *)
(* entries the server encodes: vsnfsd_proc_readdir and its filler on the    *)
(* server, vsnfs_readdir and the decoder on the client.                     *)
(*                                                                         *)
(* The page is modelled word by word, because both sides compute positions  *)
(* in it independently; what a word holds is an integer (a name is its      *)
(* file's number, once per word).                                           *)
(***************************************************************************)
EXTENDS Integers, Sequences

CONSTANTS
    PageWords,        \* 32-bit words in a page; 1024 in the code
    Count,            \* bytes the client asks for; PAGE_CACHE_SIZE
    VSNFS_MAXNAMLEN,  \* 255 in vsnfs.h
    Entry,            \* the kinds of directory entries: [len, big]
    MaxEntries,       \* bound: entries of a directory
    UserSlots,        \* entries the user's getdents buffer has room for
    Faults            \* may page allocation, RPC or the file system fail?

(* big says which 64-bit number of the entry does not fit in 32 bits. *)
ASSUME ReaddirAssumption ==
    /\ PageWords \in Nat /\ PageWords >= 2
    /\ Count \in Nat /\ Count >= 8
    /\ VSNFS_MAXNAMLEN \in Nat
    /\ Entry \subseteq [len : Nat, big : {"none", "offset", "ino"}]
    /\ MaxEntries \in Nat
    /\ UserSlots \in Nat
    /\ Faults \in BOOLEAN

VARIABLES
    dir,      \* the directory on the server
    pc,       \* where the listing is
    next,     \* the entry vfs_readdir passes to the filler next
    page,     \* the words up to resp->buffer
    buflen,   \* resp->buflen: words left for entries
    offset,   \* resp->offset: index of the last entry's offset word, or 0
    err,      \* resp->err
    ptr,      \* desc->ptr: index of the word the client decodes next
    f_pos,    \* filp->f_pos
    seen,     \* entries passed to filldir in the current or last call
    listed,   \* history: the files passed to filldir in earlier calls
    held      \* is a page left allocated that nobody refers to?

vars == <<dir, pc, next, page, buflen, offset, err, ptr, f_pos, seen, listed, held>>

server == <<next, page, buflen, offset, err>>
client == <<ptr, f_pos, seen, listed, held>>

XDR_QUADLEN(n) == (n + 3) \div 4

(* XDR_QUADLEN(VSNFS_FHSIZE) *)
FhWords == 2

(* htonl(~0U): the offset of the next entry is not known yet *)
NoOffset == -1

(* d_type of a regular file, which the filler sends as the handle's type *)
DT_REG == 8

(* filename truncated by the filler *)
NameLen(e) == IF e.len > VSNFS_MAXNAMLEN THEN VSNFS_MAXNAMLEN ELSE e.len

Repeat(w, n) == [k \in 1..n |-> w]

-------------------------------------------------------------------------------
(* The client asks *)

(* The end of vsnfs_readdir.  getdents gives the user the entries that were  *)
(* filled in, if any, even when vsnfs_readdir failed; the user calls it      *)
(* again until there are none.                                               *)
Return(s) ==
    /\ pc' = IF s = <<>> THEN "done" ELSE "user"
    /\ seen' = s

(* A new getdents call. *)
Call ==
    /\ pc = "user"
    /\ seen' = <<>>
    /\ listed' = listed \cup {seen[k].ino : k \in DOMAIN seen}

(* vsnfs_readdir returns 0 at the end of the directory.  At its start        *)
(* simple_readdir fails if it gets no page.                                  *)
ReaddirReturns ==
    /\ Call
    /\ f_pos # 0 \/ Faults
    /\ Return(<<>>)
    /\ UNCHANGED <<dir, server, ptr, f_pos, held>>

(* Mutant: resp->offset keeps pointing into the page of the last call. *)
ReaddirKeepsOffset ==
    /\ Call
    /\ f_pos = 0
    /\ buflen' = (Count \div 4) - 2
    /\ pc' = "fill"
    /\ next' = 1
    /\ page' = <<>>
    /\ err' = "ok"
    /\ UNCHANGED <<dir, offset, ptr, f_pos, held>>

(* simple_readdir sends the call; vsnfssvc_decode_readdirargs and            *)
(* vsnfsd_proc_readdir set up the reply.                                     *)
vsnfsd_proc_readdir ==
    /\ Call
    /\ f_pos = 0
    /\ LET count == IF Count > 4 * PageWords THEN 4 * PageWords ELSE Count
           words == (count \div 4) - 2
       IN  buflen' = IF words < 0 THEN 0 ELSE words
    /\ pc' = "fill"
    /\ next' = 1
    /\ page' = <<>>
    /\ offset' = 0
    /\ err' = "ok"
    /\ UNCHANGED <<dir, ptr, f_pos, held>>

(* simple_readdir gets an error: the open or vfs_readdir failed, or the RPC  *)
(* did.  The page is not freed.                                              *)
ReaddirFails ==
    /\ pc \in {"fill", "stopped"}
    /\ Faults
    /\ Return(<<>>)
    /\ held' = TRUE
    /\ UNCHANGED <<dir, server, ptr, f_pos, listed>>

-------------------------------------------------------------------------------
(* The server fills the page *)

(* The words of entry n, of name length len, in the order they are written. *)
EntryWords(n, len) ==
    <<1, n, len>> \o Repeat(n, XDR_QUADLEN(len)) \o Repeat(n, FhWords)
        \o <<DT_REG, NoOffset>>

(* Mutant: the words of an entry beside name and handle data counted as 4. *)
BuflenAfterFour(len) == buflen - XDR_QUADLEN(len) - (4 + FhWords)

(* res->buflen after an entry with a name of length len *)
BuflenAfter(len) == buflen - XDR_QUADLEN(len) - (5 + FhWords)

(* vfs_readdir passes entry next to the filler.  The filler returns -EINVAL, *)
(* which stops vfs_readdir, with the reason in err.                          *)
vsnfssvc_encode_entry ==
    /\ pc = "fill"
    /\ next <= Len(dir)
    /\ LET len     == NameLen(dir[next])
           patched == IF offset = 0 THEN page ELSE [page EXCEPT ![offset] = next]
       IN  \/ /\ dir[next].big = "offset"
              /\ err' = "fbig"
              /\ pc' = "stopped"
              /\ UNCHANGED <<next, page, buflen, offset>>
           \/ /\ dir[next].big # "offset"
              /\ BuflenAfter(len) < 0 \/ dir[next].big = "ino"
              /\ err' = IF BuflenAfter(len) < 0 THEN "toosmall" ELSE "fbig"
              /\ pc' = "stopped"
              /\ page' = patched
              /\ UNCHANGED <<next, buflen, offset>>
           \/ /\ dir[next].big = "none"
              /\ BuflenAfter(len) >= 0
              /\ page' = patched \o EntryWords(next, len)
              /\ offset' = Len(page')
              /\ buflen' = BuflenAfter(len)
              /\ next' = next + 1
              /\ UNCHANGED <<pc, err>>
    /\ UNCHANGED <<dir, client>>

(* Mutant: no eof flag. *)
EncodeNoEof ==
    /\ pc = "stopped" \/ (pc = "fill" /\ next > Len(dir))
    /\ page' = page \o <<0>>
    /\ pc' = "decode"
    /\ ptr' = 1
    /\ UNCHANGED <<dir, next, buflen, offset, err, f_pos, seen, listed, held>>

(* vfs_readdir returned 0, at the end of the directory or after the filler   *)
(* stopped it: end the list and say whether it is complete.  The client maps *)
(* the page it received.                                                     *)
vsnfssvc_encode_readdirres ==
    /\ pc = "stopped" \/ (pc = "fill" /\ next > Len(dir))
    /\ page' = page \o <<0, IF err = "ok" THEN 1 ELSE 0>>
    /\ pc' = "decode"
    /\ ptr' = 1
    /\ UNCHANGED <<dir, next, buflen, offset, err, f_pos, seen, listed, held>>

-------------------------------------------------------------------------------
(* The client decodes it *)

(* Mutant: the offset is taken from the word of the type. *)
DecodedSwapped(p) ==
    LET len == page[p + 2]
        fh  == p + 3 + XDR_QUADLEN(len)
        off == fh + FhWords
    IN  [ino |-> page[p + 1], len |-> len, offset |-> page[off], after |-> off + 2]

(* vsnfs_decode_dirent at word p: the entry, and the word after it. *)
Decoded(p) ==
    LET len == page[p + 2]
        fh  == p + 3 + XDR_QUADLEN(len)
        off == fh + FhWords + 1
    IN  [ino |-> page[p + 1], len |-> len, offset |-> page[off], after |-> off + 1]

(* Mutants: the flag is not looked at; it is taken the wrong way round. *)
EofUnflagged(p) == page[p] = 0
EofInverted(p)  == page[p] = 0 /\ page[p + 1] = 0

(* entry->eof = !p[0] && p[1] *)
Eof(p) == page[p] = 0 /\ page[p + 1] # 0

(* One round of the loop of vsnfs_do_filldir. *)

(* No entry here: -EBADCOOKIE.  The page is not released. *)
FilldirNoEntry ==
    /\ pc = "decode"
    /\ page[ptr] = 0
    /\ Return(seen)
    /\ held' = TRUE
    /\ UNCHANGED <<dir, server, ptr, f_pos, listed>>

(* The user's buffer has no room: filldir fails.  The page is not released. *)
FilldirNoRoom ==
    /\ pc = "decode"
    /\ page[ptr] # 0
    /\ Len(seen) = UserSlots
    /\ Return(seen)
    /\ held' = TRUE
    /\ UNCHANGED <<dir, server, ptr, f_pos, listed>>

FilldirEntry ==
    /\ pc = "decode"
    /\ page[ptr] # 0
    /\ Len(seen) < UserSlots
    /\ LET e == Decoded(ptr)
           s == Append(seen, [ino |-> e.ino, len |-> e.len, offset |-> e.offset])
       IN  /\ ptr' = e.after
           /\ IF Eof(e.after)
                THEN /\ f_pos' = 4096        \* and dir_page_release
                     /\ Return(s)
                ELSE /\ seen' = s
                     /\ UNCHANGED <<pc, f_pos>>
    /\ UNCHANGED <<dir, server, listed, held>>

-------------------------------------------------------------------------------
(* The directory starts with "." and "..", and does not change meanwhile. *)
Directory ==
    {<<[len |-> 1, big |-> "none"], [len |-> 2, big |-> "none"]>> \o s :
        s \in UNION {[1..n -> Entry] : n \in 0..MaxEntries - 2}}

Init ==
    /\ dir \in Directory
    /\ pc = "user"
    /\ next = 1
    /\ page = <<>>
    /\ buflen = 0
    /\ offset = 0
    /\ err = "ok"
    /\ ptr = 1
    /\ f_pos = 0
    /\ seen = <<>>
    /\ listed = {}
    /\ held = FALSE

(* The user has the listing, or an error. *)
Done == pc = "done" /\ UNCHANGED vars

Next ==
    \/ ReaddirReturns \/ vsnfsd_proc_readdir \/ ReaddirFails
    \/ vsnfssvc_encode_entry \/ vsnfssvc_encode_readdirres
    \/ FilldirNoEntry \/ FilldirNoRoom \/ FilldirEntry \/ Done

Spec == Init /\ [][Next]_vars

(* The user's loop, the client and the service keep running: the calls are   *)
(* synchronous and the one service thread has nothing else to wait for.      *)
FairSpec == Spec /\ WF_vars(Next)

-------------------------------------------------------------------------------
(* Properties *)

(* Every variable has its type. *)
TypeOK ==
    /\ dir \in Seq([len : Nat, big : {"none", "offset", "ino"}])
    /\ pc \in {"user", "fill", "stopped", "decode", "done"}
    /\ next \in Nat \ {0}
    /\ page \in Seq(Int)
    /\ buflen \in Nat
    /\ offset \in 0..Len(page)
    /\ err \in {"ok", "toosmall", "fbig"}
    /\ ptr \in Nat \ {0}
    /\ f_pos \in {0, 4096}
    /\ seen \in Seq([ino : Int, len : Int, offset : Int])
    /\ listed \subseteq Int
    /\ held \in BOOLEAN

(* The server never writes past the page, nor more than the client asked     *)
(* for, the end mark and eof flag of vsnfssvc_encode_readdirres included.    *)
PageBound ==
    Len(page) <= PageWords /\ 4 * Len(page) <= Count

(* The client reads only words the server wrote, the two words it looks      *)
(* ahead for the eof flag included: the steps of vsnfs_decode_dirent and     *)
(* those of vsnfssvc_encode_entry agree for every name length.               *)
DecodeInBounds ==
    pc = "decode" =>
        /\ ptr + 1 <= Len(page)
        /\ page[ptr] # 0 => /\ ptr + 2 <= Len(page)
                            /\ Decoded(ptr).after + 1 <= Len(page)

(* One call gives the user the first entries of the directory, in order,     *)
(* each with the offset of the one after it.                                 *)
SeenIsPrefix ==
    \A k \in DOMAIN seen :
        /\ k <= Len(dir)
        /\ seen[k].ino = k
        /\ seen[k].len = NameLen(dir[k])
        /\ k < Len(seen) => seen[k].offset = k + 1

(* The position moves to the end only when the user has every entry: the     *)
(* client is never told that a cut-off listing is complete.                  *)
EndMeansComplete ==
    f_pos # 0 => listed \cup {seen[k].ino : k \in DOMAIN seen} = 1..Len(dir)

(* The whole directory goes into one page and into the user's buffer. *)
Fits ==
    LET Words[k \in 0..Len(dir)] ==
            IF k = 0 THEN 0 ELSE Words[k - 1] + Len(EntryWords(k, NameLen(dir[k])))
    IN  /\ 4 * (Words[Len(dir)] + 2) <= Count
        /\ Words[Len(dir)] + 2 <= PageWords
        /\ Len(dir) <= UserSlots
        /\ \A k \in DOMAIN dir : dir[k].big = "none"

(* No entry of a directory that fits is given to the user twice while it     *)
(* stays open.                                                               *)
NoEntryTwice ==
    Fits => \A k \in DOMAIN seen : seen[k].ino \notin listed

(* The page of entries of a directory that fits is released, unless the call *)
(* failed before there was an entry in it.                                   *)
PageReleased ==
    Fits /\ held => pc = "done" /\ seen = <<>>

(* The user's loop over getdents ends, for a directory that fits. *)
FittingListingEnds == Fits => <>(pc = "done")

(* It ends for every directory. *)
ListingEnds == <>(pc = "done")
===============================================================================
