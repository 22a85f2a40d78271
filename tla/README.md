# A verification of vsnfs

vsnfs ("Very Simple Network FileSystem") is a pair of Linux 2.6.31 kernel
modules: a client file system (`src/*.c`) and a server (`src/server/*.c`) that
talk over sunrpc.  This directory holds TLA+ models of the server's procedures,
of its service's life cycle, of the client's inodes, dentries and mounts, of the
RPC traffic between the two sides, of a directory listing across both, and of
the way errors travel; TLC configurations that check them on small instances;
and TLAPS proofs, for all instances, about the server's handle table and the
promise it keeps, the client's inodes and references, the page of a listing, and
the server module's references.

## 1. The system

| part | state | operations | talks to |
|---|---|---|---|
| server procedures (`vsnfsproc.c`, `vfs.c`) | the table `vsnfs_lp_tab` of (inode number, path) nodes | NULL, GETROOT, LOOKUP, READDIR, READ | the server's VFS; called by `vsnfsd_dispatch` |
| XDR coding (`vsnfsxdr.c`, `vsnfsXdr.c`) | none; positions in a page | decode arguments, encode results, the READDIR filler and the client's entry decoder | both sides compute positions independently |
| service (`vsnfssvc.c`) | `svc_serv` with `sv_nrthreads`, sockets, lockd users, module references, thread | insmod, start, receive loop, signals, shutdown function, rmmod | the kernel's sunrpc and module loader |
| status conversion (`vsnfserrno`, `vsnfs_stat_to_errno`) | two tables | errno to status to errno | procedures, dispatcher, decoders, callers |
| client directory operations (`vsnfsDir.c`) | `f_pos`, a page per call; dentries | `vsnfs_readdir`, `vsnfs_lookup`, revalidation | VFS, RPC |
| client inodes and mounts (`vsnfsClient.c`, `vsnfsMount.c`) | `vsnfs_server`, superblock, inodes that keep a pointer to their handle | `vsnfs_get_sb`, `vsnfs_kill_sb`, `vsnfs_fhget` | VFS, RPC |
| client files (`vsnfsFile.c`), module entry (`module.c`) | none | constants; register the type | VFS |

How they interact: the client holds handles the server made; a handle carries
an inode number in decimal, and the server turns it back into a path through
its table and walks that path again.  So the server's correctness is a relation
between three things that change independently: handles in clients, the table,
and the file system that local users change.  Nothing is locked; the code relies
on having one service thread (`VSNFS_NRSERVS` is 1).

What is hard: the order of calls from several mounts; the table's list head,
which only GETROOT initialises; error paths that do not return; paths and inode
numbers that go stale; a page of directory entries whose words both sides count
by hand; a listing that takes several calls; reference counts changed by several
processes without a lock; lookups that sleep while inodes are evicted and the
server renames directories and reuses their numbers; calls executed twice, or
after the client gave them up; statuses kept in network order and used as numbers.
`PROJECT.json` lists each of these at its line under "hazards".

What makes each part correct:

- *procedures and table*: one node per inode number; every handle in use has a
  node; the node's path leads to the file the handle was made for; a call that
  cannot be served is refused, and does not take the thread down;
- *listing*: no word outside the page is written or read; the user sees each
  entry once, in order, all of them, and the loop ends; pages are released;
- *service*: the count is the number of users; the module's code stays while it
  runs; no socket, lockd use or listed node is left behind; killed threads end;
  loading returns;
- *errors*: a failure stays a failure, is not reported as a different one, and
  what the caller sees does not depend on the server's processor;
- *client inodes and dentries*: references balance; an inode's handle lives as
  long as the inode; a directory stays what it is while a lookup in it sleeps,
  and has one dentry wherever the server moves it;
- *mounts*: an unmount leaves no busy file or directory;
- *calls*: every call returns, and no late or repeated message gives the client
  the handle of another file.

## 2. The modules

### VsnfsdProc: the server's procedures

One action per procedure; a procedure is one step, since one thread runs them
all and each consults the file system once.  What local users do to the file
system (`FsCreate`, `FsLink`, `FsRemove`, `FsRename`) and a reload of the module
happen between procedures.

| model | code |
|---|---|
| `lp_tab`, `lp_init` | `vsnfs_lp_tab`, and whether `INIT_LIST_HEAD` has run on it |
| `Fh(i)`, `FhData(i)` | the handle of inode `i`; the digits `snprintf` keeps in 8 bytes, as `simple_strtoul` reads them |
| `Node(i, p, s)` | a node; `s` says whether its path string ends in "/" |
| `Extend` | `memcpy` of the name behind the path; without a "/" two names run together |
| `path_lookup`, `vsnfsd_open` | the walk; after a failure `nd->path` is the last dentry reached or one without an inode, and the code uses it |
| `daemon = "oops"` | the thread has followed a NULL pointer |
| `lost_refs`, `PutPath` | after a failed walk `path_put` and `dput` give up references that were not the caller's; from then on any walk may end in an oops |
| `KmallocFails` | every `kmalloc` may fail, each with the consequence the code gives it |
| `issued`, `live`, `reply`, `gen` | history: handles sent, those sent since the table was last emptied, the last reply, and how often an inode number was freed |

A path is a sequence of components, `<<>>` is "/".  Byte lengths of paths and
the empty mount path are not modelled.  What GETROOT did to the list
before an allocation failed or the thread died stays done.  Handles of a client
are used as their type says (`vsnfs_fhget` gives only `VSNFS_DIR` inodes directory operations).
A READ's `pos` is an uninitialised variable and hence any offset.

### HandleService: what a handle promises

The abstract service: a handle is granted for one file, no two files get equal
handles, a call through a handle the service knows is about its file, and handles
are forgotten only all at once.  It has no table, no paths and no file system.
`VsnfsdProc` instantiates it as `Promise`: the handles sent with their files are
`granted`, the inode numbers with a node are `known`, and the last reply is
`answer`.  `KeepsPromise` says that the procedures implement it.

### Client and Mount: the client

`Client` has the inode cache, the dentries and the processes inside the mount;
`Mount` puts mounting, unmounting and the module around it and has the
specification.

| model | code |
|---|---|
| `inode[i]` | the inode the superblock caches for number `i`: `i_count`, its type, its handle and where `i_private` points |
| `dcache` | the hashed dentries, as paths from the mount root |
| `want` | what `vsnfs_lookup` has at hand while it sleeps in the RPC; `newfh` says whether its unchecked `kmalloc` succeeded |
| `vsnfs_lookup`, `LookupFails`, `LookupReturns` | `vsnfs_lookup` before and after `vsnfs_do_lookup`'s call |
| `Answers` | what LOOKUP may be answered: the server walks paths that its users rename, so a name leads to different files at different times |
| `d_materialise_unique`, `Aliases`, `Instantiate`, `Unalias` | a directory that already has a dentry is not given a second: `d_move` takes the one it has, with all below it, to the place looked up, unless that place is below it (-ELOOP) or its parent is locked (-EBUSY) |
| `vsnfs_lookup_revalidate` | a walk over a cached dentry; the VFS returns its error |
| `Leave`, `Kept`, `vsnfs_dentry_iput` | `dput` up to the first dentry in use, as `vsnfs_dentry_delete` asks |
| `vsnfs_clear_inode`, `ServerReuses` | memory pressure; the server gives a number to another file |
| `mnt` | the next call of `vsnfs_get_sb`, one step per call that can fail or sleep |
| `OptionPort`, `vsnfs_inet_pton`, `vsnfs_parse_mntpath` | `vsnfsMount.c`, on tokens and lengths instead of characters |

A host part of up to 255 characters is copied to `ip_addr[16]`.  In a 64-bit
build character 24 is the first in `mnt_path`, which is set afterwards, so the
address read from the text is then any; character 48 is the first behind the
`vsnfs_server`, so the copy may be fatal (`MntPathAt`, `ServerEnd`).

The VFS around these calls (i_mutex of the directory, dput, iput, sget,
d_materialise_unique, kill_anon_super) is that of Linux 2.6.31 as the code uses
it.  An error of an allocation that the code does not check leads to `"oops"`.
GETROOT is assumed to answer with a directory.

### Vsnfs: both sides over RPC

A client that mounts, looks up, unmounts and is killed in a call
(`vsnfs_umount_begin`), and the procedures of `VsnfsdProc`.  `vsnfs_create_rpcclient`
asks for TCP, so the calls of one connection are executed in order; it makes an
RPC client for every mount, and nothing ever shuts one down, so what was sent by
an earlier mount is still executed.  A call is sent again after a timeout and
after a reconnect, and executed again: `vsnfsd_procedures1` asks for no reply
cache.  When a connection breaks, the calls that had reached the server's socket
stay there: the server may execute them at any later time, also after the calls
on the new connection, or never, and nobody gets their replies.  `Sock` has one
entry for each connection and each time it broke, `Live(c)` is the one in use.
The client makes one call at a time.

### Readdir: listing a directory

The page is a sequence of words, written by `vsnfssvc_encode_entry` and
`vsnfssvc_encode_readdirres` and read by `vsnfs_decode_dirent`; each call of the
filler and each round of the client's loop is a step.  Around it is the user's
loop over getdents, which hands over entries even when `vsnfs_readdir` failed
after filling some.  Failures of page allocation, RPC and the file system are
`Faults`; entries with numbers that do not fit 32 bits are in `Entry`.

### VsnfsdSvc: the service

`init_vsnfsd` and `vsnfsd_svc` step by step, each with its failure, next to the
threads.  A change of `sv_nrthreads` is a load and a store, because nothing is
locked.  svc_destroy and svc_set_num_threads are the kernel's and are modelled
from their use.  `list = "zero"` is the list head no GETROOT has initialised.
`raced` remembers that two processes, the loader and a thread or two threads, were
both between their load and their store: one of the two changes is then lost, as
in the code, and `CountIsUsers` and `NothingLeft` are stated up to that point.
`orphans` says that there are table nodes on no list: a second GETROOT
reinitialises the list head over them, and a node whose path could not be
allocated is never put on it.  `vsnfsd_last_thread` frees what is on the list, so
orphans stay for ever.  A signal counts from `allow_signal` on; one sent earlier
is ignored by the thread and leaves no trace.  Signals may come while insmod is
still running.

### Status: what becomes of an error

A call fails somewhere in a procedure (`Failures`), gets a status in the
server's byte order (`Returned`), four bytes on the wire (`vsnfsd_dispatch`), an
errno in the client (`vsnfs_xdr_res`, with the two table rows that hold a
difference instead of a pair) and a return value (`vsnfs_create_rpcclient`,
`vsnfs_do_lookup`, `vsnfs_proc`).  A word is its four bytes, so negation and
byte order are what they are in C.

## 3. The runs

Passing:

| run | instance | shows |
|---|---|---|
| `server_growing` | 4 inodes, names "x" and "xx", depth 2, mounts of "/" and "/x", allocation failures, reload | with files only added: types, one node per inode, live handles known, sound paths, handles name their file |
| `server_changing` | the root and one file whose number is freed up to twice, mounts of "/" and of a path that may not exist; create, link, rename, remove, reload, allocation failures | one node per inode and live handles known survive everything local users do |
| `readdir` | 40-word page, names of 1, 4, 5 and 9 bytes (limit 8), oversized entries, 2 to 6 entries, room for 3, faults | words agree on both sides; prefix, in order; end means complete; what fits is listed once, released, and ends |
| `svc_life` | the code's one thread, three loads, every failure of starting and of `unshare_fs_struct` | count right unless changes overlap, no service, socket, lockd use or listed node left behind, code stays loaded while it runs, killed threads end |
| `status_path` | both byte orders, all errnos of the kernel for file system errors and for walks | with the one exception below: failure stays failure; no error turns into another; the caller sees the same from servers of either byte order |
| `client` | 2 processes, names "a", "b" and one too long, the mounted directory and two more at any place below it, one of which may turn into another kind of file, every allocation may fail, devices and options on both sides of their limits | references balance, handles alive, directories of lookups stay, one dentry for each directory, inodes stable, no file or directory busy at unmount |
| `retransmission` | 2 mounts, 3 calls, each sent at most twice, each connection broken at most once, directories made meanwhile | handles stay known unless a left-over GETROOT emptied the table, no handle is another file's, every call returns |

`server_growing` also checks `KeepsPromise`, the refinement of `HandleService`.

Why the bounds are enough: the table properties relate two nodes, two handles or
a node and a handle, and a path and its parent, so two mounts, two names of
which one is the other doubled, and depth 2 contain every case; the proofs below
remove the bounds.  A page of 40 words is filled by 3 or 4 entries, so that both
limits, the page's and the user's, fall inside the enumerated directories, and
the name lengths lie on both sides of a word and of the limit.  The thread and
the loader are the pair that can race for a count, and a third load starts after
every way the first two can end.  Two processes contain every pair of walks; two
directories below the mounted one let one be found beside where it was, or inside or
outside the other, with a process in it or below it, and the proofs remove this bound too.  Two mounts and three calls let a message of a first mount
arrive in a second; `late_mount` needs a fourth call and no retransmission.

Fairness: `Readdir` assumes that the user's loop, the client and the thread keep
running, since all calls are synchronous.  `VsnfsdSvc` assumes that a thread that
can run does; it does not assume that anyone sends a signal or loads a module.
`Vsnfs` assumes only that the timer of a call runs (`WF(Timeout)`), not that the
server answers: the flags given to `rpc_create` do not ask for hard retries, so
sunrpc gives a call up in the end.  Deadlock checking is off for `VsnfsdProc` (a
dead thread is the end, if there is no reload), for `VsnfsdSvc` (which stops after
the last load), for `Vsnfs` (which stops after the last call) and for
`second_walk`.

Failing, each a disagreement with what the code or its documents say:

| run | property | what happens |
|---|---|---|
| `absent_name` | `DaemonUp` | mount, look up a name that is not there: `d_inode` is NULL and the thread is gone |
| `late_mount` | `UnknownHandleRefused` | a mount is given up and repeated, and the GETROOT of the first is executed after the second's: the next LOOKUP succeeds with an all-zero handle |
| `readdir_cut_off` | `ListingEnds` | a directory larger than a page is listed forever |
| `svc_start_fails` | `LoadReturns` | a start that fails runs the shutdown function over a zeroed list head |
| `second_walk` | `WalkSucceeds` | a process that walks to a name another one is using gets -EOPNOTSUPP |

Also visible in the models, without a run of their own:

- outside the assumptions of `server_growing`, `TableSound` fails after a GETROOT
  of a path that does not exist, `HandleNamesItsFile` after an inode number is
  reused or a path renamed, and two files get equal handles when the first 7 digits
  of their inode numbers agree;
- any second mount, not only a late one, empties the table under the first;
- READ begins at an uninitialised position; the client never calls it;
- the four status bytes of a failing GETROOT or LOOKUP depend on the server's
  byte order, though what the caller sees does not; EPERM, EACCES and EXDEV reach
  the client as EIO, because its table has no row for them;
- from a big-endian server a walk that fails with errno 50 is reported as success:
  -50 is the value of the client's table row `45 - EOPNOTSUPP` (`HitsBrokenRow`);
- a lost update of `sv_nrthreads` when a thread ends while `vsnfsd_svc` gives its
  own reference up;
- table nodes are orphaned by every second GETROOT and never freed;
- insmod succeeds when the service could not be created, although the README says
  "Now the server is running." (`src/README:47`);
- after a failed walk the server's procedures put references they do not have;
- a host name in the device string is taken for address 0.0.0.0, because
  `vsnfs_inet_pton` answers 0 and only a negative answer is an error;
- a failed mount keeps its `vsnfs_server` (unless sget failed), path and RPC
  client; unmounting keeps the path and the RPC client;
- the client's module can be removed while it is mounted (`RmmodMounted`);
- three allocations of the client are not checked, each ending in an oops; in
  `vsnfs_get_root` the superblock stays locked;
- a host part of 16 to 255 characters is copied past `ip_addr`;
- an inode of neither type is used after `vsnfs_fhget` gave it back.

## 4. The proofs

`VsnfsdProcProofs` proves, for every value of the constants that satisfies
`ConstantsAssumption`:

- `TypeCorrect`: `Spec => []TypeOK`;
- `KeysAreUnique`: `Spec => []KeysUnique`, whatever the file system does;
- `LiveHandlesAreKnown`: with `InosFit` (inode numbers have at most 7 digits),
  `Spec => []LiveHandlesKnown`, whatever the file system does and whatever fails;
- `TableIsSound` and `HandlesNameTheirFiles`: with `InosFit` and `OnlyAdds` (local
  users only create and link, and what is mounted is a directory), always
  `TableSound` and `HandleNamesItsFile`.

`TableSound` is not inductive.  A path stays right only if the directories on
the way to it stay, so the invariant `SoundInv` of the last two (theorem `SoundAlways`) adds that the
file system is a tree (`IsTree`), that mount paths stay directories, and that
every handle sent is of an existing inode with the type it still has.  The file
system steps preserve it because they add under an existing directory; GETROOT
and LOOKUP because the walk that names a node ends at its inode (lemma
`WalkFromNode`); READDIR and READ because they open a node's path.  Both
assumptions are needed, as the end of section 3 says.

`HandleServiceProofs` proves `ServerKeepsPromise`: with the same two assumptions,
`Spec => KeepsPromise`.  The initial states map to initial states.  Every step maps
to a step of `HandleService` or a stutter, by `SoundInv` and one lemma for each
kind of step: GETROOT is `Mount` or `Refuse`; LOOKUP is `LookUp`,
`LookUpForgotten` or `Refuse`; READDIR and READ are `Use` or `Refuse`; local users'
changes and a reload are `NoCall`.  That a handle is `Grantable` follows from
`InosFit`; that the call is about the handle's file is `HandleNamesItsFile`.

`MountProofs`, with `PathProofs`, `MountInvariant` and `LookupProofs`, proves, from
`ClientAssumption`, for every number of processes, tree of names, choice of
reusable numbers and set of options: `RefsAreBalanced`, `LookupDirsStay`,
`HandlesStayAlive`, `NothingStaysBusy`, `DirsAreUnaliased` and `InodesAreStable`,
each for the property of `Mount` it is named after, and, if there is a name,
`MountTypeCorrect`.  They rest on one inductive invariant, `IInv` (theorem
`ClientIsSound`), which adds to `RefsBalanced`, `LookupDirStays` and
`DirsUnaliased`:

- `WalkInv`: every process inside stands at a dentry or the root, every dentry is
  on the way to a process, two lookups are never in one directory, and the name
  being looked up has no dentry.  Without the last two a lookup that returns could
  replace a dentry, and the reference of its inode would be lost;
- `InodeInv`: an inode that is not cached has no dentries, so a fresh one starts
  with the right count, and only the root's handle lies in the `vsnfs_server`;
- `MountInv`: outside a mount nobody is inside and nothing is cached.

A step of a process then disturbs the count of an inode and the dentries that lead
to it by the same number (`LookupReturnsStep`, `LeaveStep`), and
`vsnfs_clear_inode` can only take a file or directory that has no dentry (lemma
`InUse`).  The step that moves a directory (`UnaliasStep`) renames all the paths
below it at once.  `PathProofs` has what is needed of that: moving is injective on
the dentries there are, is undone by moving back, and keeps "lies below"
(`MovedWay`, `MovedBack`, `MovedBelow`).  No dentry can already lie at the new
place, because the name being looked up has none, so no two dentries are merged.
`DirsUnaliased` is part of `IInv` because the alias that is moved has to be the only
one.  `IInv` was checked with TLC on the instance of `client` before it was
proved.

`ReaddirProofs` proves `PageIsBounded`: from `ReaddirAssumption`, for every page
size, request size and directory, `Spec => []PageBound`.  The bound alone is not
inductive, since the last two words are written without a check.  `FillInv` adds
that while entries are written, the words used, the words `buflen` still allows
and these two are together within the page and the request.  Lemma `EntryLength`
shows that an entry has exactly the words `buflen` is reduced by.

`VsnfsdSvcProofs` proves, from `SvcAssumption`, for every number of threads and
loads:

- `ModuleIsHeld`: `Spec => []ModuleHeld`.  `HeldInv` adds that the module's
  reference count is the number of threads that took a reference and have not given
  it back, and that the module is still coming while `init_vsnfsd` runs; without the
  first, an rmmod step at count 0 says nothing about the threads;
- `SvcTypeCorrect`: `Spec => []TypeOK`.  That `lockd` stays a natural number needs
  `StartInv`: there is a `lockd_up` for every socket, except on the way of a failing
  start, which the zeroed list head keeps from undoing any;
- `UsersAreCounted` and `NothingIsLeft`: `Spec => []CountIsUsers` and
  `Spec => []NothingLeft`, from `ServiceInv`.  The count is stored one step after it
  was loaded, so `CountInv` adds that whoever is between the two has the count as it
  still is and is alone there, which is what `~raced` gives; `CleanInv` adds that a
  service without users has no sockets and as many `lockd_up`s as sockets.

Only model-checked: everything about `Status` and `Vsnfs`, and the properties of
`Readdir` other than `PageBound`.  Liveness (`FittingListingEnds`,
`KilledThreadsEnd`, `CallReturns`) is outside what this prover can do.

## 5. Not modelled

- sunrpc, the VFS and the module loader, beyond what this code's use of them shows;
- byte lengths of paths on the server, where a path and a name may outgrow the
  buffer allocated for them, and the empty mount path;
- the characters of device strings and options: a device is its two lengths, and
  whether it has a ":" and an address; an option is a token;
- `vsnfsFile.c` and the client operations that return a constant (create, mkdir,
  rmdir, permission, write_inode);
- the contents of files; READ through the RPC layer, which the client never calls;
- what the memory was used for that a long host part overwrites, and what the
  server's VFS does with reference counts that are too low, beyond an oops;
- several clients at once in `Vsnfs`; `VsnfsdProc` has calls in any order instead.

## 6. Plan

1. `VsnfsdThreads`: the procedures cut at their list operations, refining the
   one-step procedures for one thread.
2. Byte lengths of paths in `VsnfsdProc`.
3. READDIR in `Vsnfs`, so that a listing meets retransmission.
4. Proofs: the agreement of encoder and decoder for `Readdir`, `ErrorStaysError`
   for `Status`, and `HeldHandlesRight` for `Vsnfs`.
