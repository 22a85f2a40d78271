------------------------------ MODULE VsnfsdSvc ------------------------------
(***************************************************************************)
(* The life of the vsnfs service (src/server/vsnfssvc.c): loading the       *)
(* module, starting the service, its threads, and its end.                  *)
(*                                                                         *)
(* The service svc_serv counts its users in sv_nrthreads: one for each      *)
(* thread and, while it starts, one for vsnfsd_svc.  Who gives up the last  *)
(* one destroys the service and runs vsnfsd_last_thread on the way.  No     *)
(* lock is held, so a change of the count is two steps, a load and a store, *)
(* and two processes that change it at the same time may lose a change.     *)
(***************************************************************************)
EXTENDS Integers, FiniteSets

CONSTANTS
    Thread,       \* the threads, as many as vsnfsd_svc is asked to start
    Insmod,       \* the process that loads the module and runs vsnfsd_svc
    StartFails,   \* may creating the service, a socket or a thread fail?
    UnshareFails, \* may unshare_fs_struct fail?
    Calls,        \* the procedures clients call
    MaxLoads      \* bound: how often the module is loaded

ASSUME SvcAssumption ==
    /\ IsFiniteSet(Thread)
    /\ Insmod \notin Thread
    /\ StartFails \in BOOLEAN
    /\ UnshareFails \in BOOLEAN
    /\ Calls \subseteq {"null", "getroot", "lookup", "readdir", "read"}
    /\ MaxLoads \in Nat

VARIABLES
    module,        \* "out", "coming" while init_vsnfsd runs, "live"
    mod_refs,      \* references that keep the module from being removed
    loads,         \* how often it was loaded
    init_pc,       \* where init_vsnfsd is
    rc,            \* what vsnfsd_svc returns: "none" so far, "error", "threads"
    sv_nrthreads,  \* users of the service; 0 when there is none
    loaded,        \* the value of sv_nrthreads a process has just loaded
    permsocks,     \* the sockets of the service
    lockd,         \* lockd_up calls not yet undone
    list,          \* vsnfs_lp_tab: "zero" as loaded, "empty" or "nodes"
    orphans,       \* are there nodes that no list leads to any more?
    thread,        \* where each thread is
    pending,       \* the threads with a signal pending
    raced          \* history: did two processes change sv_nrthreads at once?

vars == <<module, mod_refs, loads, init_pc, rc, sv_nrthreads, loaded, permsocks,
          lockd, list, orphans, thread, pending, raced>>

init_vars == <<module, loads, init_pc, rc>>
table     == <<list, orphans>>
serv_vars == <<sv_nrthreads, loaded, permsocks, lockd, table, raced>>

Goto(t, from, to) ==
    /\ thread[t] = from
    /\ thread' = [thread EXCEPT ![t] = to]

-------------------------------------------------------------------------------
(* Giving up a reference to the service *)

(* Mutant: one socket was counted. *)
LastThreadOnce ==
    /\ list' = "empty"
    /\ lockd' = lockd - 1

(* Frees the nodes of the table and undoes lockd_up for every socket.  The   *)
(* list must have been initialised.                                          *)
vsnfsd_last_thread ==
    /\ list' = "empty"
    /\ lockd' = lockd - Cardinality(permsocks)

(* The processes between their load and their store. *)
Changing ==
    {t \in Thread : thread[t] = "release"}
        \cup (IF init_pc \in {"start", "release"} THEN {Insmod} ELSE {})

Load(p) ==
    /\ loaded' = [loaded EXCEPT ![p] = sv_nrthreads]
    /\ raced' = (raced \/ Changing # {})
    /\ UNCHANGED <<sv_nrthreads, permsocks, lockd, table>>

(* svc_destroy by process p, after its load.  The sockets are closed after   *)
(* the shutdown function.  oops says that list_for_each_safe met the NULL    *)
(* pointers of a fresh list head, and the rest is not done.                  *)
svc_destroy(p, oops) ==
    /\ \/ /\ loaded[p] > 1
          /\ ~oops
          /\ sv_nrthreads' = loaded[p] - 1
          /\ UNCHANGED <<permsocks, lockd, list>>
       \/ /\ loaded[p] <= 1
          /\ list # "zero"
          /\ ~oops
          /\ sv_nrthreads' = 0
          /\ vsnfsd_last_thread
          /\ permsocks' = {}
       \/ /\ loaded[p] <= 1
          /\ list = "zero"
          /\ oops
          /\ sv_nrthreads' = 0
          /\ UNCHANGED <<permsocks, lockd, list>>
    /\ UNCHANGED <<loaded, orphans, raced>>

-------------------------------------------------------------------------------
(* Loading the module *)

InsertModule ==
    /\ module = "out"
    /\ loads < MaxLoads
    /\ module' = "coming"
    /\ loads' = loads + 1
    /\ init_pc' = "create"
    /\ rc' = "none"
    /\ list' = "zero"
    /\ thread' = [t \in Thread |-> "none"]
    /\ UNCHANGED <<mod_refs, sv_nrthreads, loaded, permsocks, lockd, orphans,
                   pending, raced>>

(* A new service has no sockets, whatever became of the last one's. *)
vsnfsd_create_serv ==
    /\ init_pc = "create"
    /\ \/ /\ sv_nrthreads' = 1
          /\ permsocks' = {}
          /\ init_pc' = "udp"
          /\ UNCHANGED rc
       \/ /\ StartFails
          /\ rc' = "error"
          /\ init_pc' = "return"
          /\ UNCHANGED <<sv_nrthreads, permsocks>>
    /\ UNCHANGED <<module, mod_refs, loads, loaded, lockd, table, raced, thread,
                   pending>>

(* Makes the socket of one protocol, then calls lockd_up; on to pc next. *)
CreateSocket(proto, next) ==
    /\ init_pc = proto
    /\ \/ /\ permsocks' = permsocks \cup {proto}
          /\ lockd' = lockd + 1
          /\ init_pc' = next
          /\ UNCHANGED rc
       \/ /\ StartFails                  \* svc_create_xprt or lockd_up failed
          /\ permsocks' \in {permsocks, permsocks \cup {proto}}
          /\ rc' = "error"
          /\ init_pc' = "destroy"
          /\ UNCHANGED lockd
    /\ UNCHANGED <<module, mod_refs, loads, sv_nrthreads, loaded, table, raced,
                   thread, pending>>

vsnfsd_init_socks == CreateSocket("udp", "tcp") \/ CreateSocket("tcp", "threads")

(* svc_set_num_threads prepares a thread, which counts it, and starts it     *)
(* with a reference to the module.                                           *)
PrepareThread ==
    /\ init_pc = "threads"
    /\ \E t \in Thread : thread[t] = "none"
    /\ Load(Insmod)
    /\ init_pc' = "start"
    /\ UNCHANGED <<module, mod_refs, loads, rc, thread, pending>>

(* Mutant: the thread has no reference to the module. *)
StartThreadUnheld(t) ==
    /\ init_pc = "start"
    /\ Goto(t, "none", "start")
    /\ sv_nrthreads' = loaded[Insmod] + 1
    /\ init_pc' = "threads"
    /\ UNCHANGED <<module, mod_refs, loads, rc, loaded, permsocks, lockd, table,
                   raced, pending>>

StartThread(t) ==
    /\ init_pc = "start"
    /\ Goto(t, "none", "start")
    /\ sv_nrthreads' = loaded[Insmod] + 1
    /\ mod_refs' = mod_refs + 1
    /\ init_pc' = "threads"
    /\ UNCHANGED <<module, loads, rc, loaded, permsocks, lockd, table, raced,
                   pending>>

ThreadsStarted ==
    /\ init_pc = "threads"
    /\ \/ /\ \A t \in Thread : thread[t] # "none"
          /\ rc' = "threads"
       \/ /\ \E t \in Thread : thread[t] = "none"
          /\ StartFails
          /\ rc' = "error"
    /\ init_pc' = "destroy"
    /\ UNCHANGED <<module, mod_refs, loads, serv_vars, thread, pending>>

(* The end of vsnfsd_svc: its own reference goes. *)
SvcDestroyLoads ==
    /\ init_pc = "destroy"
    /\ Load(Insmod)
    /\ init_pc' = "release"
    /\ UNCHANGED <<module, mod_refs, loads, rc, thread, pending>>

(* Mutant: only the failure path gives the reference up. *)
SvcDestroyOnFailure ==
    /\ init_pc = "release"
    /\ IF rc = "error"
         THEN \E oops \in BOOLEAN :
                 /\ svc_destroy(Insmod, oops)
                 /\ init_pc' = IF oops THEN "oops" ELSE "return"
         ELSE init_pc' = "return" /\ UNCHANGED serv_vars
    /\ UNCHANGED <<module, mod_refs, loads, rc, thread, pending>>

SvcDestroy ==
    /\ init_pc = "release"
    /\ \E oops \in BOOLEAN :
          /\ svc_destroy(Insmod, oops)
          /\ init_pc' = IF oops THEN "oops" ELSE "return"
    /\ UNCHANGED <<module, mod_refs, loads, rc, thread, pending>>

(* init_vsnfsd returns 0 whatever vsnfsd_svc returned. *)
init_vsnfsd ==
    /\ init_pc = "return"
    /\ init_pc' = "none"
    /\ module' = "live"
    /\ UNCHANGED <<mod_refs, loads, rc, serv_vars, thread, pending>>

(* exit_vsnfsd does nothing. *)
RemoveModule ==
    /\ module = "live"
    /\ mod_refs = 0
    /\ module' = "out"
    /\ UNCHANGED <<mod_refs, loads, init_pc, rc, serv_vars, thread, pending>>

-------------------------------------------------------------------------------
(* The threads *)

(* vsnfsd up to its loop: unshare_fs_struct, then allow_signal.  Until then   *)
(* all signals are ignored, and one sent to the thread leaves no trace.       *)
ThreadBegins(t) ==
    /\ \/ Goto(t, "start", "recv")
       \/ UnshareFails /\ Goto(t, "start", "exit")
    /\ UNCHANGED <<init_vars, mod_refs, serv_vars, pending>>

(* svc_recv, which looks for signals first, returns a call, and svc_process  *)
(* begins it.                                                                *)
ThreadReceives(t) ==
    /\ t \notin pending
    /\ Goto(t, "recv", "call")
    /\ UNCHANGED <<init_vars, mod_refs, serv_vars, pending>>

(* The procedure leaves the list as l.  It returns, or ends in a bad memory  *)
(* access, and then the thread keeps its references for ever.                *)
Done(t, to, l) ==
    /\ Goto(t, "call", to)
    /\ list' = l

(* GETROOT initialises the list head and adds a node.  The nodes that were   *)
(* on the list stay allocated and are on no list.                            *)
GetrootDone(t) ==
    \/ /\ Done(t, "recv", list)      \* it fails before it gets to the list
       /\ UNCHANGED orphans
    \/ /\ Done(t, "hung", list)      \* the path does not exist
       /\ UNCHANGED orphans
    \/ /\ Done(t, "hung", "empty")   \* no memory for the node
       /\ orphans' = (orphans \/ list = "nodes")
    \/ /\ Done(t, "recv", "empty")   \* none for its path: the node is lost
       /\ orphans' = TRUE
    \/ /\ Done(t, "recv", "nodes")
       /\ orphans' = (orphans \/ list = "nodes")

(* LOOKUP, READDIR and READ search the list, and do not return if it has not *)
(* been initialised.  A LOOKUP that finds its directory may add a node, lose *)
(* one when there is no memory for its path, or die on a name that is absent *)
(* or for want of memory.                                                    *)
SearchDone(t, call) ==
    \/ /\ list = "zero"
       /\ Done(t, "hung", list)
       /\ UNCHANGED orphans
    \/ /\ list # "zero"
       /\ Done(t, "recv", list)
       /\ UNCHANGED orphans
    \/ /\ list = "nodes"
       /\ call = "lookup"
       /\ \/ Done(t, "recv", list) /\ orphans' = TRUE
          \/ Done(t, "hung", list) /\ UNCHANGED orphans

ThreadReplies(t) ==
    /\ \E call \in Calls :
          \/ call = "null" /\ Done(t, "recv", list) /\ UNCHANGED orphans
          \/ call = "getroot" /\ GetrootDone(t)
          \/ call \in {"lookup", "readdir", "read"} /\ SearchDone(t, call)
    /\ UNCHANGED <<init_vars, mod_refs, sv_nrthreads, loaded, permsocks, lockd,
                   pending, raced>>

(* Mutant: the loop goes on. *)
ThreadContinues(t) ==
    /\ t \in pending
    /\ Goto(t, "recv", "recv")
    /\ UNCHANGED <<init_vars, mod_refs, serv_vars, pending>>

(* A signal makes svc_recv return -EINTR; flush_signals. *)
ThreadInterrupted(t) ==
    /\ t \in pending
    /\ Goto(t, "recv", "exit")
    /\ pending' = pending \ {t}
    /\ UNCHANGED <<init_vars, mod_refs, serv_vars>>

(* svc_exit_thread *)
ThreadLoads(t) ==
    /\ Goto(t, "exit", "release")
    /\ Load(t)
    /\ UNCHANGED <<init_vars, mod_refs, pending>>

ThreadExits(t) ==
    /\ \E oops \in BOOLEAN :
          /\ svc_destroy(t, oops)
          /\ Goto(t, "release", IF oops THEN "oops" ELSE "put")
    /\ UNCHANGED <<init_vars, mod_refs, pending>>

(* module_put_and_exit *)
ThreadEnds(t) ==
    /\ Goto(t, "put", "gone")
    /\ mod_refs' = mod_refs - 1
    /\ UNCHANGED <<init_vars, serv_vars, pending>>

vsnfsd(t) ==
    \/ ThreadBegins(t) \/ ThreadReceives(t) \/ ThreadReplies(t)
    \/ ThreadInterrupted(t) \/ ThreadLoads(t) \/ ThreadExits(t) \/ ThreadEnds(t)

(* Somebody kills thread t, once it allows signals; vsnfsd_svc may still be  *)
(* running.                                                                  *)
Kill(t) ==
    /\ thread[t] \in {"recv", "call"}
    /\ pending' = pending \cup {t}
    /\ UNCHANGED <<init_vars, mod_refs, serv_vars, thread>>

-------------------------------------------------------------------------------
Init ==
    /\ module = "out"
    /\ mod_refs = 0
    /\ loads = 0
    /\ init_pc = "none"
    /\ rc = "none"
    /\ sv_nrthreads = 0
    /\ loaded = [p \in Thread \cup {Insmod} |-> 0]
    /\ permsocks = {}
    /\ lockd = 0
    /\ list = "zero"
    /\ orphans = FALSE
    /\ thread = [t \in Thread |-> "none"]
    /\ pending = {}
    /\ raced = FALSE

vsnfsd_svc ==
    \/ vsnfsd_create_serv \/ vsnfsd_init_socks
    \/ PrepareThread \/ (\E t \in Thread : StartThread(t)) \/ ThreadsStarted
    \/ SvcDestroyLoads \/ SvcDestroy \/ init_vsnfsd

Next ==
    \/ InsertModule \/ vsnfsd_svc \/ RemoveModule
    \/ \E t \in Thread : vsnfsd(t) \/ Kill(t)

Spec == Init /\ [][Next]_vars

(* A thread that can run gets to run: the kernel's scheduler.  Neither       *)
(* signals nor loading and removing the module are promised.                 *)
FairSpec == Spec /\ \A t \in Thread : WF_vars(vsnfsd(t))

-------------------------------------------------------------------------------
(* Properties *)

(* Every variable has its type. *)
TypeOK ==
    /\ module \in {"out", "coming", "live"}
    /\ mod_refs \in Nat
    /\ loads \in 0..MaxLoads
    /\ init_pc \in {"none", "create", "udp", "tcp", "threads", "start", "destroy",
                    "release", "return", "oops"}
    /\ rc \in {"none", "error", "threads"}
    /\ sv_nrthreads \in Nat
    /\ loaded \in [Thread \cup {Insmod} -> Nat]
    /\ permsocks \subseteq {"udp", "tcp"}
    /\ lockd \in Nat
    /\ list \in {"zero", "empty", "nodes"}
    /\ orphans \in BOOLEAN
    /\ thread \in [Thread -> {"none", "start", "recv", "call", "exit", "release",
                              "put", "gone", "hung", "oops"}]
    /\ pending \subseteq Thread
    /\ raced \in BOOLEAN

Running(t) == thread[t] \in {"start", "recv", "call", "exit", "release", "put"}

(* The module is never removed while code of it runs: init_vsnfsd, a thread, *)
(* or vsnfsd_last_thread on behalf of either.                                *)
ModuleHeld ==
    (\E t \in Thread : Running(t)) \/ init_pc # "none" => module # "out"

(* Who has a reference to the service.  A thread that hung in a call keeps   *)
(* its own; one that met its end in svc_destroy had given it up.             *)
Users ==
    {t \in Thread : thread[t] \in {"start", "recv", "call", "hung", "exit", "release"}}
        \cup (IF init_pc \in {"udp", "tcp", "threads", "start", "destroy", "release"}
                THEN {Insmod} ELSE {})

(* The count of the service is the number of its users, so that the last of  *)
(* them destroys it, and none destroys it under another: also when a thread  *)
(* is killed, or gives up, while vsnfsd_svc still holds its own reference.   *)
(* Only two changes of the count that overlap can make it wrong.             *)
CountIsUsers == raced \/ sv_nrthreads = Cardinality(Users)

(* A module that is out has left nothing behind: no service, no socket, no   *)
(* use of lockd and no node on the list of the table, with the same          *)
(* exception.  Nodes that a GETROOT has orphaned are on no list, and nobody  *)
(* frees them.                                                               *)
NothingLeft ==
    module = "out" /\ ~raced =>
        sv_nrthreads = 0 /\ permsocks = {} /\ lockd = 0 /\ list # "nodes"

(* vsnfsd_svc returns to whoever loads the module, also when it fails. *)
LoadReturns == init_pc # "oops"

(* A thread that was killed comes to its end, whatever it was doing. *)
KilledThreadsEnd ==
    \A t \in Thread : t \in pending ~> thread[t] \in {"gone", "hung", "oops"}
===============================================================================
