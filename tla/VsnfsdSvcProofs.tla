---------------------------- MODULE VsnfsdSvcProofs ----------------------------
(***************************************************************************)
(* The module stays loaded while its code runs: for every number of threads *)
(* and loads, whatever fails to start, and although nothing is locked.  As   *)
(* long as no two changes of its count overlap, the service is counted right *)
(* and leaves nothing behind.                                                *)
(***************************************************************************)
EXTENDS VsnfsdSvc, FiniteSetTheorems, TLAPS

(* Most steps need no arithmetic; the ones that do name SMT. *)
USE ZenonT(40)

(* The threads that have taken a reference to the module and not given it    *)
(* back; one that ran into a bad pointer never does.                         *)
Holders == {t \in Thread : thread[t] \notin {"none", "gone"}}

(* The inductive invariant: the module has one reference for every holder,   *)
(* it is coming while init_vsnfsd runs, and nobody holds it when it is out.  *)
HeldInv ==
    /\ DOMAIN thread = Thread
    /\ mod_refs = Cardinality(Holders)
    /\ init_pc # "none" => module = "coming"
    /\ module = "out" => Holders = {}

(* There are finitely many holders. *)
LEMMA HoldersFinite == IsFiniteSet(Holders)
  <1>1. Holders \subseteq Thread
    BY DEF Holders
  <1> QED
    BY <1>1, SvcAssumption, FS_Subset

(* A step of a thread that keeps its reference. *)
LEMMA HeldKept ==
    ASSUME HeldInv, NEW t \in Thread, NEW from, NEW to, Goto(t, from, to),
           from \notin {"none", "gone"}, to \notin {"none", "gone"},
           UNCHANGED <<module, init_pc, mod_refs>>
    PROVE  HeldInv'
  <1>1. Holders' = Holders /\ DOMAIN thread' = Thread
    BY DEF Holders, Goto, HeldInv
  <1> QED
    BY <1>1 DEF HeldInv

(* A step of no thread while the module stays as it is. *)
LEMMA HeldQuiet ==
    ASSUME HeldInv, UNCHANGED <<thread, mod_refs>>,
           module' = module \/ module' = "live",
           init_pc' # "none" => module' = "coming"
    PROVE  HeldInv'
  <1>1. Holders' = Holders
    BY DEF Holders
  <1> QED
    BY <1>1 DEF HeldInv

(* A service thread gives back its reference only as it ends. *)
LEMMA HeldThread ==
    ASSUME HeldInv, NEW t \in Thread, vsnfsd(t)
    PROVE  HeldInv'
  <1>1. CASE ThreadBegins(t)
    BY <1>1, HeldKept DEF ThreadBegins, init_vars
  <1>2. CASE ThreadReceives(t)
    BY <1>2, HeldKept DEF ThreadReceives, init_vars
  <1>3. CASE ThreadReplies(t)
    <2>1. PICK to \in {"hung", "recv"} : Goto(t, "call", to)
      BY <1>3 DEF ThreadReplies, GetrootDone, SearchDone, Done
    <2> QED
      BY <1>3, <2>1, HeldKept DEF ThreadReplies, init_vars
  <1>4. CASE ThreadInterrupted(t)
    BY <1>4, HeldKept DEF ThreadInterrupted, init_vars
  <1>5. CASE ThreadLoads(t)
    BY <1>5, HeldKept DEF ThreadLoads, init_vars
  <1>6. CASE ThreadExits(t)
    <2>1. PICK to \in {"oops", "put"} : Goto(t, "release", to)
      BY <1>6 DEF ThreadExits
    <2> QED
      BY <1>6, <2>1, HeldKept DEF ThreadExits, init_vars
  <1>7. CASE ThreadEnds(t)
    <2>1. t \in Holders /\ Holders' = Holders \ {t} /\ DOMAIN thread' = Thread
      BY <1>7 DEF ThreadEnds, Goto, Holders, HeldInv
    <2>2. Cardinality(Holders') = Cardinality(Holders) - 1
      BY <2>1, HoldersFinite, FS_RemoveElement
    <2> QED
      BY <1>7, <2>1, <2>2 DEF ThreadEnds, HeldInv, init_vars
  <1> QED
    BY <1>1, <1>2, <1>3, <1>4, <1>5, <1>6, <1>7 DEF vsnfsd

(* Starting a thread takes one reference for it. *)
LEMMA HeldStart ==
    ASSUME HeldInv, NEW t \in Thread, StartThread(t)
    PROVE  HeldInv'
  <1>1. /\ t \notin Holders /\ Holders' = Holders \cup {t}
        /\ DOMAIN thread' = Thread
    BY DEF StartThread, Goto, Holders, HeldInv
  <1>2. Cardinality(Holders') = Cardinality(Holders) + 1
    BY <1>1, HoldersFinite, FS_AddElement
  <1>3. module' = "coming" /\ mod_refs' = mod_refs + 1
    BY DEF StartThread, HeldInv
  <1> QED
    BY <1>1, <1>2, <1>3 DEF HeldInv

(* The other steps of loading the module. *)
LEMMA HeldSvc ==
    ASSUME HeldInv, vsnfsd_svc
    PROVE  HeldInv'
  <1>1. CASE vsnfsd_create_serv
    BY <1>1, HeldQuiet DEF vsnfsd_create_serv, HeldInv
  <1>2. CASE vsnfsd_init_socks
    BY <1>2, HeldQuiet DEF vsnfsd_init_socks, CreateSocket, HeldInv
  <1>3. CASE PrepareThread
    BY <1>3, HeldQuiet DEF PrepareThread, HeldInv
  <1>4. CASE \E t \in Thread : StartThread(t)
    BY <1>4, HeldStart
  <1>5. CASE ThreadsStarted
    BY <1>5, HeldQuiet DEF ThreadsStarted, HeldInv
  <1>6. CASE SvcDestroyLoads
    BY <1>6, HeldQuiet DEF SvcDestroyLoads, HeldInv
  <1>7. CASE SvcDestroy
    BY <1>7, HeldQuiet DEF SvcDestroy, HeldInv
  <1>8. CASE init_vsnfsd
    BY <1>8, HeldQuiet DEF init_vsnfsd
  <1> QED
    BY <1>1, <1>2, <1>3, <1>4, <1>5, <1>6, <1>7, <1>8 DEF vsnfsd_svc

(* The module has no reference when it is first loaded. *)
LEMMA HeldInit == Init => HeldInv
  <1> SUFFICES ASSUME Init PROVE HeldInv
    OBVIOUS
  <1>1. Holders = {} /\ DOMAIN thread = Thread
    BY DEF Init, Holders
  <1> QED
    BY <1>1, FS_EmptySet DEF Init, HeldInv

(* No step of the service, of its threads or of the administrator breaks it. *)
LEMMA HeldNext ==
    ASSUME HeldInv, [Next]_vars
    PROVE  HeldInv'
  <1>1. CASE InsertModule
    <2>1. Holders' = {} /\ Holders = {} /\ DOMAIN thread' = Thread
      BY <1>1 DEF InsertModule, Holders, HeldInv
    <2> QED
      BY <1>1, <2>1 DEF InsertModule, HeldInv
  <1>2. CASE vsnfsd_svc
    BY <1>2, HeldSvc
  <1>3. CASE RemoveModule
    <2>1. Holders' = Holders /\ init_pc = "none"
      BY <1>3 DEF RemoveModule, Holders, HeldInv
    <2>2. Holders = {}
      BY <1>3, HoldersFinite, FS_EmptySet DEF RemoveModule, HeldInv
    <2> QED
      BY <1>3, <2>1, <2>2 DEF RemoveModule, HeldInv
  <1>4. CASE \E t \in Thread : Kill(t)
    BY <1>4, HeldQuiet DEF Kill, HeldInv, init_vars
  <1>5. CASE \E t \in Thread : vsnfsd(t)
    BY <1>5, HeldThread
  <1>6. CASE UNCHANGED vars
    BY <1>6, HeldQuiet DEF vars, HeldInv
  <1> QED
    BY <1>1, <1>2, <1>3, <1>4, <1>5, <1>6 DEF Next

(* The code of the module is never removed under init_vsnfsd, a thread, or   *)
(* the shutdown function that either runs: every thread is started with a    *)
(* reference (svc_set_num_threads) and gives it up as the last thing it does *)
(* (module_put_and_exit).                                                    *)
THEOREM ModuleIsHeld == Spec => []ModuleHeld
  <1>1. HeldInv => ModuleHeld
    BY DEF HeldInv, ModuleHeld, Holders, Running
  <1> QED
    BY <1>1, HeldInit, HeldNext, PTL DEF Spec

-------------------------------------------------------------------------------
(* Types *)

NoThreads == \A t \in Thread : thread[t] = "none"

(* A start that failed at a socket: vsnfsd_svc has the only reference, and   *)
(* svc_destroy will run into the fresh list head.                            *)
Failing ==
    /\ NoThreads
    /\ list = "zero"
    /\ \/ init_pc = "destroy" /\ sv_nrthreads = 1
       \/ init_pc = "release" /\ loaded[Insmod] = 1
       \/ init_pc = "oops"

(* The inductive invariant behind the types.  That vsnfsd_last_thread undoes *)
(* no lockd_up that was not called does not follow from them: a socket whose *)
(* lockd_up failed is counted too, and only the bad list head keeps the      *)
(* shutdown function from it.                                                *)
StartInv ==
    /\ TypeOK
    /\ init_pc \in {"create", "udp", "tcp"} => NoThreads /\ list = "zero"
    /\ init_pc \in {"udp", "tcp"} => sv_nrthreads = 1
    /\ lockd >= Cardinality(permsocks) \/ Failing

(* There are at most two sockets. *)
LEMMA SocketsFinite ==
    ASSUME NEW S \in SUBSET {"udp", "tcp"}
    PROVE  IsFiniteSet(S) /\ Cardinality(S) \in Nat
  <1>1. IsFiniteSet({"udp"} \cup {"tcp"})
    BY FS_Singleton, FS_AddElement
  <1>2. S \subseteq {"udp"} \cup {"tcp"}
    OBVIOUS
  <1> QED
    BY <1>1, <1>2, FS_Subset, FS_CardinalityType

(* A step that leaves the sockets and lockd alone, and does not touch a      *)
(* start that fails.                                                         *)
LEMMA StartQuiet ==
    ASSUME StartInv, TypeOK', UNCHANGED <<permsocks, lockd>>,
           init_pc' \in {"create", "udp", "tcp"} => NoThreads' /\ list' = "zero",
           init_pc' \in {"udp", "tcp"} => sv_nrthreads' = 1,
           Failing => Failing'
    PROVE  StartInv'
  BY DEF StartInv

(* svc_destroy gives back at most what there is. *)
LEMMA DestroyType ==
    ASSUME StartInv, NEW p \in Thread \cup {Insmod}, NEW oops \in BOOLEAN,
           svc_destroy(p, oops), p = Insmod \/ ~NoThreads,
           p = Insmod => init_pc = "release"
    PROVE  /\ sv_nrthreads' \in Nat /\ loaded' = loaded
           /\ permsocks' \in SUBSET {"udp", "tcp"} /\ lockd' \in Nat
           /\ list' \in {"zero", "empty", "nodes"} /\ (list' = "zero" <=> list = "zero")
           /\ lockd' >= Cardinality(permsocks') \/ (oops /\ Failing /\ list' = "zero")
  <1>1. Cardinality(permsocks) \in Nat /\ lockd \in Nat
    BY SocketsFinite DEF StartInv, TypeOK
  <1>2. loaded[p] \in Nat
    BY DEF StartInv, TypeOK
  <1>3. CASE loaded[p] > 1 /\ ~oops /\ UNCHANGED <<permsocks, lockd, list>>
               /\ sv_nrthreads' = loaded[p] - 1 /\ UNCHANGED loaded
    <2>1. ~Failing
      BY <1>3, SvcAssumption, SMT DEF Failing
    <2> QED
      BY <1>1, <1>2, <1>3, <2>1, SMT DEF StartInv, TypeOK
  <1>4. CASE list # "zero" /\ ~oops /\ sv_nrthreads' = 0 /\ vsnfsd_last_thread
               /\ permsocks' = {} /\ UNCHANGED loaded
    <2>1. ~Failing
      BY <1>4 DEF Failing
    <2>2. lockd' = lockd - Cardinality(permsocks) /\ lockd >= Cardinality(permsocks)
      BY <1>4, <2>1 DEF vsnfsd_last_thread, StartInv
    <2>3. list' = "empty" /\ Cardinality(permsocks') = 0
      BY <1>4, FS_EmptySet DEF vsnfsd_last_thread
    <2> QED
      BY <1>1, <1>4, <2>2, <2>3, SMT
  <1>5. CASE list = "zero" /\ oops /\ sv_nrthreads' = 0
               /\ UNCHANGED <<permsocks, lockd, list, loaded>>
    BY <1>1, <1>5 DEF StartInv, TypeOK
  <1> QED
    BY <1>3, <1>4, <1>5 DEF svc_destroy

(* Loading the module. *)
LEMMA StartSvc ==
    ASSUME StartInv, HeldInv, vsnfsd_svc
    PROVE  StartInv'
  <1>1. CASE vsnfsd_create_serv
    <2>1. TypeOK'
      <3>1. /\ sv_nrthreads' \in Nat
            /\ rc' \in {"none", "error", "threads"} /\ init_pc' \in {"udp", "return"}
        BY <1>1, SMT DEF vsnfsd_create_serv, StartInv, TypeOK
      <3>2. permsocks' \subseteq {"udp", "tcp"}
        BY <1>1 DEF vsnfsd_create_serv, StartInv, TypeOK
      <3>3. UNCHANGED <<module, mod_refs, loads, loaded, lockd, list, orphans, raced,
                        thread, pending>>
        BY <1>1 DEF vsnfsd_create_serv, table
      <3> QED
        BY <3>1, <3>2, <3>3 DEF StartInv, TypeOK
    <2>2. NoThreads' = NoThreads /\ ~Failing /\ lockd' = lockd /\ list' = list
      BY <1>1 DEF vsnfsd_create_serv, NoThreads, Failing, table
    <2>3. CASE permsocks' = permsocks
      BY <1>1, <2>1, <2>2, <2>3, StartQuiet DEF vsnfsd_create_serv, StartInv
    <2>4. CASE permsocks' = {} /\ sv_nrthreads' = 1 /\ init_pc' = "udp"
      <3>1. lockd' >= Cardinality(permsocks')
        BY <2>1, <2>4, FS_EmptySet, SMT DEF TypeOK
      <3> QED
        BY <1>1, <2>1, <2>2, <2>4, <3>1 DEF StartInv, vsnfsd_create_serv
    <2> QED
      BY <1>1, <2>3, <2>4 DEF vsnfsd_create_serv
  <1>2. ASSUME NEW proto \in {"udp", "tcp"}, NEW next \in {"tcp", "threads"},
               CreateSocket(proto, next)
        PROVE  StartInv'
    <2>1. TypeOK'
      <3>1. permsocks' \subseteq {"udp", "tcp"}
        BY <1>2 DEF CreateSocket, StartInv, TypeOK
      <3>2. lockd' \in Nat /\ rc' \in {"none", "error", "threads"}
        BY <1>2, SMT DEF CreateSocket, StartInv, TypeOK
      <3>3. init_pc' \in {"tcp", "threads", "destroy"}
        BY <1>2 DEF CreateSocket
      <3>4. UNCHANGED <<module, mod_refs, loads, sv_nrthreads, loaded, list, orphans,
                        thread, pending, raced>>
        BY <1>2 DEF CreateSocket, table
      <3> QED
        BY <3>1, <3>2, <3>3, <3>4 DEF StartInv, TypeOK
    <2>2. NoThreads' /\ list' = "zero" /\ sv_nrthreads' = 1
      BY <1>2 DEF CreateSocket, StartInv, NoThreads, table
    <2>3. CASE permsocks' = permsocks \cup {proto} /\ lockd' = lockd + 1
      <3>1. ~Failing /\ lockd >= Cardinality(permsocks)
        BY <1>2 DEF CreateSocket, Failing, StartInv
      <3>2. Cardinality(permsocks') <= Cardinality(permsocks) + 1
        <4>1. permsocks \subseteq {"udp", "tcp"}
          BY DEF StartInv, TypeOK
        <4>2. IsFiniteSet(permsocks) /\ Cardinality(permsocks) \in Nat
          BY <4>1, SocketsFinite
        <4>3. Cardinality(permsocks \cup {proto}) =
                 IF proto \in permsocks THEN Cardinality(permsocks)
                                        ELSE Cardinality(permsocks) + 1
          BY <4>2, FS_AddElement
        <4> QED
          BY <2>3, <4>2, <4>3, SMT
      <3>3. /\ Cardinality(permsocks) \in Nat /\ lockd \in Nat
            /\ Cardinality(permsocks') \in Nat
        BY <2>1, SocketsFinite DEF StartInv, TypeOK
      <3>4. lockd' >= Cardinality(permsocks')
        BY <2>3, <3>1, <3>2, <3>3, SMT
      <3> QED
        BY <2>1, <2>2, <3>4 DEF StartInv
    <2>4. CASE init_pc' = "destroy"
      BY <2>1, <2>2, <2>4 DEF StartInv, Failing
    <2> QED
      BY <1>2, <2>3, <2>4 DEF CreateSocket
  <1>3. CASE PrepareThread
    <2>1. TypeOK'
      BY <1>3, SvcAssumption DEF PrepareThread, Load, StartInv, TypeOK, table
    <2>2. ~Failing /\ init_pc' = "start" /\ UNCHANGED <<permsocks, lockd>>
      BY <1>3 DEF PrepareThread, Load, Failing
    <2> QED
      BY <2>1, <2>2, StartQuiet
  <1>4. ASSUME NEW t \in Thread, StartThread(t)
        PROVE  StartInv'
    <2>1. TypeOK'
      BY <1>4, SMT DEF StartThread, Goto, StartInv, TypeOK, table
    <2>2. ~Failing /\ init_pc' = "threads" /\ UNCHANGED <<permsocks, lockd>>
      BY <1>4 DEF StartThread, Failing
    <2> QED
      BY <2>1, <2>2, StartQuiet
  <1>5. CASE ThreadsStarted
    <2>1. TypeOK'
      BY <1>5 DEF ThreadsStarted, StartInv, TypeOK, serv_vars, table
    <2>2. ~Failing /\ init_pc' = "destroy" /\ UNCHANGED <<permsocks, lockd>>
      BY <1>5 DEF ThreadsStarted, Failing, serv_vars
    <2> QED
      BY <2>1, <2>2, StartQuiet
  <1>6. CASE SvcDestroyLoads
    <2>1. TypeOK'
      BY <1>6, SvcAssumption DEF SvcDestroyLoads, Load, StartInv, TypeOK, table
    <2>2. init_pc' = "release" /\ UNCHANGED <<permsocks, lockd, list, thread>>
          /\ loaded'[Insmod] = sv_nrthreads /\ init_pc = "destroy"
      BY <1>6 DEF SvcDestroyLoads, Load, StartInv, TypeOK, table
    <2>3. Failing => Failing'
      BY <2>2 DEF Failing, NoThreads
    <2> QED
      BY <2>1, <2>2, <2>3, StartQuiet
  <1>7. CASE SvcDestroy
    <2>1. PICK oops \in BOOLEAN : /\ svc_destroy(Insmod, oops)
                                  /\ init_pc' = IF oops THEN "oops" ELSE "return"
      BY <1>7 DEF SvcDestroy
    <2>2. /\ init_pc = "release"
          /\ UNCHANGED <<module, mod_refs, loads, rc, thread, orphans, pending, raced>>
      BY <1>7 DEF SvcDestroy, svc_destroy
    <2>3. /\ sv_nrthreads' \in Nat /\ loaded' = loaded
          /\ permsocks' \in SUBSET {"udp", "tcp"} /\ lockd' \in Nat
          /\ list' \in {"zero", "empty", "nodes"} /\ (list' = "zero" <=> list = "zero")
          /\ lockd' >= Cardinality(permsocks') \/ (oops /\ Failing /\ list' = "zero")
      BY <2>1, <2>2, DestroyType
    <2>4. TypeOK'
      BY <2>1, <2>2, <2>3 DEF StartInv, TypeOK
    <2>5. oops /\ Failing /\ list' = "zero" => Failing'
      BY <2>1, <2>2 DEF Failing, NoThreads
    <2> QED
      BY <2>1, <2>3, <2>4, <2>5 DEF StartInv
  <1>8. CASE init_vsnfsd
    <2>1. TypeOK'
      BY <1>8 DEF init_vsnfsd, StartInv, TypeOK, serv_vars, table
    <2>2. ~Failing /\ init_pc' = "none" /\ UNCHANGED <<permsocks, lockd>>
      BY <1>8 DEF init_vsnfsd, Failing, serv_vars
    <2> QED
      BY <2>1, <2>2, StartQuiet
  <1> QED
    BY <1>1, <1>2, <1>3, <1>4, <1>5, <1>6, <1>7, <1>8
    DEF vsnfsd_svc, vsnfsd_init_socks

(* A step of a thread, which runs only after the sockets are made. *)
LEMMA StartThreadStep ==
    ASSUME StartInv, NEW t \in Thread, NEW from, from # "none",
           NEW to \in {"recv", "call", "hung", "exit", "release", "put", "gone", "oops"},
           Goto(t, from, to), UNCHANGED init_vars, mod_refs' \in Nat,
           sv_nrthreads' \in Nat, loaded' \in [Thread \cup {Insmod} -> Nat],
           permsocks' \subseteq {"udp", "tcp"}, lockd' \in Nat,
           lockd' >= Cardinality(permsocks') \/ UNCHANGED <<permsocks, lockd>>,
           list' \in {"zero", "empty", "nodes"}, orphans' \in BOOLEAN,
           pending' \subseteq Thread, raced' \in BOOLEAN
    PROVE  StartInv'
  <1>1. ~NoThreads /\ ~Failing /\ init_pc \notin {"create", "udp", "tcp"}
    BY DEF NoThreads, Failing, StartInv, Goto
  <1>2. thread' \in [Thread -> {"none", "start", "recv", "call", "exit", "release",
                                "put", "gone", "hung", "oops"}]
    BY SMT DEF Goto, StartInv, TypeOK
  <1>3. TypeOK'
    BY <1>2 DEF StartInv, TypeOK, init_vars
  <1>4. init_pc' = init_pc
    BY DEF init_vars
  <1>5. lockd' >= Cardinality(permsocks')
    BY <1>1 DEF StartInv
  <1> QED
    BY <1>1, <1>3, <1>4, <1>5 DEF StartInv

(* No thread breaks it. *)
LEMMA StartThreads ==
    ASSUME StartInv, HeldInv, HeldInv', NEW t \in Thread, vsnfsd(t)
    PROVE  StartInv'
  <1>1. /\ mod_refs \in Nat /\ sv_nrthreads \in Nat /\ lockd \in Nat
        /\ loaded \in [Thread \cup {Insmod} -> Nat] /\ permsocks \subseteq {"udp", "tcp"}
        /\ list \in {"zero", "empty", "nodes"} /\ orphans \in BOOLEAN
        /\ pending \subseteq Thread /\ raced \in BOOLEAN
    BY DEF StartInv, TypeOK
  <1>2. ASSUME NEW from, from # "none", NEW to \in {"recv", "call", "exit"},
               Goto(t, from, to), UNCHANGED <<init_vars, mod_refs, serv_vars>>,
               pending' \subseteq Thread
        PROVE  StartInv'
    <2>1. UNCHANGED <<sv_nrthreads, loaded, permsocks, lockd, list, orphans, raced>>
      BY <1>2 DEF serv_vars, table
    <2> QED
      BY <1>1, <1>2, <2>1, StartThreadStep
  <1>3. CASE ThreadBegins(t)
    <2>1. PICK to \in {"recv", "exit"} : Goto(t, "start", to)
      BY <1>3 DEF ThreadBegins
    <2> QED
      BY <1>1, <1>2, <1>3, <2>1 DEF ThreadBegins
  <1>4. CASE ThreadReceives(t)
    BY <1>1, <1>2, <1>4 DEF ThreadReceives
  <1>5. CASE ThreadReplies(t)
    <2>1. PICK to \in {"hung", "recv"} :
              Goto(t, "call", to) /\ list' \in {list, "empty", "nodes"}
      BY <1>5 DEF ThreadReplies, GetrootDone, SearchDone, Done
    <2>2. orphans' \in BOOLEAN
      BY <1>1, <1>5 DEF ThreadReplies, GetrootDone, SearchDone
    <2>3. UNCHANGED <<init_vars, mod_refs, sv_nrthreads, loaded, permsocks, lockd,
                      pending, raced>>
      BY <1>5 DEF ThreadReplies
    <2> QED
      BY <1>1, <2>1, <2>2, <2>3, StartThreadStep
  <1>6. CASE ThreadInterrupted(t)
    <2>1. pending' \subseteq Thread
      BY <1>1, <1>6 DEF ThreadInterrupted
    <2> QED
      BY <1>2, <1>6, <2>1 DEF ThreadInterrupted
  <1>9. CASE ThreadLoads(t)
    <2>1. loaded' \in [Thread \cup {Insmod} -> Nat]
      BY <1>1, <1>9, SMT DEF ThreadLoads, Load
    <2>2. /\ Goto(t, "exit", "release")
          /\ UNCHANGED <<init_vars, mod_refs, sv_nrthreads, permsocks, lockd, list,
                         orphans, pending>>
      BY <1>9 DEF ThreadLoads, Load, table
    <2>3. raced' \in BOOLEAN
      BY <1>9 DEF ThreadLoads, Load
    <2> QED
      BY <1>1, <2>1, <2>2, <2>3, StartThreadStep
  <1>7. CASE ThreadExits(t)
    <2>1. PICK oops \in BOOLEAN : /\ svc_destroy(t, oops)
                                  /\ Goto(t, "release", IF oops THEN "oops" ELSE "put")
      BY <1>7 DEF ThreadExits
    <2>2. UNCHANGED <<init_vars, mod_refs, orphans, pending, raced>>
      BY <1>7 DEF ThreadExits, svc_destroy
    <2>3. ~NoThreads /\ ~Failing
      BY <2>1 DEF Goto, NoThreads, Failing
    <2>4. /\ sv_nrthreads' \in Nat /\ loaded' = loaded
          /\ permsocks' \in SUBSET {"udp", "tcp"} /\ lockd' \in Nat
          /\ list' \in {"zero", "empty", "nodes"}
          /\ lockd' >= Cardinality(permsocks')
      BY <2>1, <2>3, SvcAssumption, DestroyType
    <2>5. PICK to \in {"oops", "put"} : Goto(t, "release", to)
      BY <2>1
    <2> QED
      BY <1>1, <2>2, <2>4, <2>5, StartThreadStep
  <1>8. CASE ThreadEnds(t)
    <2>1. mod_refs' \in Nat
      <3>1. IsFiniteSet(Holders')
        BY SvcAssumption, FS_Subset DEF Holders
      <3> QED
        BY <3>1, FS_CardinalityType DEF HeldInv
    <2>2. /\ Goto(t, "put", "gone")
          /\ UNCHANGED <<init_vars, sv_nrthreads, loaded, permsocks, lockd, list, orphans,
                         pending, raced>>
      BY <1>8 DEF ThreadEnds, serv_vars, table
    <2> QED
      BY <1>1, <2>1, <2>2, StartThreadStep
  <1> QED
    BY <1>3, <1>4, <1>5, <1>6, <1>7, <1>8, <1>9 DEF vsnfsd

(* No step of the service, of its threads or of the administrator breaks it. *)
LEMMA StartNext ==
    ASSUME StartInv, HeldInv, HeldInv', [Next]_vars
    PROVE  StartInv'
  <1>1. CASE InsertModule
    <2>1. TypeOK'
      <3>1. loads' \in 0..MaxLoads
        BY <1>1, SvcAssumption, SMT DEF InsertModule, StartInv, TypeOK
      <3>2. thread' \in [Thread -> {"none", "start", "recv", "call", "exit", "release",
                                    "put", "gone", "hung", "oops"}]
        BY <1>1 DEF InsertModule
      <3> QED
        BY <1>1, <3>1, <3>2 DEF InsertModule, StartInv, TypeOK
    <2>2. NoThreads' /\ ~Failing /\ UNCHANGED <<permsocks, lockd>>
      BY <1>1 DEF InsertModule, NoThreads, Failing, HeldInv
    <2> QED
      BY <1>1, <2>1, <2>2, StartQuiet DEF InsertModule
  <1>2. CASE vsnfsd_svc
    BY <1>2, StartSvc
  <1>3. CASE RemoveModule \/ \E t \in Thread : Kill(t)
    <2>1. /\ UNCHANGED <<mod_refs, loads, init_pc, rc, serv_vars, thread>>
          /\ module' \in {module, "out"}
      BY <1>3 DEF RemoveModule, Kill, init_vars
    <2>2. UNCHANGED <<init_pc, sv_nrthreads, loaded, permsocks, lockd, list, orphans,
                      thread, raced>>
      BY <2>1 DEF serv_vars, table
    <2>3. TypeOK'
      <3>1. module' \in {"out", "coming", "live"}
        BY <2>1 DEF StartInv, TypeOK
      <3>2. pending' \subseteq Thread
        BY <1>3 DEF RemoveModule, Kill, StartInv, TypeOK
      <3> QED
        BY <2>1, <2>2, <3>1, <3>2 DEF StartInv, TypeOK
    <2> QED
      BY <2>2, <2>3 DEF StartInv, Failing, NoThreads
  <1>4. CASE \E t \in Thread : vsnfsd(t)
    BY <1>4, StartThreads
  <1>5. CASE UNCHANGED vars
    BY <1>5, SMT DEF vars, StartInv, TypeOK, Failing, NoThreads
  <1> QED
    BY <1>1, <1>2, <1>3, <1>4, <1>5 DEF Next

(* A freshly booted machine satisfies it. *)
LEMMA StartInit == Init => StartInv
  <1> SUFFICES ASSUME Init PROVE StartInv
    OBVIOUS
  <1>1. TypeOK
    <2>1. 0 \in Nat /\ 0 \in 0..MaxLoads
      BY SvcAssumption, SMT
    <2> QED
      BY <2>1 DEF Init, TypeOK
  <1> QED
    BY <1>1, FS_EmptySet, SMT DEF Init, StartInv

(* The types of the service's state hold in every behaviour, for every       *)
(* number of threads, loads and failures: no count that svc_exit_thread or   *)
(* vsnfsd_last_thread reduces falls below zero.                              *)
THEOREM SvcTypeCorrect == Spec => []TypeOK
  <1>1. StartInv => TypeOK
    BY DEF StartInv
  <1> QED
    BY <1>1, HeldInit, HeldNext, StartInit, StartNext, PTL DEF Spec

-------------------------------------------------------------------------------
(* The count *)

(* The inductive invariant behind CountIsUsers.  A count is stored that was  *)
(* loaded a step before, so the value loaded has to be the count still:      *)
(* nobody else is between a load and a store.                                *)
CountInv ==
    /\ sv_nrthreads = Cardinality(Users)
    /\ \A p \in Changing : loaded[p] = sv_nrthreads
    /\ \A p, q \in Changing : p = q

(* Somebody met the fresh list head in svc_destroy. *)
Crashed == init_pc = "oops" \/ \E t \in Thread : thread[t] = "oops"

(* And behind NothingLeft: a service without users has no sockets, lockd_up  *)
(* was called once for each socket, and a new service starts with none.      *)
CleanInv ==
    /\ Users = {} /\ ~Crashed => permsocks = {} /\ lockd = 0 /\ list # "nodes"
    /\ lockd = Cardinality(permsocks) \/ Failing
    /\ init_pc = "udp" => permsocks = {}
    /\ init_pc = "tcp" => permsocks \subseteq {"udp"}

ServiceInv == HeldInv /\ StartInv /\ (~raced => CountInv /\ CleanInv)

(* There are finitely many users. *)
LEMMA UsersFinite ==
    /\ IsFiniteSet(Users) /\ Cardinality(Users) \in Nat
    /\ Users = {} <=> Cardinality(Users) = 0
  <1>1. IsFiniteSet(Thread \cup {Insmod})
    BY SvcAssumption, FS_AddElement
  <1>2. Users \subseteq Thread \cup {Insmod}
    BY DEF Users
  <1> QED
    BY <1>1, <1>2, FS_Subset, FS_CardinalityType, FS_EmptySet

(* A step that adds no user and loads no count. *)
LEMMA CountQuiet ==
    ASSUME CountInv, Users' = Users, UNCHANGED <<sv_nrthreads, loaded>>,
           Changing' = Changing
    PROVE  CountInv'
  BY DEF CountInv

(* A load by p, the only one to change the count. *)
LEMMA CountLoad ==
    ASSUME CountInv, StartInv, NEW p \in Thread \cup {Insmod}, Load(p), ~raced',
           Users' = Users, Changing' = Changing \cup {p}
    PROVE  CountInv'
  <1>1. Changing' = {p}
    BY DEF Load
  <1>2. sv_nrthreads' = sv_nrthreads /\ loaded'[p] = sv_nrthreads
    BY DEF Load, StartInv, TypeOK
  <1> QED
    BY <1>1, <1>2 DEF CountInv

(* One that leaves the sockets, lockd and the table alone as well. *)
LEMMA CleanQuiet ==
    ASSUME CleanInv, UNCHANGED <<permsocks, lockd, list>>,
           (Users = {} /\ ~Crashed) \/ Users' # {} \/ Crashed',
           Failing => Failing',
           init_pc' \in {"udp", "tcp"} => init_pc' = init_pc
    PROVE  CleanInv'
  BY DEF CleanInv

(* svc_destroy by a user whose count is up to date takes that user away, and *)
(* the last one takes what the service has.                                  *)
LEMMA DestroyCounts ==
    ASSUME StartInv, CountInv, CleanInv, NEW p \in Users, svc_destroy(p, FALSE),
           loaded[p] = sv_nrthreads, Users' = Users \ {p},
           p = Insmod \/ ~NoThreads, p = Insmod => init_pc = "release"
    PROVE  /\ sv_nrthreads' = Cardinality(Users')
           /\ Users' = {} => permsocks' = {} /\ lockd' = 0 /\ list' # "nodes"
           /\ lockd' = Cardinality(permsocks')
  <1>1. /\ Cardinality(Users) \in Nat /\ Cardinality(Users) # 0
        /\ Cardinality(Users') = Cardinality(Users) - 1
        /\ sv_nrthreads = Cardinality(Users)
    BY UsersFinite, FS_RemoveElement DEF CountInv
  <1>2. CASE /\ loaded[p] > 1 /\ sv_nrthreads' = loaded[p] - 1
             /\ UNCHANGED <<permsocks, lockd, list>>
    <2>1. ~Failing
      BY <1>2, SvcAssumption, SMT DEF Failing
    <2>2. Users' # {}
      BY <1>1, <1>2, FS_EmptySet, SMTT(30)
    <2> QED
      BY <1>1, <1>2, <2>1, <2>2 DEF CleanInv
  <1>3. CASE loaded[p] <= 1 /\ list # "zero" /\ sv_nrthreads' = 0
               /\ vsnfsd_last_thread /\ permsocks' = {}
    <2>1. lockd = Cardinality(permsocks) /\ lockd \in Nat
      BY <1>3 DEF CleanInv, Failing, StartInv, TypeOK
    <2>2. list' = "empty" /\ lockd' = 0
      BY <1>3, <2>1, SMT DEF vsnfsd_last_thread
    <2> QED
      BY <1>1, <1>3, <2>2, FS_EmptySet, SMT
  <1> QED
    BY <1>2, <1>3 DEF svc_destroy


(* And so when it meets the fresh list head: it was the last. *)
LEMMA OopsCounts ==
    ASSUME StartInv, CountInv, NEW p \in Users, svc_destroy(p, TRUE),
           loaded[p] = sv_nrthreads, Users' = Users \ {p}
    PROVE  /\ sv_nrthreads' = Cardinality(Users') /\ list = "zero"
           /\ UNCHANGED <<permsocks, lockd, list>>
  <1>1. /\ Cardinality(Users) \in Nat /\ Cardinality(Users) # 0
        /\ Cardinality(Users') = Cardinality(Users) - 1
        /\ sv_nrthreads = Cardinality(Users)
    BY UsersFinite, FS_RemoveElement DEF CountInv
  <1>2. /\ loaded[p] <= 1 /\ list = "zero" /\ sv_nrthreads' = 0
        /\ UNCHANGED <<permsocks, lockd, list>>
    BY DEF svc_destroy
  <1> QED
    BY <1>1, <1>2, SMT

(* The store of a process p that loaded the count: nobody else has. *)
LEMMA NobodyElse ==
    ASSUME CountInv, NEW p \in Changing, Changing' = Changing \ {p},
           sv_nrthreads' = Cardinality(Users')
    PROVE  CountInv'
  <1>1. Changing' = {}
    BY DEF CountInv
  <1> QED
    BY <1>1 DEF CountInv

(* Loading the module keeps the count. *)
LEMMA SvcCounts ==
    ASSUME HeldInv, StartInv, CountInv, CleanInv, vsnfsd_svc, ~raced'
    PROVE  CountInv' /\ CleanInv'
  <1>1. CASE vsnfsd_create_serv
    <2>1. /\ init_pc = "create" /\ NoThreads
          /\ UNCHANGED <<loaded, lockd, list, thread>>
      BY <1>1 DEF vsnfsd_create_serv, StartInv, table
    <2>2. Users = {} /\ ~Crashed /\ ~Failing /\ Changing = {}
      BY <2>1 DEF Users, NoThreads, Failing, Crashed, Changing
    <2>3. permsocks = {} /\ lockd = 0 /\ lockd = Cardinality(permsocks)
      BY <2>2 DEF CleanInv
    <2>4. permsocks' = permsocks
      BY <1>1, <2>3 DEF vsnfsd_create_serv
    <2>5. CASE sv_nrthreads' = 1 /\ init_pc' = "udp"
      <3>1. Users' = {Insmod} /\ Changing' = {}
        BY <2>1, <2>5 DEF Users, NoThreads, Changing
      <3>2. CountInv'
        BY <2>5, <3>1, FS_Singleton DEF CountInv
      <3> QED
        BY <2>1, <2>3, <2>4, <2>5, <3>1, <3>2 DEF CleanInv
    <2>6. CASE sv_nrthreads' = sv_nrthreads /\ init_pc' = "return"
      <3>1. Users' = Users /\ Changing' = Changing
        BY <2>1, <2>2, <2>6 DEF Users, NoThreads, Changing
      <3>2. CountInv'
        BY <2>1, <2>6, <3>1, CountQuiet
      <3> QED
        BY <2>1, <2>2, <2>4, <2>6, <3>2, CleanQuiet
    <2> QED
      BY <1>1, <2>5, <2>6 DEF vsnfsd_create_serv
  <1>2. ASSUME NEW proto \in {"udp", "tcp"}, NEW next \in {"tcp", "threads"},
               CreateSocket(proto, next), next = IF proto = "udp" THEN "tcp" ELSE "threads"
        PROVE  CountInv' /\ CleanInv'
    <2>1. /\ init_pc = proto /\ NoThreads /\ list = "zero" /\ sv_nrthreads = 1
          /\ UNCHANGED <<sv_nrthreads, loaded, list, thread>>
          /\ init_pc' \in {next, "destroy"}
      BY <1>2 DEF CreateSocket, StartInv, table
    <2>2. Users' = Users /\ Insmod \in Users
      BY <2>1 DEF Users
    <2>3. Changing' = Changing
      BY <2>1 DEF Changing
    <2>4. CountInv'
      BY <2>1, <2>2, <2>3, CountQuiet
    <2>5. CASE permsocks' = permsocks \cup {proto} /\ lockd' = lockd + 1 /\ init_pc' = next
      <3>1. proto \notin permsocks /\ lockd = Cardinality(permsocks)
        BY <2>1 DEF CleanInv, Failing
      <3>2. lockd' = Cardinality(permsocks')
        BY <2>5, <3>1, SocketsFinite, FS_AddElement DEF StartInv, TypeOK
      <3>3. init_pc' = "tcp" => permsocks' \subseteq {"udp"}
        BY <1>2, <2>1, <2>5 DEF CleanInv
      <3> QED
        BY <1>2, <2>2, <2>4, <2>5, <3>2, <3>3 DEF CleanInv
    <2>6. CASE init_pc' = "destroy"
      <3>1. Failing'
        BY <2>1, <2>6 DEF Failing, NoThreads
      <3> QED
        BY <2>2, <2>4, <2>6, <3>1 DEF CleanInv
    <2> QED
      BY <1>2, <2>5, <2>6 DEF CreateSocket
  <1>3. CASE PrepareThread
    <2>1. /\ Load(Insmod) /\ UNCHANGED <<permsocks, lockd, list, thread>>
          /\ init_pc = "threads" /\ init_pc' = "start"
      BY <1>3 DEF PrepareThread, Load, table
    <2>2. Users' = Users /\ Insmod \in Users /\ ~Failing
      BY <2>1 DEF Users, Failing
    <2>3. Changing' = Changing \cup {Insmod}
      BY <2>1 DEF Changing
    <2>4. CountInv'
      BY <2>1, <2>2, <2>3, CountLoad
    <2> QED
      BY <2>1, <2>2, <2>4, CleanQuiet
  <1>4. ASSUME NEW t \in Thread, StartThread(t)
        PROVE  CountInv' /\ CleanInv'
    <2>1. /\ UNCHANGED <<loaded, permsocks, lockd, list>>
          /\ init_pc = "start" /\ init_pc' = "threads" /\ thread[t] = "none"
          /\ thread' = [thread EXCEPT ![t] = "start"] /\ DOMAIN thread = Thread
          /\ sv_nrthreads' = loaded[Insmod] + 1
      BY <1>4 DEF StartThread, Goto, HeldInv, table
    <2>2. Users' = Users \cup {t} /\ t \notin Users /\ ~Failing
      BY <2>1, SvcAssumption DEF Users, Failing
    <2>3. Insmod \in Changing /\ Changing' = Changing \ {Insmod}
      BY <2>1, SvcAssumption DEF Changing
    <2>4. sv_nrthreads' = sv_nrthreads + 1
      BY <2>1, <2>3 DEF CountInv
    <2>5. sv_nrthreads' = Cardinality(Users')
      BY <2>2, <2>4, UsersFinite, FS_AddElement DEF CountInv
    <2>6. CountInv'
      BY <2>3, <2>5, NobodyElse
    <2> QED
      BY <2>1, <2>2, <2>6, CleanQuiet
  <1>5. CASE ThreadsStarted
    <2>1. /\ UNCHANGED <<sv_nrthreads, loaded, permsocks, lockd, list, thread>>
          /\ init_pc = "threads" /\ init_pc' = "destroy"
      BY <1>5 DEF ThreadsStarted, serv_vars, table
    <2>2. Users' = Users /\ Insmod \in Users /\ ~Failing
      BY <2>1 DEF Users, Failing
    <2>3. Changing' = Changing
      BY <2>1 DEF Changing
    <2> QED
      BY <2>1, <2>2, <2>3, CountQuiet, CleanQuiet
  <1>6. CASE SvcDestroyLoads
    <2>1. /\ Load(Insmod) /\ UNCHANGED <<sv_nrthreads, permsocks, lockd, list, thread>>
          /\ init_pc = "destroy" /\ init_pc' = "release" /\ loaded'[Insmod] = sv_nrthreads
      BY <1>6 DEF SvcDestroyLoads, Load, StartInv, TypeOK, table
    <2>2. Users' = Users /\ Insmod \in Users
      BY <2>1 DEF Users
    <2>3. Failing => Failing'
      BY <2>1 DEF Failing, NoThreads
    <2>4. Changing' = Changing \cup {Insmod}
      BY <2>1 DEF Changing
    <2>5. CountInv'
      BY <2>1, <2>2, <2>4, CountLoad
    <2> QED
      BY <2>1, <2>2, <2>3, <2>5, CleanQuiet
  <1>7. CASE SvcDestroy
    <2>1. PICK oops \in BOOLEAN : /\ svc_destroy(Insmod, oops)
                                  /\ init_pc' = IF oops THEN "oops" ELSE "return"
      BY <1>7 DEF SvcDestroy
    <2>2. init_pc = "release" /\ UNCHANGED thread
      BY <1>7 DEF SvcDestroy
    <2>3. Insmod \in Users /\ Users' = Users \ {Insmod}
      BY <2>1, <2>2, SvcAssumption DEF Users
    <2>4. Insmod \in Changing /\ Changing' = Changing \ {Insmod}
      BY <2>1, <2>2, SvcAssumption DEF Changing
    <2>5. loaded[Insmod] = sv_nrthreads
      BY <2>4 DEF CountInv
    <2>6. CASE ~oops
      <3>1. svc_destroy(Insmod, FALSE) /\ init_pc' = "return"
        BY <2>1, <2>6
      <3>2. /\ sv_nrthreads' = Cardinality(Users')
            /\ Users' = {} => permsocks' = {} /\ lockd' = 0 /\ list' # "nodes"
            /\ lockd' = Cardinality(permsocks')
        BY <2>2, <2>3, <2>5, <3>1, DestroyCounts
      <3> QED
        BY <2>4, <3>1, <3>2, NobodyElse DEF CleanInv
    <2>7. CASE oops
      <3>1. /\ svc_destroy(Insmod, TRUE) /\ init_pc' = "oops"
        BY <2>1, <2>7
      <3>2. /\ sv_nrthreads' = Cardinality(Users') /\ list = "zero"
            /\ UNCHANGED <<permsocks, lockd, list>>
        BY <2>3, <2>5, <3>1, OopsCounts
      <3>3. Failing => Failing'
        BY <2>2, <3>1, <3>2 DEF Failing, NoThreads
      <3>4. Crashed'
        BY <3>1 DEF Crashed
      <3> QED
        BY <2>4, <3>1, <3>2, <3>3, <3>4, CleanQuiet, NobodyElse
    <2> QED
      BY <2>6, <2>7
  <1>8. CASE init_vsnfsd
    <2>1. /\ UNCHANGED <<sv_nrthreads, loaded, permsocks, lockd, list, thread>>
          /\ init_pc = "return" /\ init_pc' = "none"
      BY <1>8 DEF init_vsnfsd, serv_vars, table
    <2>2. Users' = Users /\ ~Failing /\ Changing' = Changing
      BY <2>1 DEF Users, Failing, Changing
    <2>3. Crashed' <=> Crashed
      BY <2>1 DEF Crashed
    <2> QED
      BY <2>1, <2>2, <2>3, CountQuiet, CleanQuiet
  <1> QED
    BY <1>1, <1>2, <1>3, <1>4, <1>5, <1>6, <1>7, <1>8
    DEF vsnfsd_svc, vsnfsd_init_socks

(* So do the threads. *)
LEMMA ThreadCounts ==
    ASSUME HeldInv, StartInv, CountInv, CleanInv, NEW t \in Thread, vsnfsd(t), ~raced'
    PROVE  CountInv' /\ CleanInv'
  <1>1. /\ thread[t] # "none" /\ init_pc' = init_pc /\ DOMAIN thread = Thread
    BY DEF vsnfsd, ThreadBegins, ThreadReceives, ThreadReplies, GetrootDone, SearchDone,
           Done, ThreadInterrupted, ThreadLoads, ThreadExits, ThreadEnds, Goto,
           init_vars, HeldInv
  <1>2. ~NoThreads /\ ~Failing /\ init_pc \notin {"create", "udp", "tcp"}
    BY <1>1 DEF NoThreads, Failing, StartInv
  <1>3. ASSUME NEW from \in {"start", "recv", "call"}, NEW to \in {"recv", "call", "hung", "exit"},
               Goto(t, from, to), UNCHANGED <<sv_nrthreads, loaded, permsocks, lockd>>
        PROVE  CountInv' /\ CleanInv'
    <2>1. Users' = Users /\ t \in Users
      BY <1>1, <1>3 DEF Goto, Users
    <2>2. Changing' = Changing
      BY <1>1, <1>3 DEF Goto, Changing
    <2>3. CountInv'
      BY <1>3, <2>1, <2>2, CountQuiet
    <2> QED
      BY <1>1, <1>2, <1>3, <2>1, <2>3 DEF CleanInv
  <1>4. CASE ThreadBegins(t)
    <2>1. PICK to \in {"recv", "exit"} : Goto(t, "start", to)
      BY <1>4 DEF ThreadBegins
    <2> QED
      BY <1>3, <1>4, <2>1 DEF ThreadBegins, serv_vars
  <1>5. CASE ThreadReceives(t)
    BY <1>3, <1>5 DEF ThreadReceives, serv_vars
  <1>6. CASE ThreadReplies(t)
    <2>1. PICK to \in {"hung", "recv"} : Goto(t, "call", to)
      BY <1>6 DEF ThreadReplies, GetrootDone, SearchDone, Done
    <2> QED
      BY <1>3, <1>6, <2>1 DEF ThreadReplies
  <1>7. CASE ThreadInterrupted(t)
    BY <1>3, <1>7 DEF ThreadInterrupted, serv_vars
  <1>8. CASE ThreadLoads(t)
    <2>1. /\ Goto(t, "exit", "release") /\ Load(t)
          /\ UNCHANGED <<permsocks, lockd, list>>
      BY <1>8 DEF ThreadLoads, Load, table
    <2>2. Users' = Users /\ t \in Users
      BY <1>1, <2>1 DEF Goto, Users
    <2>3. Changing' = Changing \cup {t}
      BY <1>1, <2>1 DEF Goto, Changing
    <2>4. CountInv'
      BY <2>1, <2>2, <2>3, CountLoad
    <2> QED
      BY <1>1, <1>2, <2>1, <2>2, <2>4, CleanQuiet
  <1>9. CASE ThreadExits(t)
    <2>1. PICK oops \in BOOLEAN : /\ svc_destroy(t, oops)
                                  /\ Goto(t, "release", IF oops THEN "oops" ELSE "put")
      BY <1>9 DEF ThreadExits
    <2>2. t \in Users /\ Users' = Users \ {t}
      BY <1>1, <2>1, SvcAssumption DEF Goto, Users
    <2>3. t \in Changing /\ Changing' = Changing \ {t}
      BY <1>1, <2>1, SvcAssumption DEF Goto, Changing
    <2>4. loaded[t] = sv_nrthreads
      BY <2>3 DEF CountInv
    <2>5. CASE ~oops
      <3>1. svc_destroy(t, FALSE) /\ Goto(t, "release", "put")
        BY <2>1, <2>5
      <3>2. /\ sv_nrthreads' = Cardinality(Users')
            /\ Users' = {} => permsocks' = {} /\ lockd' = 0 /\ list' # "nodes"
            /\ lockd' = Cardinality(permsocks')
        BY <1>2, <2>2, <2>4, <3>1, SvcAssumption, DestroyCounts
      <3> QED
        BY <1>1, <1>2, <2>3, <3>2, NobodyElse DEF CleanInv
    <2>6. CASE oops
      <3>1. svc_destroy(t, TRUE) /\ Goto(t, "release", "oops")
        BY <2>1, <2>6
      <3>2. /\ sv_nrthreads' = Cardinality(Users')
            /\ UNCHANGED <<permsocks, lockd, list>>
        BY <2>2, <2>4, <3>1, OopsCounts
      <3>3. Crashed'
        BY <1>1, <3>1 DEF Crashed, Goto
      <3> QED
        BY <1>1, <1>2, <2>3, <3>2, <3>3, CleanQuiet, NobodyElse
    <2> QED
      BY <2>5, <2>6
  <1>10. CASE ThreadEnds(t)
    <2>1. /\ Goto(t, "put", "gone")
          /\ UNCHANGED <<sv_nrthreads, loaded, permsocks, lockd, list>>
      BY <1>10 DEF ThreadEnds, serv_vars, table
    <2>2. Users' = Users
      BY <1>1, <2>1 DEF Goto, Users
    <2>3. Changing' = Changing
      BY <1>1, <2>1 DEF Goto, Changing
    <2>4. Crashed' <=> Crashed
      BY <1>1, <2>1 DEF Goto, Crashed
    <2> QED
      BY <1>1, <1>2, <2>1, <2>2, <2>3, <2>4, CountQuiet, CleanQuiet
  <1> QED
    BY <1>4, <1>5, <1>6, <1>7, <1>8, <1>9, <1>10 DEF vsnfsd

(* Changes that overlapped stay in the history. *)
LEMMA RacedStays ==
    ASSUME [Next]_vars, ~raced'
    PROVE  ~raced
  <1>1. ASSUME NEW p, Load(p) PROVE ~raced
    BY <1>1 DEF Load
  <1>2. CASE UNCHANGED raced
    BY <1>2
  <1>3. CASE vsnfsd_svc
    BY <1>1, <1>2, <1>3 DEF vsnfsd_svc, vsnfsd_create_serv, vsnfsd_init_socks,
       CreateSocket, PrepareThread, StartThread, ThreadsStarted, SvcDestroyLoads,
       SvcDestroy, svc_destroy, init_vsnfsd, serv_vars
  <1>4. CASE \E t \in Thread : vsnfsd(t)
    BY <1>1, <1>2, <1>4 DEF vsnfsd, ThreadBegins, ThreadReceives, ThreadReplies,
       ThreadInterrupted, ThreadLoads, ThreadExits, svc_destroy, ThreadEnds, serv_vars
  <1> QED
    BY <1>2, <1>3, <1>4 DEF Next, InsertModule, RemoveModule, Kill, serv_vars, vars

(* The invariant of the service holds in every behaviour. *)
THEOREM ServiceIsCounted == Spec => []ServiceInv
  <1>1. Init => ServiceInv
    <2> SUFFICES ASSUME Init PROVE ServiceInv
      OBVIOUS
    <2>1. HeldInv /\ StartInv
      BY HeldInit, StartInit
    <2>2. Users = {} /\ Changing = {}
      BY DEF Init, Users, Changing
    <2>3. CountInv
      BY <2>2, FS_EmptySet DEF Init, CountInv
    <2>4. CleanInv
      BY FS_EmptySet DEF Init, CleanInv
    <2> QED
      BY <2>1, <2>3, <2>4 DEF ServiceInv
  <1>2. ServiceInv /\ [Next]_vars => ServiceInv'
    <2> SUFFICES ASSUME ServiceInv, [Next]_vars PROVE ServiceInv'
      OBVIOUS
    <2>1. HeldInv' /\ StartInv'
      BY HeldNext, StartNext DEF ServiceInv
    <2> SUFFICES ASSUME ~raced' PROVE CountInv' /\ CleanInv'
      BY <2>1 DEF ServiceInv
    <2>2. HeldInv /\ StartInv /\ CountInv /\ CleanInv
      BY RacedStays DEF ServiceInv
    <2>3. CASE InsertModule
      <3>1. init_pc = "none" /\ Holders = {}
        BY <2>2, <2>3 DEF InsertModule, HeldInv
      <3>2. Users = {} /\ ~Crashed /\ ~Failing /\ Changing = {}
        BY <3>1 DEF Holders, Users, Crashed, Failing, Changing
      <3>3. Users' = Users /\ Changing' = Changing
        BY <2>3, <3>2 DEF InsertModule, Users, Changing
      <3>4. CountInv'
        BY <2>2, <2>3, <3>3, CountQuiet DEF InsertModule
      <3>5. lockd = Cardinality(permsocks) /\ permsocks = {} /\ lockd = 0
        BY <2>2, <3>2 DEF CleanInv
      <3> QED
        BY <2>3, <3>4, <3>5 DEF InsertModule, CleanInv
    <2>4. CASE vsnfsd_svc
      BY <2>2, <2>4, SvcCounts
    <2>5. CASE \E t \in Thread : vsnfsd(t)
      BY <2>2, <2>5, ThreadCounts
    <2>6. CASE RemoveModule \/ (\E t \in Thread : Kill(t)) \/ UNCHANGED vars
      <3>1. UNCHANGED <<init_pc, sv_nrthreads, loaded, permsocks, lockd, list, thread>>
        BY <2>6 DEF RemoveModule, Kill, init_vars, serv_vars, vars, table
      <3>2. Users' = Users /\ Changing' = Changing /\ Crashed' = Crashed
        BY <3>1 DEF Users, Changing, Crashed
      <3>3. Failing' = Failing
        BY <3>1 DEF Failing, NoThreads
      <3> QED
        BY <2>2, <3>1, <3>2, <3>3 DEF CountInv, CleanInv
    <2> QED
      BY <2>3, <2>4, <2>5, <2>6 DEF Next
  <1> QED
    BY <1>1, <1>2, PTL DEF Spec

(* sv_nrthreads is the number of users of the service, for every number of   *)
(* threads, whatever fails and whoever is killed when: the last user         *)
(* destroys the service and no other does.  It can go wrong only where two   *)
(* changes of it overlap, since a change is a load and a store and nothing   *)
(* is locked.                                                                *)
THEOREM UsersAreCounted == Spec => []CountIsUsers
  <1>1. ServiceInv => CountIsUsers
    BY DEF ServiceInv, CountInv, CountIsUsers
  <1> QED
    BY <1>1, ServiceIsCounted, PTL

(* A module that was removed left no service, no socket, no use of lockd and *)
(* no node on the table behind, with the same exception: vsnfsd_svc and the  *)
(* last thread undid what vsnfsd_init_socks and the calls did.               *)
THEOREM NothingIsLeft == Spec => []NothingLeft
  <1>1. ServiceInv => NothingLeft
    <2> SUFFICES ASSUME ServiceInv, module = "out", ~raced
                 PROVE  sv_nrthreads = 0 /\ permsocks = {} /\ lockd = 0 /\ list # "nodes"
      BY DEF NothingLeft
    <2>1. Holders = {} /\ init_pc = "none"
      BY DEF ServiceInv, HeldInv
    <2>2. ~Crashed /\ Users = {}
      BY <2>1 DEF Crashed, Holders, Users
    <2> QED
      BY <2>2, FS_EmptySet DEF ServiceInv, CountInv, CleanInv
  <1> QED
    BY <1>1, ServiceIsCounted, PTL
===============================================================================
