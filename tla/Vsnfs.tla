-------------------------------- MODULE Vsnfs ---------------------------------
(***************************************************************************)
(* A client that mounts and looks names up, the server of VsnfsdProc, and   *)
(* the RPC layer between them.                                              *)
(*                                                                         *)
(* vsnfs keeps no reply cache (RC_NOCACHE) and its procedures run again for *)
(* every copy of a call.  The client's sunrpc sends a call again when it    *)
(* times out, reconnects and sends it again when the connection breaks, and *)
(* gives up in the end.  Copies of calls that were answered or given up are *)
(* still executed, also those that reached the server's socket before the   *)
(* connection broke.  Every mount has an RPC client and a connection of its *)
(* own, and nothing ever shuts them down.                                   *)
(*                                                                         *)
(* The client calls GETROOT and LOOKUP, the procedures that change the      *)
(* table of the server, one at a time.                                      *)
(***************************************************************************)
EXTENDS VsnfsdProc

CONSTANTS
    MaxMounts,     \* bound: how often the client mounts
    MaxCalls,      \* bound: how many calls it makes
    MaxRetries,    \* retransmissions before sunrpc gives a call up
    MaxBreaks      \* bound: how often the connection of a mount breaks

ASSUME RpcAssumption == {MaxMounts, MaxCalls, MaxRetries, MaxBreaks} \subseteq Nat

VARIABLES
    conn,      \* the connection of the current mount; they are numbered
    xid,       \* the transaction id of the last call
    call,      \* the call the client waits for
    breaks,    \* for each connection, how often it has broken
    requests,  \* for each socket, the calls the server has yet to execute
    replies,   \* for each connection, the replies the client has yet to see
    held,      \* the client's handles: the path a user names -> handle
    own_root   \* history: is the table that of a GETROOT which came over the
               \* socket the client was using?

rpc     == <<conn, xid, call, breaks, requests, replies, held, own_root>>
sysvars == <<vars, rpc>>

Conn == 0..MaxMounts

(* The server has a socket for each connection and for each time it broke. *)
Sock    == Conn \X (0..MaxBreaks)
Live(c) == <<c, breaks[c]>>

NoHandles == [p \in {} |-> NullFh]

(* The client waits for no call. *)
Idle == [busy |-> FALSE, xid |-> 0, proc |-> "none", path |-> <<>>,
         via |-> NullFh, retries |-> 0]

Mounted == DOMAIN held # {}

-------------------------------------------------------------------------------
(* The client *)

(* The message of the call is put on its connection. *)
OnWire(calls, m) ==
    [calls EXCEPT ![Live(conn')] = Append(@, [m EXCEPT !.retries = 0])]

Send(proc, path, via) ==
    /\ ~call.busy
    /\ xid < MaxCalls
    /\ xid' = xid + 1
    /\ call' = [busy |-> TRUE, xid |-> xid + 1, proc |-> proc, path |-> path,
                via |-> via, retries |-> MaxRetries]
    /\ requests' = OnWire(requests, call')
    /\ UNCHANGED <<vars, breaks, replies, held, own_root>>

(* vsnfs_create_rpcclient makes an RPC client and asks for the root of p. *)
vsnfs_create_rpcclient(p) ==
    /\ ~Mounted
    /\ conn < MaxMounts
    /\ conn' = conn + 1
    /\ Send("getroot", p, NullFh)

(* vsnfs_do_lookup asks for name n in the directory it knows as path d. *)
vsnfs_do_lookup(d, n) ==
    /\ held[d].type = VSNFS_DIR
    /\ UNCHANGED conn
    /\ Send("lookup", Append(d, n), held[d])

(* Mutant: RPC_CLNT_CREATE_HARDRTRY is among the flags of rpc_create. *)
HardCalls == FALSE

(* The flags of rpc_create do not ask for hard calls. *)
SoftCalls == TRUE

(* A call without an answer times out and is sent again, or is given up with *)
(* an error.                                                                 *)
Timeout ==
    /\ call.busy
    /\ UNCHANGED conn
    /\ \/ /\ call.retries > 0
          /\ call' = [call EXCEPT !.retries = @ - 1]
          /\ requests' = OnWire(requests, call)
       \/ /\ call.retries = 0
          /\ SoftCalls
          /\ call' = Idle
          /\ UNCHANGED requests
    /\ UNCHANGED <<vars, xid, breaks, replies, held, own_root>>

(* A connection breaks with what is in it; on the new one sunrpc sends the   *)
(* call again.  The first n calls had reached the server's socket.  They may *)
(* be executed whenever the server comes to them, or never, if it sees first *)
(* that the connection is closed; nobody gets their replies.                 *)
Reconnect(c) ==
    /\ breaks[c] < MaxBreaks
    /\ requests[Live(c)] \o replies[c] # <<>>
    /\ breaks' = [breaks EXCEPT ![c] = @ + 1]
    /\ \E n \in 0..Len(requests[Live(c)]) :
          requests' = [requests EXCEPT
              ![Live(c)] = SubSeq(@, 1, n),
              ![<<c, breaks[c] + 1>>] =
                  IF call.busy /\ c = conn THEN <<[call EXCEPT !.retries = 0]>> ELSE <<>>]
    /\ replies' = [replies EXCEPT ![c] = <<>>]
    /\ UNCHANGED <<vars, conn, xid, call, held, own_root>>

(* The client's handles after it got h for path p.  What it has for a path   *)
(* it keeps.                                                                 *)
HeldWith(p, h) ==
    [q \in DOMAIN held \cup {p} |-> IF q \in DOMAIN held THEN held[q] ELSE h]

(* The next reply.  One for another call than the one waited for is dropped; *)
(* a failed call changes nothing.                                            *)
Receive(c) ==
    /\ replies[c] # <<>>
    /\ replies' = [replies EXCEPT ![c] = Tail(@)]
    /\ LET m       == Head(replies[c])
           awaited == call.busy /\ c = conn /\ call.xid = m.xid
       IN  \/ ~awaited /\ UNCHANGED <<call, held>>
           \/ /\ awaited
              /\ call' = Idle
              /\ held' = IF m.ok THEN HeldWith(call.path, m.fh) ELSE held
    /\ UNCHANGED <<vars, conn, xid, breaks, requests, own_root>>

(* A forced unmount: rpc_killall_tasks fails the call that is waited for.    *)
(* What was sent of it stays sent.                                           *)
vsnfs_umount_begin ==
    /\ Mounted
    /\ call.busy
    /\ call' = Idle
    /\ UNCHANGED <<vars, conn, xid, breaks, requests, replies, held, own_root>>

Unmount ==
    /\ Mounted
    /\ ~call.busy
    /\ held' = NoHandles
    /\ UNCHANGED <<vars, conn, xid, call, breaks, requests, replies, own_root>>

-------------------------------------------------------------------------------
(* The server *)

(* Mutant: IPPROTO_UDP, under which the calls of a client overtake each other. *)
NextUdp(calls) == 1..Len(calls)

(* Which call of a connection the server takes next: IPPROTO_TCP keeps them  *)
(* in order.                                                                 *)
NextTcp(calls) == {1} \cap DOMAIN calls

RemoveAt(calls, k) == SubSeq(calls, 1, k - 1) \o SubSeq(calls, k + 1, Len(calls))

(* svc_recv and vsnfsd_dispatch: a call is taken, executed and answered,     *)
(* unless its procedure kills the thread.                                    *)
Serve(s) ==
    \E k \in NextTcp(requests[s]) :
        LET m == requests[s][k]
            c == s[1]
        IN
        /\ \/ /\ m.proc = "getroot"
              /\ vsnfsd_proc_getroot(m.path)
              /\ own_root' = \/ reply'.ok /\ s = Live(conn)
                             \/ own_root /\ UNCHANGED lp_tab
           \/ /\ m.proc = "lookup"
              /\ vsnfsd_proc_lookup(m.via, m.path[Len(m.path)])
              /\ UNCHANGED own_root
        /\ requests' = [requests EXCEPT ![s] = RemoveAt(@, k)]
        /\ replies' = [replies EXCEPT ![c] =
               IF daemon' = "up" /\ s = Live(c)
                 THEN Append(@, [xid |-> m.xid, ok |-> reply'.ok, fh |-> reply'.fh])
                 ELSE @]
        /\ UNCHANGED <<conn, xid, call, breaks, held>>

-------------------------------------------------------------------------------
SysInit ==
    /\ Init
    /\ conn = 0
    /\ xid = 0
    /\ call = Idle
    /\ breaks = [c \in Conn |-> 0]
    /\ requests = [s \in Sock |-> <<>>]
    /\ replies = [c \in Conn |-> <<>>]
    /\ held = NoHandles
    /\ own_root = FALSE

Client ==
    \/ \E p \in MountPath : vsnfs_create_rpcclient(p)
    \/ \E d \in DOMAIN held, n \in Name : vsnfs_do_lookup(d, n)
    \/ Timeout
    \/ \E c \in Conn : Reconnect(c)
    \/ \E c \in Conn : Receive(c)
    \/ vsnfs_umount_begin
    \/ Unmount

SysNext == Client \/ (\E s \in Sock : Serve(s)) \/ (FsChange /\ UNCHANGED rpc)

(* The timer of a call runs, whatever happens to the connection. *)
SysSpec == SysInit /\ [][SysNext]_sysvars /\ WF_sysvars(Timeout)

-------------------------------------------------------------------------------
(* Properties *)

Calls == [busy : BOOLEAN, xid : 0..MaxCalls, proc : {"none", "getroot", "lookup"},
          path : Seq(Name), via : Handles, retries : 0..MaxRetries]

(* Every variable of the RPC layer has its type. *)
RpcTypeOK ==
    /\ conn \in Conn
    /\ xid \in 0..MaxCalls
    /\ call \in Calls
    /\ breaks \in [Conn -> 0..MaxBreaks]
    /\ requests \in [Sock -> Seq(Calls)]
    /\ replies \in [Conn -> Seq([xid : 0..MaxCalls, ok : BOOLEAN, fh : Handles])]
    /\ \A p \in DOMAIN held : p \in Seq(Name) /\ held[p] \in Handles
    /\ own_root \in BOOLEAN

(* The server's table holds a node for every handle of the client, unless it *)
(* was last emptied by a left-over GETROOT: one of an earlier mount, or one  *)
(* that was on a connection which broke.  GETROOT, which empties the table,  *)
(* is executed again for every retransmission, but on the connection in use  *)
(* never after a LOOKUP of the same mount.                                   *)
HeldHandlesKnown ==
    own_root => \A p \in DOMAIN held : InTable(held[p].data)

(* The handle a client has for a path is the handle of the file there on the *)
(* server, or the empty handle a server sends that has forgotten the         *)
(* directory: no late, repeated or given-up call is answered with, and no    *)
(* answer is taken for, another file.                                        *)
HeldHandlesRight ==
    \A p \in DOMAIN held :
        held[p] = NullFh \/ (InoAt(p) # NoIno /\ held[p] = Fh(InoAt(p)))

(* Every call of the client returns, with an answer or an error, also when   *)
(* the server's thread is dead or the connection breaks.                     *)
CallReturns == call.busy ~> ~call.busy
===============================================================================
