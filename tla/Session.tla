------------------------------ MODULE Session ------------------------------
(***************************************************************************)
(* The control path of the Octopus client: insmod connects to the memory   *)
(* server, learns its free size, gets chunks and creates the disk; rmmod   *)
(* disconnects and frees everything.  One word, rdma_session_context.state,*)
(* is written by the connection event handler and by the completion        *)
(* handler and is waited for by the thread of insmod and rmmod.            *)
(*                                                                         *)
(* The connection manager, the HCA and the server are the environment: the *)
(* server sends FREE_SIZE when the connection is established, and chunks   *)
(* on request (module ChunkPool).  faults, one of Environments, selects    *)
(* what else they may do:                                                  *)
(*   "resolve" the address or the route is not resolved                    *)
(*   "route"   rdma_resolve_route itself fails                             *)
(*   "connect" the connection is refused                                   *)
(*   "signal"  a signal interrupts wait_event_interruptible                *)
(*   "missed"  a CQ that is armed while it holds a completion stays silent *)
(*   "evict"   the server sends EVICT                                      *)
(*   "server"  the server disconnects                                      *)
(*   "io"      block I/O is in flight at rmmod                             *)
(*   "driver"  a kernel call of insmod fails                               *)
(*   "bad"     a completion has an error status                            *)
(*                                                                         *)
(* Every store to state that makes a waited condition true is followed by  *)
(* wake_up_interruptible, so a waiter is enabled when its condition holds. *)
(***************************************************************************)
EXTENDS Naturals, Sequences

CONSTANT Environments  \* the sets of faults that are considered

\* enum rdma_session_context_state
IDLE            == 1
ADDR_RESOLVED   == 3
ROUTE_RESOLVED  == 4
CONNECTED       == 5
FREE_MEM_RECV   == 6
RECEIVED_CHUNKS == 7
RECV_EVICT      == 11
CM_DISCONNECT   == 18
ERROR           == 19

\* The callers of octopus_disconenct_and_collect_resource.
Caller == {"rmmod", "cq", "cm"}

VARIABLES
  faults,     \* of the environment; never changes
  state,      \* rdma_session_context.state
  freed,      \* rdma_session_context.freed
  mpc,        \* where the thread of insmod and rmmod is
  link,       \* the connection manager: what has happened, what is pending
  cpc,        \* the connection event handler: "idle" or "collect"
  rx,         \* receives posted
  net,        \* messages of the server on the wire
  recv_buf,   \* the message in the receive buffer, which all receives share
  srv,        \* the server: "none", "free_sent", "requested", "answered"
  evicted,    \* the server has sent EVICT
  cq,         \* completions in the CQ
  armed, event, hpc,   \* notification, pending event, completion handler
  col,        \* of a caller: where in the collection of resources it is
  chunks,     \* the remote chunk list: "none", "listed", "bound"
  disk,       \* the block device: "none", "online", "freed"
  collected   \* times the RDMA resources were freed

vars == <<faults, state, freed, mpc, link, cpc, rx, net, recv_buf, srv, evicted, cq, armed, event, hpc, col, chunks,
          disk, collected>>

cqVars  == <<cq, armed, event>>
qpVars  == <<rx, net, recv_buf, cq, armed, event>>
srvVars == <<srv, evicted>>
colVars == <<freed, col, collected>>
outVars == <<chunks, disk>>

Init ==
  /\ faults \in Environments
  /\ state = 0 /\ freed = 0 /\ mpc = "start" /\ link = "none" /\ cpc = "idle"
  /\ rx = 0 /\ net = <<>> /\ recv_buf = "none" /\ srv = "none" /\ evicted = FALSE
  /\ cq = <<>> /\ armed = FALSE /\ event = FALSE /\ hpc = "idle"
  /\ col = [t \in Caller |-> "off"]
  /\ chunks = "none" /\ disk = "none" /\ collected = 0

-----------------------------------------------------------------------------
(* insmod: octopus_RDMA_connect                                            *)

\* rdma_create_id, state = IDLE, freed = 0, rdma_resolve_addr.
Resolve ==
  /\ mpc = "start"
  /\ state' = IDLE /\ freed' = 0
  /\ \/ mpc' = "wait_route" /\ link' = "resolving"
     \/ "driver" \in faults /\ mpc' = "failed" /\ UNCHANGED link
  /\ UNCHANGED <<cpc, hpc, col, collected, qpVars, srvVars, outVars>>

\* wait_event_interruptible returns on the condition or on a signal; no caller
\* looks at which.
Waited(condition, signal) == IF signal THEN "signal" \in faults ELSE condition

\* Mutant: an error does not end the wait.
WaitRouteOnly(signal) ==
  /\ mpc = "wait_route" /\ Waited(state = ROUTE_RESOLVED, signal)
  /\ mpc' = "setup"
  /\ UNCHANGED <<state, link, cpc, hpc, qpVars, srvVars, colVars, outVars>>

WaitRoute(signal) ==
  /\ mpc = "wait_route" /\ Waited(state >= ROUTE_RESOLVED, signal)
  /\ mpc' = IF state = ROUTE_RESOLVED THEN "setup" ELSE "failed"
  /\ UNCHANGED <<state, link, cpc, hpc, qpVars, srvVars, colVars, outVars>>

\* Mutant: the CQ is armed before the connection is made.
SetupArms ==
  /\ mpc = "setup" /\ mpc' = "connect" /\ rx' = rx + 1
  /\ armed' = TRUE
  /\ UNCHANGED <<state, link, cpc, net, recv_buf, cq, event, hpc, srvVars, colVars, outVars>>

\* QP, CQ and buffers, then the first receive is posted, before connecting.
Setup ==
  /\ mpc = "setup"
  /\ \/ mpc' = "connect" /\ rx' = rx + 1
     \/ "driver" \in faults /\ mpc' = "failed" /\ UNCHANGED rx
  /\ UNCHANGED <<state, link, cpc, net, recv_buf, hpc, srvVars, colVars, outVars, cqVars>>

\* rdma_connect
Connect ==
  /\ mpc = "connect"
  /\ \/ mpc' = "wait_connected" /\ link' = "connecting"
     \/ "driver" \in faults /\ mpc' = "failed" /\ UNCHANGED link
  /\ UNCHANGED <<state, cpc, hpc, qpVars, srvVars, colVars, outVars>>

\* ret is 0 here whether state is CONNECTED or ERROR: insmod goes on.
WaitConnected(signal) ==
  /\ mpc = "wait_connected" /\ Waited(state >= CONNECTED, signal)
  /\ mpc' = "arm"
  /\ UNCHANGED <<state, link, cpc, hpc, qpVars, srvVars, colVars, outVars>>

\* Arming a CQ that holds completions: the HCA may report them at once or not.
Arm ==
  \/ cq = <<>> /\ armed' = TRUE /\ event' = FALSE
  \/ cq # <<>> /\ armed' = FALSE /\ event' = TRUE
  \/ cq # <<>> /\ "missed" \in faults /\ armed' = TRUE /\ event' = FALSE

\* The first ib_req_notify_cq.
FirstArm ==
  /\ mpc = "arm"
  /\ mpc' = "wait_free"
  /\ Arm
  /\ UNCHANGED <<state, link, cpc, rx, net, recv_buf, cq, hpc, srvVars, colVars, outVars>>

WaitFreeSize(signal) ==
  /\ mpc = "wait_free" /\ Waited(state = FREE_MEM_RECV, signal)
  /\ mpc' = "request"
  /\ UNCHANGED <<state, link, cpc, hpc, qpVars, srvVars, colVars, outVars>>

\* octupos_requset_for_chunk: the receive is posted before the request is sent.
RequestChunks ==
  /\ mpc = "request"
  /\ \/ /\ link = "up"
        /\ mpc' = "wait_chunks" /\ rx' = rx + 1
        /\ srv' = "requested" /\ cq' = Append(cq, "SEND")
        /\ event' = (event \/ armed) /\ armed' = FALSE
     \/ /\ link # "up" \/ "driver" \in faults
        /\ mpc' = "failed"
        /\ UNCHANGED <<rx, srv, cqVars>>
  /\ UNCHANGED <<state, link, cpc, net, recv_buf, evicted, hpc, colVars, outVars>>

\* Mutant: any later state ends the wait.
WaitChunksAtLeast(signal) ==
  /\ mpc = "wait_chunks" /\ Waited(state >= FREE_MEM_RECV, signal)
  /\ mpc' = "disk"
  /\ UNCHANGED <<state, link, cpc, hpc, qpVars, srvVars, colVars, outVars>>

WaitChunks(signal) ==
  /\ mpc = "wait_chunks" /\ Waited(state = RECEIVED_CHUNKS, signal)
  /\ mpc' = "disk"
  /\ UNCHANGED <<state, link, cpc, hpc, qpVars, srvVars, colVars, outVars>>

\* rmem_init_disk_driver
InitDisk ==
  /\ mpc = "disk"
  /\ \/ mpc' = "loaded" /\ disk' = "online"
     \/ "driver" \in faults /\ mpc' = "failed" /\ UNCHANGED disk
  /\ UNCHANGED <<state, link, cpc, hpc, chunks, qpVars, srvVars, colVars>>

-----------------------------------------------------------------------------
(* Connection events: octopus_rdma_cm_event_handler                        *)

\* The connection manager runs one handler at a time.  A failed
\* rdma_resolve_route wakes nobody, and the manager gives the id up.
AddrResolved ==
  /\ cpc = "idle" /\ link = "resolving"
  /\ state' = ADDR_RESOLVED
  /\ \/ link' = "routing"
     \/ "route" \in faults /\ link' = "dead"
  /\ UNCHANGED <<mpc, cpc, hpc, qpVars, srvVars, colVars, outVars>>

RouteResolved ==
  /\ cpc = "idle" /\ link = "routing"
  /\ state' = ROUTE_RESOLVED /\ link' = "route"
  /\ UNCHANGED <<mpc, cpc, hpc, qpVars, srvVars, colVars, outVars>>

\* The reply of the server makes the QP ready before the event is reported, so
\* the first message of the server may overtake ESTABLISHED.
Reply ==
  /\ link = "connecting"
  /\ link' = "replied"
  /\ UNCHANGED <<state, mpc, cpc, hpc, qpVars, srvVars, colVars, outVars>>

Established ==
  /\ cpc = "idle" /\ link = "replied"
  /\ state' = CONNECTED /\ link' = "up"
  /\ UNCHANGED <<mpc, cpc, hpc, qpVars, srvVars, colVars, outVars>>

\* ADDR_ERROR, ROUTE_ERROR, CONNECT_ERROR, UNREACHABLE, REJECTED
CmError ==
  /\ cpc = "idle"
  /\ \/ "resolve" \in faults /\ link \in {"resolving", "routing"}
     \/ "connect" \in faults /\ link = "connecting"
  /\ state' = ERROR /\ link' = "dead"
  /\ UNCHANGED <<mpc, cpc, hpc, qpVars, srvVars, colVars, outVars>>

\* rdma_disconnect moves the QP to the error state, which flushes the receives
\* posted and the I/O in flight.
Flush ==
  \E io \in IF "io" \in faults /\ disk = "online" THEN {0, 1} ELSE {0} :
    LET flushed == [i \in 1..(rx + io) |-> "FLUSH"]
        report  == armed /\ flushed # <<>>
    IN  /\ cq' = cq \o flushed
        /\ event' = (event \/ report) /\ armed' = (armed /\ ~report)
        /\ rx' = 0 /\ net' = <<>>

\* The server disconnects: the event is pending.
ServerDisconnects ==
  /\ "server" \in faults /\ link = "up"
  /\ link' = "closing"
  /\ UNCHANGED <<state, mpc, cpc, hpc, qpVars, srvVars, colVars, outVars>>

\* DISCONNECTED while resources are being freed: nothing to do.
DisconnectedByClient ==
  /\ cpc = "idle" /\ link = "closing" /\ freed # 0
  /\ link' = "timewait"
  /\ UNCHANGED <<state, mpc, cpc, hpc, qpVars, srvVars, colVars, outVars>>

\* DISCONNECTED by the server: the handler itself collects the resources.
DisconnectedByServer ==
  /\ cpc = "idle" /\ link = "closing" /\ freed = 0
  /\ cpc' = "collect" /\ col' = [col EXCEPT !["cm"] = "check"]
  /\ link' = "timewait"
  /\ Flush
  /\ UNCHANGED <<state, freed, mpc, recv_buf, hpc, collected, srvVars, outVars>>

\* ... and then frees the block device.
DisconnectedReturns ==
  /\ cpc = "collect" /\ col["cm"] = "ret"
  /\ cpc' = "idle" /\ col' = [col EXCEPT !["cm"] = "off"]
  /\ disk' = IF disk = "online" THEN "freed" ELSE disk
  /\ UNCHANGED <<state, freed, mpc, link, hpc, chunks, collected, qpVars, srvVars>>

\* Mutant: the event is not recorded.
TimewaitExitIgnored ==
  /\ cpc = "idle" /\ link = "timewait"
  /\ link' = "closed"
  /\ UNCHANGED <<state, mpc, cpc, hpc, qpVars, srvVars, colVars, outVars>>

TimewaitExit ==
  /\ cpc = "idle" /\ link = "timewait"
  /\ state' = CM_DISCONNECT /\ link' = "closed"
  /\ UNCHANGED <<mpc, cpc, hpc, qpVars, srvVars, colVars, outVars>>

-----------------------------------------------------------------------------
(* The server and the HCA                                                  *)

ServerSends(message) ==
  /\ link \in {"replied", "up"}
  /\ net' = Append(net, message)
  /\ UNCHANGED <<state, mpc, link, cpc, rx, recv_buf, hpc, colVars, outVars, cqVars>>

ServerFreeSize == srv = "none" /\ srv' = "free_sent" /\ ServerSends("FREE_SIZE") /\ UNCHANGED evicted
ServerChunks == srv = "requested" /\ srv' = "answered" /\ ServerSends("CHUNKS") /\ UNCHANGED evicted

\* The eviction thread may choose a client as soon as chunks are granted to it,
\* before the message that lists them is sent.
ServerEvict ==
  /\ "evict" \in faults /\ srv \in {"requested", "answered"} /\ ~evicted
  /\ evicted' = TRUE
  /\ ServerSends("EVICT")
  /\ UNCHANGED srv

Completion(c) ==
  /\ cq' = Append(cq, c)
  /\ event' = (event \/ armed) /\ armed' = FALSE

\* A message needs a posted receive; without one the server retries for ever.
Receive ==
  /\ net # <<>> /\ rx > 0
  /\ net' = Tail(net) /\ rx' = rx - 1
  /\ recv_buf' = Head(net) /\ Completion("RECV")
  /\ UNCHANGED <<state, mpc, link, cpc, hpc, srvVars, colVars, outVars>>

\* A read or write of the block device fails.
IoFails ==
  /\ "bad" \in faults /\ disk = "online" /\ link = "up" /\ cq = <<>> /\ state < CM_DISCONNECT
  /\ Completion("BAD")
  /\ UNCHANGED <<state, mpc, link, cpc, rx, net, recv_buf, hpc, srvVars, colVars, outVars>>

-----------------------------------------------------------------------------
(* Completions: octopus_cq_event_handler and handle_recv_wr                *)

\* Mutant: the handler does not ask for the next notification.
CqEventNotRearmed ==
  /\ hpc = "idle" /\ event
  /\ event' = FALSE
  /\ hpc' = IF state = ERROR THEN hpc ELSE "poll"
  /\ UNCHANGED <<state, mpc, link, cpc, rx, net, recv_buf, cq, armed, srvVars, colVars, outVars>>

CqEvent ==
  /\ hpc = "idle" /\ event
  /\ IF state = ERROR
     THEN event' = FALSE /\ UNCHANGED <<armed, hpc>>
     ELSE Arm /\ hpc' = "poll"
  /\ UNCHANGED <<state, mpc, link, cpc, rx, net, recv_buf, cq, srvVars, colVars, outVars>>

PollEmpty ==
  /\ hpc = "poll" /\ cq = <<>>
  /\ hpc' = "idle"
  /\ UNCHANGED <<state, mpc, link, cpc, qpVars, srvVars, colVars, outVars>>

Polled(kinds) ==
  /\ hpc = "poll" /\ cq # <<>> /\ Head(cq) \in kinds
  /\ cq' = Tail(cq)
  /\ UNCHANGED <<freed, mpc, link, cpc, rx, net, recv_buf, armed, event, disk, collected, srvVars>>

\* A failed completion, or a message before the connection is known: err.
PollError ==
  /\ \/ Polled({"FLUSH", "BAD"})
     \/ Polled({"RECV"}) /\ state < CONNECTED
  /\ state' = ERROR
  /\ hpc' = "collect" /\ col' = [col EXCEPT !["cq"] = "check"]
  /\ UNCHANGED chunks

PollSend ==
  /\ Polled({"SEND"})
  /\ UNCHANGED <<state, hpc, col, chunks>>

\* The message is read from the buffer when its completion is handled.
Received(message) == Polled({"RECV"}) /\ state >= CONNECTED /\ recv_buf = message

\* state is stored before init_remote_chunk_list has built the list.
RecvFreeSize ==
  /\ Received("FREE_SIZE")
  /\ state' = FREE_MEM_RECV
  /\ hpc' = "list"
  /\ UNCHANGED <<col, chunks>>

InitRemoteChunkList ==
  /\ hpc = "list"
  /\ chunks' = "listed" /\ hpc' = "poll"
  /\ UNCHANGED <<state, mpc, link, cpc, disk, qpVars, srvVars, colVars>>

\* bind_remote_memory_chunks stops at once when there is no list.
RecvChunks ==
  /\ Received("CHUNKS")
  /\ chunks' = IF chunks = "none" THEN "none" ELSE "bound"
  /\ state' = RECEIVED_CHUNKS
  /\ UNCHANGED <<hpc, col>>

RecvEvict ==
  /\ Received("EVICT")
  /\ state' = RECV_EVICT
  /\ UNCHANGED <<hpc, col, chunks>>

PollErrorReturns ==
  /\ hpc = "collect" /\ col["cq"] = "ret"
  /\ hpc' = "idle" /\ col' = [col EXCEPT !["cq"] = "off"]
  /\ UNCHANGED <<state, freed, mpc, link, cpc, collected, qpVars, srvVars, outVars>>

-----------------------------------------------------------------------------
(* octopus_disconenct_and_collect_resource, and rmmod                      *)

\* rmmod, on a module that was loaded.
CleanupModule ==
  /\ mpc = "loaded"
  /\ mpc' = "unload" /\ col' = [col EXCEPT !["rmmod"] = "check"]
  /\ UNCHANGED <<state, freed, link, cpc, hpc, collected, qpVars, srvVars, outVars>>

\* if (freed != 0) return, and freed++, are not one atomic step.
CollectCheck(t) ==
  /\ col[t] = "check"
  /\ col' = [col EXCEPT ![t] = IF freed # 0 THEN "ret" ELSE "claim"]
  /\ UNCHANGED <<state, freed, mpc, link, cpc, hpc, collected, qpVars, srvVars, outVars>>

CollectClaim(t) ==
  /\ col[t] = "claim"
  /\ freed' = freed + 1
  /\ col' = [col EXCEPT ![t] = IF state # CM_DISCONNECT THEN "wait" ELSE "free"]
  /\ IF state # CM_DISCONNECT /\ link \in {"replied", "up", "closing"}
     THEN link' = "closing" /\ Flush
     ELSE UNCHANGED <<link, rx, net, cqVars>>
  /\ UNCHANGED <<state, mpc, cpc, recv_buf, hpc, collected, srvVars, outVars>>

\* Mutant: an error ends the wait, as it does in the waits of insmod.
CollectWaitAtLeast(t, signal) ==
  /\ col[t] = "wait"
  /\ Waited(state >= CM_DISCONNECT, signal) /\ (signal => t = "rmmod")
  /\ col' = [col EXCEPT ![t] = "free"]
  /\ UNCHANGED <<state, freed, mpc, link, cpc, hpc, collected, qpVars, srvVars, outVars>>

\* Signals reach rmmod only; the handlers run in the kernel's own contexts.
CollectWait(t, signal) ==
  /\ col[t] = "wait"
  /\ Waited(state = CM_DISCONNECT, signal) /\ (signal => t = "rmmod")
  /\ col' = [col EXCEPT ![t] = "free"]
  /\ UNCHANGED <<state, freed, mpc, link, cpc, hpc, collected, qpVars, srvVars, outVars>>

\* octopus_free_buffers, octopus_free_rdma_structure: destroying the id waits
\* for its handler, destroying the CQ for the completion handler.
CollectFree(t) ==
  /\ col[t] = "free"
  /\ t = "cm" \/ cpc = "idle"
  /\ t = "cq" \/ hpc = "idle"
  /\ collected' = collected + 1 /\ chunks' = "freed"
  /\ link' = "none" /\ rx' = 0 /\ net' = <<>>
  /\ cq' = <<>> /\ armed' = FALSE /\ event' = FALSE
  /\ col' = [col EXCEPT ![t] = "ret"]
  /\ UNCHANGED <<state, freed, mpc, cpc, recv_buf, hpc, disk, srvVars>>

\* rmmod goes on to free the block device.
FreeBlockDevice ==
  /\ mpc = "unload" /\ col["rmmod"] = "ret"
  /\ mpc' = "unloaded" /\ col' = [col EXCEPT !["rmmod"] = "off"]
  /\ disk' = "freed"
  /\ UNCHANGED <<state, freed, link, cpc, hpc, chunks, collected, qpVars, srvVars>>

-----------------------------------------------------------------------------
Insmod(signal) ==
  \/ WaitRoute(signal) \/ WaitConnected(signal) \/ WaitFreeSize(signal) \/ WaitChunks(signal)

InsmodStep == Resolve \/ Setup \/ Connect \/ FirstArm \/ RequestChunks \/ InitDisk

CmHandler ==
  \/ AddrResolved \/ RouteResolved \/ Established \/ CmError
  \/ DisconnectedByClient \/ DisconnectedByServer \/ DisconnectedReturns \/ TimewaitExit

CqHandler ==
  \/ CqEvent \/ PollEmpty \/ PollError \/ PollSend \/ RecvFreeSize \/ InitRemoteChunkList
  \/ RecvChunks \/ RecvEvict \/ PollErrorReturns

Collect(t) == CollectCheck(t) \/ CollectClaim(t) \/ CollectFree(t)

Network == Reply \/ ServerFreeSize \/ ServerChunks \/ Receive

Step ==
  \/ InsmodStep \/ CleanupModule \/ FreeBlockDevice
  \/ \E signal \in BOOLEAN : Insmod(signal)
  \/ \E t \in Caller : Collect(t)
  \/ \E t \in Caller, signal \in BOOLEAN : CollectWait(t, signal)
  \/ CmHandler \/ CqHandler
  \/ Network \/ ServerDisconnects \/ ServerEvict \/ IoFails

\* A step in the environment that was chosen.
In(A) == A /\ UNCHANGED faults

Next == In(Step)

Spec == Init /\ [][Next]_vars

\* Threads and handlers run, the connection manager reports an outcome (it has
\* timeouts), the server answers and the fabric delivers.  Nobody is obliged to
\* send a signal, evict, disconnect or unload.
Fairness ==
  /\ WF_vars(In(InsmodStep)) /\ WF_vars(In(FreeBlockDevice)) /\ WF_vars(In(Insmod(FALSE)))
  /\ \A t \in Caller : WF_vars(In(Collect(t))) /\ WF_vars(In(CollectWait(t, FALSE)))
  /\ WF_vars(In(CmHandler)) /\ WF_vars(In(CqHandler))
  /\ WF_vars(In(Reply \/ CmError)) /\ WF_vars(In(ServerFreeSize)) /\ WF_vars(In(ServerChunks)) /\ WF_vars(In(Receive))

FairSpec == Spec /\ Fairness

-----------------------------------------------------------------------------
(* Properties                                                              *)

\* state holds only stages that a handler stores, and at most two receives are
\* posted (octopus_RDMA_connect, octupos_requset_for_chunk).
TypeOK ==
  /\ faults \in Environments
  /\ state \in {0, IDLE, ADDR_RESOLVED, ROUTE_RESOLVED, CONNECTED, FREE_MEM_RECV, RECEIVED_CHUNKS,
               RECV_EVICT, CM_DISCONNECT, ERROR}
  /\ freed \in 0..3 /\ collected \in 0..3
  /\ mpc \in {"start", "wait_route", "setup", "connect", "wait_connected", "arm", "wait_free",
             "request", "wait_chunks", "disk", "loaded", "failed", "unload", "unloaded"}
  /\ link \in {"none", "resolving", "routing", "route", "connecting", "replied", "up", "closing",
              "timewait", "closed", "dead"}
  /\ cpc \in {"idle", "collect"}
  /\ rx \in 0..2
  /\ net \in Seq({"FREE_SIZE", "CHUNKS", "EVICT"})
  /\ recv_buf \in {"none", "FREE_SIZE", "CHUNKS", "EVICT"}
  /\ srv \in {"none", "free_sent", "requested", "answered"}
  /\ cq \in Seq({"RECV", "SEND", "FLUSH", "BAD"})
  /\ evicted \in BOOLEAN /\ armed \in BOOLEAN /\ event \in BOOLEAN
  /\ hpc \in {"idle", "poll", "list", "collect"}
  /\ col \in [Caller -> {"off", "check", "claim", "wait", "free", "ret"}]
  /\ chunks \in {"none", "listed", "bound", "freed"}
  /\ disk \in {"none", "online", "freed"}

\* Chunks are requested only once the free size has been received and handled
\* ("FREE_SIZE -> MAP_CHUNK should be done in order", octopus_RDMA_connect):
\* the waits of insmod order the handlers.
RequestInOrder ==
  srv \in {"requested", "answered"} => chunks # "none" \/ hpc = "list"

\* The disk is created only over bound chunks: rmem_init_disk_driver never runs
\* on a session whose chunk list is missing, empty or already freed.
DiskOverChunks == mpc = "disk" => chunks = "bound"

\* A receive is posted for every message of the handshake that the server has
\* sent (the server assumes it): none of them has to be retried by the fabric.
ReceivePosted ==
  link \in {"replied", "up"} /\ ~evicted => Len(net) <= rx

\* All receives share one buffer: a second message never arrives before the
\* completion handler has read the first.
ReceiveBufferRead ==
  Len(SelectSeq(cq, LAMBDA c : c = "RECV")) <= 1

\* The stores to state by the two handlers never move the session backwards: an
\* event is not overwritten by an earlier stage.  Only the end of a disconnection
\* that an error started replaces ERROR.
StateForward ==
  [][state' >= state \/ (state = ERROR /\ state' = CM_DISCONNECT)]_vars

\* The resources of the session are freed only once the connection manager has
\* confirmed the end of the connection (TIMEWAIT_EXIT).
FreedAfterDisconnect ==
  \A t \in Caller : col[t] = "free" => link \in {"closed", "none"}

\* octopus_client.h says of freed "some function can only be called once, this
\* is the flag to record this": the resources are freed at most once.
FreedOnce == collected <= 1

\* insmod returns, with the disk or with an error: none of the waits of
\* octopus_RDMA_connect is left without the event that ends it.
InitReturns == <>(mpc \in {"loaded", "failed", "unload", "unloaded"})

\* rmmod returns: it waits for "the ack of RDMA disconnected successfully", and
\* the ack always comes.
UnloadReturns == (mpc = "unload") ~> (mpc = "unloaded")

\* "When the receive WR is finished, cq_event_handler will be triggered": a
\* completion does not stay in the CQ for ever.
CompletionTriggersHandler ==
  (Len(SelectSeq(cq, LAMBDA c : c = "RECV")) > 0)
    ~> (Len(SelectSeq(cq, LAMBDA c : c = "RECV")) = 0)

\* InitReturns, exactly in the environments that cannot disturb it.  A route that
\* rdma_resolve_route refuses, a refused connection, a missed notification, an early
\* EVICT, a disconnection and a signal each leave a wait of insmod without its event.
InitEnds ==
  faults \cap {"route", "connect", "signal", "missed", "evict", "server"} = {} => InitReturns

\* UnloadReturns, exactly in the environments in which nothing else collects the
\* resources or stores ERROR over CM_DISCONNECT.
UnloadEnds == faults \cap {"signal", "server", "io", "bad"} = {} => UnloadReturns

\* CompletionTriggersHandler, whatever else fails, if the HCA reports a completion that
\* the CQ holds when it is armed: octopus_cq_event_handler itself misses none.
CompletionHandled == "missed" \notin faults => CompletionTriggersHandler

\* The handler of a disconnection by the server frees the RDMA resources ("Free
\* RDMA resource and exit main function").
ServerDisconnectCollects == (cpc = "collect") ~> (collected > 0)

=============================================================================
