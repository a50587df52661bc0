---------------------------- MODULE KernelClient ----------------------------
(***************************************************************************)
(* The first kernel client: insmod connects to the memory server, learns   *)
(* its free size and asks for chunks; rmmod disconnects and frees all.     *)
(* It is the ancestor of the session of the Octopus client (Session) and   *)
(* differs where it hurts: the completion handler polls one completion per *)
(* event and asks for the next event afterwards, insmod returns 0 whatever *)
(* happened, the results of most calls are ignored, and the connection     *)
(* handler returns a variable it assigns on one path only.                 *)
(*                                                                         *)
(* Faults selects what the kernel, the fabric and the server may do:       *)
(*   "resolve"  the address or the route is not resolved                   *)
(*   "route"    rdma_resolve_route itself fails                            *)
(*   "create"   the id, PD, CQ, QP or memory region is not created         *)
(*   "prepost"  the first ib_post_recv fails, which nobody looks at        *)
(*   "connect"  the connection is refused                                  *)
(*   "request"  the request for chunks is not posted                       *)
(*   "notify"   ib_req_notify_cq fails                                     *)
(*   "missed"   a CQ armed while it holds a completion stays silent        *)
(*   "evict"    the server sends EVICT before the chunks                   *)
(*   "server"   the server disconnects                                     *)
(*   "signal"   a signal ends wait_event_interruptible                     *)
(*   "return"   the connection handler returns a value other than 0        *)
(* hit records which of them have happened.                                *)
(***************************************************************************)
EXTENDS Integers, Sequences, FiniteSetsExt

CONSTANTS
  Faults,
  FreeSizes,   \* sizes the server may announce, in chunks
  Request      \* chunks asked for; 8 in octopus_RDMA_connect

\* enum rdma_session_context_state
IDLE           == 1
ADDR_RESOLVED  == 3
ROUTE_RESOLVED == 4
CONNECTED      == 5
FREE_MEM_RECV  == 6
RECV_EVICT     == 11
CM_DISCONNECT  == 18
ERROR          == 19
TEST_DONE      == 20

VARIABLES
  state,     \* rdma_session_context.state
  mpc,       \* where the thread of insmod and rmmod is; "oops" if it crashed
  made,      \* PD, CQ, QP and MR that exist; "rts" when the QP can send
  link,      \* the connection manager: what has happened, what is pending
  rx,        \* receives posted
  net,       \* messages of the server on the wire
  recv_buf,  \* the receive buffer, which all receives share
  srv,       \* "none", "free_sent", "requested", "answered", "gone"
  cq, armed, event, hpc,  \* completions, notification, event, CQ handler
  free_gb,   \* remote_chunk_list.remote_free_size_gb, in chunks
  chunk_num, chunk_ptr,   \* of remote_chunk_list
  hit

vars == <<state, mpc, made, link, rx, net, recv_buf, srv, cq, armed, event, hpc, free_gb,
          chunk_num, chunk_ptr, hit>>

cqVars   == <<cq, armed, event>>
qpVars   == <<rx, net, recv_buf, cq, armed, event>>
listVars == <<free_gb, chunk_num, chunk_ptr>>

\* struct message: the type, and the size announced or the chunks granted.
Message == [type : {"FREE_SIZE"}, n : FreeSizes] \cup [type : {"GOT_CHUNKS"}, n : 0..Request]
             \cup [type : {"EVICT"}, n : {0}]

Fault(f) == f \in Faults /\ hit' = hit \cup {f}

Init ==
  /\ state = 0 /\ mpc = "start" /\ made = {} /\ link = "none"
  /\ rx = 0 /\ net = <<>> /\ recv_buf = [type |-> "none", n |-> 0] /\ srv = "none"
  /\ cq = <<>> /\ armed = FALSE /\ event = FALSE /\ hpc = "idle"
  /\ free_gb = 0 /\ chunk_num = 0 /\ chunk_ptr = 0 /\ hit = {}

-----------------------------------------------------------------------------
(* insmod: octopus_RDMA_connect                                            *)

\* rdma_create_id, state = IDLE, then rdma_resolve_ip_to_ib_device.
ResolveAddr ==
  /\ mpc = "start"
  /\ state' = IDLE
  /\ \/ mpc' = "wait_route" /\ link' = "resolving" /\ UNCHANGED hit
     \/ Fault("resolve") /\ mpc' = "returned" /\ link' = "dead"
     \/ Fault("create") /\ mpc' = "oops" /\ UNCHANGED link
  /\ UNCHANGED <<made, qpVars, srv, hpc, listVars>>

\* wait_event_interruptible: no caller looks at why it returned.
Waited(condition) ==
  \/ condition /\ UNCHANGED hit
  \/ Fault("signal")

WaitRoute ==
  /\ mpc = "wait_route" /\ Waited(state >= ROUTE_RESOLVED)
  /\ mpc' = IF state = ROUTE_RESOLVED THEN "create" ELSE "returned"
  /\ UNCHANGED <<state, made, link, qpVars, srv, hpc, listVars>>

\* PD, CQ, QP, in this order; the first failure ends the function, and the
\* caller prints a line and goes on.
CreateQueues ==
  /\ mpc = "create" /\ mpc' = "buffers"
  /\ \/ made' = {"pd", "cq", "qp"} /\ UNCHANGED hit
     \/ Fault("create") /\ made' \in {{}, {"pd"}, {"pd", "cq"}}
  /\ UNCHANGED <<state, link, qpVars, srv, hpc, listVars>>

\* octopus_setup_buffers maps the buffers on pd->device, which a failed
\* ib_alloc_pd has left an error pointer; the memory region comes last.
SetupBuffers ==
  /\ mpc = "buffers"
  /\ IF "pd" \notin made
     THEN mpc' = "oops" /\ UNCHANGED <<made, hit>>
     ELSE /\ mpc' = "prepost"
          /\ \/ made' = made \cup {"mr"} /\ UNCHANGED hit
             \/ Fault("create") /\ UNCHANGED made
  /\ UNCHANGED <<state, link, qpVars, srv, hpc, listVars>>

\* Mutant: a second receive, for a message nobody sends.
PrepostTwo ==
  /\ mpc = "prepost" /\ mpc' = "connect" /\ rx' = rx + 2
  /\ UNCHANGED <<state, made, link, net, recv_buf, cqVars, srv, hpc, listVars, hit>>

\* The receive for FREE_SIZE.  Its result is overwritten by the next call.
Prepost ==
  /\ mpc = "prepost"
  /\ IF "qp" \notin made
     THEN mpc' = "oops" /\ UNCHANGED <<rx, hit>>
     ELSE /\ mpc' = "connect"
          /\ \/ rx' = rx + 1 /\ UNCHANGED hit
             \/ Fault("prepost") /\ UNCHANGED rx
  /\ UNCHANGED <<state, made, link, net, recv_buf, cqVars, srv, hpc, listVars>>

\* A call on an id that the connection manager has destroyed.
OnDestroyedId == link = "destroyed" /\ mpc' = "oops"

Connect ==
  /\ mpc = "connect"
  /\ \/ link = "route" /\ mpc' = "wait_connected" /\ link' = "connecting" /\ UNCHANGED hit
     \/ link = "route" /\ Fault("connect") /\ mpc' = "arm" /\ link' = "dead"
     \/ OnDestroyedId /\ UNCHANGED <<link, hit>>
  /\ UNCHANGED <<state, made, qpVars, srv, hpc, listVars>>

\* ret is 0 here whether state is CONNECTED or ERROR: insmod goes on.
WaitConnected ==
  /\ mpc = "wait_connected" /\ Waited(state >= CONNECTED)
  /\ mpc' = "arm"
  /\ UNCHANGED <<state, made, link, qpVars, srv, hpc, listVars>>

\* ib_req_notify_cq on a CQ that holds completions: the HCA reports them at
\* once, or not.
ReqNotify ==
  \/ cq = <<>> /\ armed' = TRUE /\ UNCHANGED <<event, hit>>
  \/ cq # <<>> /\ event' = TRUE /\ UNCHANGED <<armed, hit>>
  \/ cq # <<>> /\ Fault("missed") /\ armed' = TRUE /\ UNCHANGED event

FirstNotify ==
  /\ mpc = "arm"
  /\ \/ mpc' = "wait_free" /\ ReqNotify
     \/ Fault("notify") /\ mpc' = "returned" /\ UNCHANGED <<armed, event>>
  /\ UNCHANGED <<state, made, link, rx, net, recv_buf, cq, srv, hpc, listVars>>

\* Mutant: the request does not wait for FREE_SIZE.
WaitFreeSizeNot ==
  /\ mpc = "wait_free" /\ mpc' = "request"
  /\ UNCHANGED <<state, made, link, qpVars, srv, hpc, listVars, hit>>

WaitFreeSize ==
  /\ mpc = "wait_free" /\ Waited(state = FREE_MEM_RECV)
  /\ mpc' = "request"
  /\ UNCHANGED <<state, made, link, qpVars, srv, hpc, listVars>>

\* A completion enters the CQ; an armed CQ reports it, once.
Completion(c) ==
  /\ cq' = Append(cq, c)
  /\ event' = (event \/ armed) /\ armed' = FALSE

\* octupos_requset_for_chunk: the receive, then the request.  A send that
\* fails leaves the receive posted.
RequestChunks ==
  /\ mpc = "request"
  /\ \/ /\ "rts" \in made /\ mpc' = "wait_done" /\ rx' = rx + 1
        /\ srv' = IF srv = "gone" THEN srv ELSE "requested"
        /\ Completion(IF srv = "gone" THEN "BAD" ELSE "SEND") /\ UNCHANGED hit
     \/ "rts" \notin made /\ mpc' = "returned" /\ rx' = rx + 1 /\ UNCHANGED <<srv, cqVars, hit>>
     \/ Fault("request") /\ mpc' = "returned" /\ rx' \in {rx, rx + 1} /\ UNCHANGED <<srv, cqVars>>
  /\ UNCHANGED <<state, made, link, net, recv_buf, hpc, listVars>>

\* Mutant: insmod returns as soon as the request is sent.
WaitDoneNot ==
  /\ mpc = "wait_done" /\ mpc' = "returned"
  /\ UNCHANGED <<state, made, link, qpVars, srv, hpc, listVars, hit>>

WaitDone ==
  /\ mpc = "wait_done" /\ Waited(state = TEST_DONE)
  /\ mpc' = "returned"
  /\ UNCHANGED <<state, made, link, qpVars, srv, hpc, listVars>>

-----------------------------------------------------------------------------
(* Connection events: octopus_rdma_cm_event_handler                        *)

\* The value returned was never assigned on this path; the connection manager
\* destroys the id of a handler that returns anything but 0.
HandlerReturns(next) ==
  \/ link' = next /\ UNCHANGED hit
  \/ Fault("return") /\ link' = "destroyed"

AddrResolved ==
  /\ link = "resolving"
  /\ state' = ADDR_RESOLVED
  /\ \/ link' = "routing" /\ UNCHANGED hit
     \/ Fault("route") /\ link' = "destroyed"
  /\ UNCHANGED <<mpc, made, qpVars, srv, hpc, listVars>>

RouteResolved ==
  /\ link = "routing"
  /\ state' = ROUTE_RESOLVED
  /\ HandlerReturns("route")
  /\ UNCHANGED <<mpc, made, qpVars, srv, hpc, listVars>>

\* The reply of the server makes the QP ready before the event is reported.
Reply ==
  /\ link = "connecting" /\ link' = "replied" /\ made' = made \cup {"rts"}
  /\ UNCHANGED <<state, mpc, qpVars, srv, hpc, listVars, hit>>

Established ==
  /\ link = "replied"
  /\ state' = CONNECTED
  /\ HandlerReturns("up")
  /\ UNCHANGED <<mpc, made, qpVars, srv, hpc, listVars>>

\* ADDR_ERROR, ROUTE_ERROR, CONNECT_ERROR, UNREACHABLE, REJECTED
CmError ==
  /\ \/ link \in {"resolving", "routing"} /\ Fault("resolve")
     \/ link = "connecting" /\ Fault("connect")
  /\ state' = ERROR /\ link' = "dead"
  /\ UNCHANGED <<mpc, made, qpVars, srv, hpc, listVars>>

\* The server leaves: the connection manager has the event to report.
ServerDisconnects ==
  /\ link = "up" /\ link' = "left" /\ srv' = "gone" /\ Fault("server")
  /\ UNCHANGED <<state, mpc, made, qpVars, hpc, listVars>>

\* DISCONNECTED, reported once per connection, for either side's wish.
Disconnected ==
  /\ link \in {"closing", "left"}
  /\ state' = CM_DISCONNECT
  /\ HandlerReturns("down")
  /\ UNCHANGED <<mpc, made, qpVars, srv, hpc, listVars>>

-----------------------------------------------------------------------------
(* The server, as far as this client sees it                               *)

Send(type, n) == net' = Append(net, [type |-> type, n |-> n])

SendFreeSize ==
  /\ srv = "none" /\ "rts" \in made
  /\ srv' = "free_sent" /\ \E n \in FreeSizes : Send("FREE_SIZE", n)
  /\ UNCHANGED <<state, mpc, made, link, rx, recv_buf, cqVars, hpc, listVars, hit>>

\* The pool may have grown since FREE_SIZE was sent, so that the grant is
\* bounded by the request alone.
SendChunks ==
  /\ srv = "requested" /\ "rts" \in made
  /\ srv' = "answered" /\ \E n \in 0..Request : Send("GOT_CHUNKS", n)
  /\ UNCHANGED <<state, mpc, made, link, rx, recv_buf, cqVars, hpc, listVars, hit>>

SendEvict ==
  /\ srv = "requested" /\ "rts" \in made
  /\ Fault("evict") /\ "evict" \notin hit /\ Send("EVICT", 0)
  /\ UNCHANGED <<state, mpc, made, link, rx, recv_buf, srv, cqVars, hpc, listVars>>

\* A message meets a posted receive and goes to the one buffer there is; the
\* receive has no room for it if there is no memory region.
Receive ==
  /\ net # <<>> /\ rx > 0
  /\ net' = Tail(net) /\ rx' = rx - 1
  /\ IF "mr" \in made THEN recv_buf' = Head(net) /\ Completion("RECV")
                      ELSE UNCHANGED recv_buf /\ Completion("BAD")
  /\ UNCHANGED <<state, mpc, made, link, srv, hpc, listVars, hit>>

-----------------------------------------------------------------------------
(* The CQ: octopus_cq_event_handler                                        *)

\* Mutant: the notification requested before the poll, as the code once did.
CqEventArm ==
  /\ event /\ hpc = "idle"
  /\ hpc' = IF state = ERROR THEN "idle" ELSE "poll"
  /\ IF state = ERROR THEN event' = FALSE ELSE event' = (cq # <<>>)
  /\ UNCHANGED <<state, mpc, made, link, rx, net, recv_buf, srv, cq, armed, listVars, hit>>

\* A session in ERROR takes no event, and asks for none.
CqEvent ==
  /\ event /\ hpc = "idle"
  /\ event' = FALSE
  /\ hpc' = IF state = ERROR THEN "idle" ELSE "poll"
  /\ UNCHANGED <<state, mpc, made, link, rx, net, recv_buf, srv, cq, armed, listVars, hit>>

\* handle_recv_wr: what the message in recv_buf does to the session.
HandleRecv ==
  \/ /\ state < CONNECTED
     /\ state' = ERROR /\ hpc' = "idle" /\ UNCHANGED listVars
  \/ /\ state >= CONNECTED /\ recv_buf.type = "FREE_SIZE"
     /\ free_gb' = recv_buf.n /\ state' = FREE_MEM_RECV /\ hpc' = "list"
     /\ UNCHANGED <<chunk_num, chunk_ptr>>
  \/ /\ state >= CONNECTED /\ recv_buf.type = "GOT_CHUNKS"
     /\ hpc' = "bind" /\ UNCHANGED <<state, listVars>>
  \/ /\ state >= CONNECTED /\ recv_buf.type = "EVICT"
     /\ state' = RECV_EVICT /\ hpc' = "notify" /\ UNCHANGED listVars

\* One completion is polled.  None, or a failed one, is an error after which
\* the handler asks for no further event.
PollOne ==
  /\ hpc = "poll"
  /\ cq' = IF cq = <<>> THEN cq ELSE Tail(cq)
  /\ \/ /\ cq = <<>> \/ Head(cq) \in {"BAD", "FLUSH"}
        /\ state' = ERROR /\ hpc' = "idle" /\ UNCHANGED listVars
     \/ cq # <<>> /\ Head(cq) = "SEND" /\ hpc' = "notify" /\ UNCHANGED <<state, listVars>>
     \/ cq # <<>> /\ Head(cq) = "RECV" /\ HandleRecv
  /\ UNCHANGED <<mpc, made, link, rx, net, recv_buf, srv, armed, event, hit>>

\* init_remote_chunk_list, after state was set and before the thread is woken.
InitChunkList ==
  /\ hpc = "list" /\ hpc' = "notify"
  /\ chunk_num' = free_gb /\ chunk_ptr' = 0
  /\ UNCHANGED <<state, mpc, made, link, qpVars, srv, free_gb, hit>>

\* bind_remote_memory_chunks: the loop ends when the list is full, a test made
\* after a key is stored: an empty list takes the key of chunk 0, if granted.
Bound(n) == IF chunk_num = 0 THEN 0..Min({1, n}) ELSE {Min({n, chunk_num})}

BindChunks ==
  /\ hpc = "bind" /\ hpc' = "notify"
  /\ chunk_ptr' \in Bound(recv_buf.n) /\ state' = TEST_DONE
  /\ UNCHANGED <<mpc, made, link, qpVars, srv, free_gb, chunk_num, hit>>

\* Mutant: no notification is requested for the next completion.
NotifyNot ==
  /\ hpc = "notify" /\ hpc' = "idle"
  /\ UNCHANGED <<state, mpc, made, link, qpVars, srv, listVars, hit>>

Notify ==
  /\ hpc = "notify" /\ hpc' = "idle"
  /\ \/ ReqNotify /\ UNCHANGED state
     \/ Fault("notify") /\ state' = ERROR /\ UNCHANGED <<armed, event>>
  /\ UNCHANGED <<mpc, made, link, rx, net, recv_buf, cq, srv, listVars>>

-----------------------------------------------------------------------------
(* rmmod: octopus_disconenct_and_collect_resource                          *)

\* rdma_disconnect moves the QP to its error state: posted receives are
\* flushed.  On an id that never connected it fails, which nobody looks at.
RdmaDisconnect ==
  /\ made' = made \ {"rts"} /\ net' = <<>>
  /\ link' = IF link \in {"replied", "up"} THEN "closing" ELSE link
  /\ IF "rts" \in made /\ rx > 0
     THEN Completion("FLUSH") /\ rx' = 0
     ELSE UNCHANGED <<rx, cqVars>>
  /\ UNCHANGED recv_buf

Disconnect ==
  /\ mpc = "returned"
  /\ \/ state = CM_DISCONNECT /\ mpc' = "free_buffers" /\ UNCHANGED <<made, link, qpVars>>
     \/ state # CM_DISCONNECT /\ link # "destroyed" /\ mpc' = "wait_disc" /\ RdmaDisconnect
     \/ state # CM_DISCONNECT /\ OnDestroyedId /\ UNCHANGED <<made, link, qpVars>>
  /\ UNCHANGED <<state, srv, hpc, listVars, hit>>

WaitDisconnected ==
  /\ mpc = "wait_disc" /\ Waited(state = CM_DISCONNECT)
  /\ mpc' = "free_buffers"
  /\ UNCHANGED <<state, made, link, qpVars, srv, hpc, listVars>>

\* octopus_free_buffers: the two buffers and the chunk list; the memory region
\* is left registered.
FreeBuffers ==
  /\ mpc = "free_buffers" /\ mpc' = "free_rdma"
  /\ UNCHANGED <<state, made, link, qpVars, srv, hpc, listVars, hit>>

\* octopus_free_rdma_structure: the id, then the QP, the CQ and the PD; the
\* kernel waits for a handler that is running.  Then the session is freed.
FreeRdma ==
  /\ mpc = "free_rdma"
  /\ \/ /\ link # "destroyed" /\ hpc = "idle" /\ mpc' = "gone"
        /\ link' = "none" /\ made' = made \cap {"mr"} /\ rx' = 0 /\ cq' = <<>> /\ armed' = FALSE /\ event' = FALSE
     \/ OnDestroyedId /\ UNCHANGED <<link, made, rx, cqVars>>
  /\ UNCHANGED <<state, net, recv_buf, srv, hpc, listVars, hit>>

-----------------------------------------------------------------------------
Insmod == ResolveAddr \/ WaitRoute \/ CreateQueues \/ SetupBuffers \/ Prepost \/ Connect
            \/ WaitConnected \/ FirstNotify \/ WaitFreeSize \/ RequestChunks \/ WaitDone

Manager == AddrResolved \/ RouteResolved \/ Reply \/ Established \/ Disconnected

Server == SendFreeSize \/ SendChunks

Handler == CqEvent \/ PollOne \/ InitChunkList \/ BindChunks \/ Notify

Rmmod == WaitDisconnected \/ FreeBuffers \/ FreeRdma

Next ==
  /\ mpc # "oops"
  /\ Insmod \/ Manager \/ CmError \/ ServerDisconnects \/ Server \/ SendEvict \/ Receive
       \/ Handler \/ Disconnect \/ Rmmod

Spec == Init /\ [][Next]_vars

\* The threads run, the manager reports what happened, the server answers and
\* the fabric delivers; nobody has to type rmmod, and a fault (a step that
\* changes hit) never has to happen.
Runs(A) == mpc # "oops" /\ A /\ hit' = hit

Fairness ==
  /\ WF_vars(Runs(Insmod)) /\ WF_vars(Runs(Manager)) /\ WF_vars(Runs(Server))
  /\ WF_vars(Runs(Receive)) /\ WF_vars(Runs(Handler)) /\ WF_vars(Runs(Rmmod))

FairSpec == Spec /\ Fairness

-----------------------------------------------------------------------------
(* Properties                                                              *)

TypeOK ==
  /\ state \in {0, IDLE, ADDR_RESOLVED, ROUTE_RESOLVED, CONNECTED, FREE_MEM_RECV, RECV_EVICT,
               CM_DISCONNECT, ERROR, TEST_DONE}
  /\ mpc \in {"start", "wait_route", "create", "buffers", "prepost", "connect", "wait_connected",
             "arm", "wait_free", "request", "wait_done", "returned", "wait_disc", "free_buffers",
             "free_rdma", "gone", "oops"}
  /\ made \subseteq {"pd", "cq", "qp", "mr", "rts"}
  /\ link \in {"none", "resolving", "routing", "route", "connecting", "replied", "up", "closing",
              "left", "down", "dead", "destroyed"}
  /\ rx \in 0..2 /\ net \in Seq(Message) /\ recv_buf \in Message \cup {[type |-> "none", n |-> 0]}
  /\ srv \in {"none", "free_sent", "requested", "answered", "gone"}
  /\ cq \in Seq({"SEND", "RECV", "BAD", "FLUSH"}) /\ armed \in BOOLEAN /\ event \in BOOLEAN
  /\ hpc \in {"idle", "poll", "list", "bind", "notify"}
  /\ free_gb \in FreeSizes \cup {0} /\ chunk_num \in FreeSizes \cup {0} /\ chunk_ptr \in 0..Request
  /\ hit \subseteq Faults

\* An event is never left over from a completion that is already polled, so
\* that ib_poll_cq finding nothing, which ends the session, does not happen.
NoSpuriousEvent == hpc = "poll" => cq # <<>>

\* All receives share recv_buf: while a message in it is unread, no receive is
\* posted into which the next message could go, unless a signal sent insmod on
\* before the message it waits for.
MessageNotOverwritten ==
  ("RECV" \in {cq[i] : i \in DOMAIN cq} \/ hpc = "bind") /\ "signal" \notin hit => rx = 0

\* rmmod frees recv_buf and the chunk list before the CQ: the completion
\* handler does not read or fill them any more, provided the request for
\* chunks was posted (insmod returns early otherwise, maybe before the handler
\* of FREE_SIZE, which sets state first, has made the list) and no signal ended
\* a wait.
HandlerDoneWithBuffers ==
  mpc \in {"free_rdma", "gone"} /\ hit \cap {"request", "signal"} = {} =>
    /\ hpc \notin {"list", "bind"}
    /\ ~(hpc = "poll" /\ cq # <<>> /\ Head(cq) = "RECV")

\* A grant larger than the size announced earlier stays inside the list that
\* init_remote_chunk_list allocated (a list of no chunks excepted).
BindInBounds == chunk_num > 0 => chunk_ptr <= chunk_num

\* insmod returns, unless an event it does not wait for came instead of the
\* one it waits for, or a call whose result it ignores failed.
InsmodReturns ==
  <>(\/ mpc \in {"returned", "wait_disc", "free_buffers", "free_rdma", "gone"}
     \/ hit \cap {"route", "create", "prepost", "connect", "notify", "missed", "evict", "server",
                 "return"} # {})

\* Once started, rmmod finishes: DISCONNECTED is the last word on the state of
\* a connected session.  It does not if insmod left the session unconnected or
\* a receive posted, whose flush makes it ERROR, or if the server left before
\* the last message was handled.
RmmodReturns ==
  mpc = "wait_disc" ~>
    (mpc = "gone" \/ hit \cap {"resolve", "request", "notify", "server", "return", "signal"} # {})
=============================================================================
