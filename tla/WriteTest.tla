----------------------------- MODULE WriteTest -----------------------------
(***************************************************************************)
(* The user-level RDMA write test (RDMA_read_write).  A server (started    *)
(* without an argument) accepts one TCP connection, exchanges QP number,   *)
(* rkey and address with the client, posts one RDMA write of its buffer    *)
(* and exits.  A client waits in a loop until the string in its buffer is  *)
(* not empty, prints it and exits.  Neither side waits for the completion  *)
(* of the write, and no second message tells the client that it is over.   *)
(*                                                                         *)
(* Faults selects what may happen besides:                                 *)
(*   "verbs"  a call under TEST_Z, TEST_N or TEST_NZ fails: the process    *)
(*            exits                                                        *)
(*   "short"  read returns part of the message: the process exits          *)
(*   "torn"   the client's CPU sees the string while it is being placed    *)
(*   "late"   the write is retried RetryCnt times before the client's QP   *)
(*            is ready to receive                                          *)
(* hit records the ones that have happened, and "early": the server        *)
(* destroyed its QP before the string was in the client's buffer.          *)
(***************************************************************************)
EXTENDS Naturals, Sequences

CONSTANTS
  Faults,
  Clients,   \* processes started with the server's name
  Sizes,     \* values of app_data.size; either program can play either role
  Addresses, \* numbers of addresses that the server's name may resolve to
  Backlog,   \* connections that wait for accept; listen(sockfd, 1) admits 2
  RetryCnt,  \* bound on retries of the HCA; attr->retry_cnt is 7
  server     \* the process started without a name

Procs == Clients \cup {server}

VARIABLES
  pc, size, qp,
  addr,     \* addr[c]: addresses of the server's name, as c resolves it
  sock,     \* sock[c]: number of c's last connection, the one it uses; 0 for none
  backlog,  \* connections <<c, n>> that wait for accept
  conn,     \* the connection the server accepted, or <<>>
  sent,     \* connections on which the client's message is waiting or was read
  replied,  \* the server has written its message on conn
  remote,   \* remote[p]: whose connection details p has
  payload,  \* the server's ctx->buf: "zero", "message" or "freed"
  write,    \* the RDMA write: "none", "posted", "done" or "failed"
  retries,
  buf,      \* buf[c]: what c's CPU sees of the write in its buffer
  printed,  \* printed[c]: what c printed
  hit

vars == <<pc, size, qp, addr, sock, backlog, conn, sent, replied, remote, payload, write,
          retries, buf, printed, hit>>

tcp == <<sock, backlog, conn, sent, replied>>
rdma == <<payload, write, retries, buf>>
fixed == <<size, addr>>

Fault(f) == f \in Faults /\ hit' = hit \cup {f}

Init ==
  /\ pc = [p \in Procs |-> "ctx"] /\ size \in [Procs -> Sizes] /\ addr \in [Clients -> Addresses]
  /\ qp = [p \in Procs |-> "none"] /\ remote = [p \in Procs |-> "none"]
  /\ sock = [c \in Clients |-> 0] /\ backlog = <<>> /\ conn = <<>> /\ sent = {} /\ replied = FALSE
  /\ payload = "zero" /\ write = "none" /\ retries = 0
  /\ buf = [c \in Clients |-> "empty"] /\ printed = [c \in Clients |-> "nothing"]
  /\ hit = {}

Ended(p) == pc[p] \in {"done", "dead"}

\* p goes on to the next step.
Goes(p, from, to) == pc[p] = from /\ pc' = [pc EXCEPT ![p] = to]

\* die: exit(EXIT_FAILURE) closes the sockets and the device.
Die(p) ==
  /\ ~Ended(p)
  /\ pc' = [pc EXCEPT ![p] = "dead"] /\ qp' = [qp EXCEPT ![p] = "gone"]
  /\ write' = IF p = server /\ write = "posted" THEN "failed" ELSE write
  /\ UNCHANGED <<fixed, tcp, remote, payload, retries, buf, printed>>

\* A call that is tested fails.
TestFails(p) ==
  /\ pc[p] \in {"ctx", "tcp", "write", "qp", "destroy"} \cup
               (IF p = server THEN {"accept", "work"} ELSE {})
  /\ Fault("verbs") /\ Die(p)

-----------------------------------------------------------------------------
(* Server                                                                  *)

\* init_ctx, with qp_change_state_init at its end; set_local_ib_connection
InitCtx ==
  /\ Goes(server, "ctx", "tcp")
  /\ qp' = [qp EXCEPT ![server] = "INIT"]
  /\ UNCHANGED <<fixed, tcp, remote, rdma, printed, hit>>

\* tcp_server_listen: bind and listen
Listen ==
  /\ Goes(server, "tcp", "accept")
  /\ UNCHANGED <<fixed, qp, tcp, remote, rdma, printed, hit>>

Listening == pc[server] \notin {"ctx", "tcp", "done", "dead"}

\* ... and accept, once.  The listening socket stays open until exit.
Accept ==
  /\ backlog # <<>> /\ Goes(server, "accept", "write")
  /\ conn' = Head(backlog) /\ backlog' = Tail(backlog)
  /\ UNCHANGED <<fixed, qp, sock, sent, replied, remote, rdma, printed, hit>>

\* tcp_exch_ib_connection_info: write,
ServerWriteInfo ==
  /\ Goes(server, "write", "read") /\ replied' = TRUE
  /\ UNCHANGED <<fixed, qp, sock, backlog, conn, sent, remote, rdma, printed, hit>>

\* ... then read and parse.
ServerReadInfo ==
  /\ conn \in sent /\ Goes(server, "read", "qp")
  /\ remote' = [remote EXCEPT ![server] = conn[1]]
  /\ UNCHANGED <<fixed, qp, tcp, rdma, printed, hit>>

\* The message comes in two parts, or not at all from a client that has exited.
ServerReadFails ==
  /\ pc[server] = "read" /\ Die(server)
  /\ \/ conn \in sent /\ Fault("short")
     \/ Ended(conn[1]) /\ UNCHANGED hit

\* qp_change_state_rtr, then qp_change_state_rts
StateRts ==
  /\ Goes(server, "qp", "work")
  /\ qp' = [qp EXCEPT ![server] = "RTS"]
  /\ UNCHANGED <<fixed, tcp, remote, rdma, printed, hit>>

\* Mutant: nothing is posted.
RdmaWriteNot ==
  /\ Goes(server, "work", "destroy") /\ payload' = "message"
  /\ UNCHANGED <<fixed, qp, tcp, remote, write, retries, buf, printed, hit>>

\* The string goes into ctx->buf, and ibv_post_send of rdma_write returns at once:
\* the loop that waited for the completion is commented out.
RdmaWrite ==
  /\ Goes(server, "work", "destroy")
  /\ payload' = "message" /\ write' = "posted"
  /\ UNCHANGED <<fixed, qp, tcp, remote, retries, buf, printed, hit>>

\* Mutant: the buffer is freed while the QP is still there.
DestroyQpLast ==
  /\ Goes(server, "destroy", "free") /\ payload' = "freed"
  /\ UNCHANGED <<fixed, qp, tcp, remote, write, retries, buf, printed, hit>>

\* destroy_ctx: with the QP goes a write that is still under way,
DestroyQp ==
  /\ Goes(server, "destroy", "free")
  /\ qp' = [qp EXCEPT ![server] = "gone"]
  /\ write' = IF write = "posted" THEN "failed" ELSE write
  /\ hit' = IF write = "posted" /\ buf[remote[server]] \in {"empty", "part"}
            THEN hit \cup {"early"} ELSE hit
  /\ UNCHANGED <<fixed, tcp, remote, payload, retries, buf, printed>>

\* and the buffer after it; then close, and exit.
FreeBuf ==
  /\ Goes(server, "free", "done") /\ payload' = "freed"
  /\ UNCHANGED <<fixed, qp, tcp, remote, write, retries, buf, printed, hit>>

-----------------------------------------------------------------------------
(* Client c                                                                *)

InitCtxWithBuffer(c) ==
  /\ Goes(c, "ctx", "tcp")
  /\ qp' = [qp EXCEPT ![c] = "INIT"]
  /\ UNCHANGED <<fixed, tcp, remote, rdma, printed, hit>>

\* tcp_client_connect connects to every address the name has, each with a socket
\* of its own, and keeps the last.
TcpClientConnect(c) ==
  /\ Listening /\ Len(backlog) < Backlog
  /\ sock' = [sock EXCEPT ![c] = @ + 1]
  /\ backlog' = Append(backlog, <<c, sock[c] + 1>>)
  /\ Goes(c, "tcp", IF sock[c] + 1 < addr[c] THEN "tcp" ELSE "write")
  /\ UNCHANGED <<fixed, qp, conn, sent, replied, remote, rdma, printed, hit>>

\* Nobody listens, or the backlog is full until connect times out.
ConnectFails(c) ==
  /\ pc[c] = "tcp" /\ (~Listening \/ Len(backlog) >= Backlog)
  /\ Die(c) /\ UNCHANGED hit

\* The kernel takes the message, whether the connection was accepted or not.
ClientWriteInfo(c) ==
  /\ Goes(c, "write", "read")
  /\ sent' = sent \cup {<<c, sock[c]>>}
  /\ UNCHANGED <<fixed, qp, sock, backlog, conn, replied, remote, rdma, printed, hit>>

ClientReadInfo(c) ==
  /\ replied /\ conn = <<c, sock[c]>> /\ Goes(c, "read", "qp")
  /\ remote' = [remote EXCEPT ![c] = server]
  /\ UNCHANGED <<fixed, qp, tcp, rdma, printed, hit>>

\* The message comes in two parts, or the connection is closed by the server's exit.
ClientReadFails(c) ==
  /\ pc[c] = "read" /\ Die(c)
  /\ \/ replied /\ conn = <<c, sock[c]>> /\ Fault("short")
     \/ Ended(server) /\ UNCHANGED hit

StateRtr(c) ==
  /\ Goes(c, "qp", "work")
  /\ qp' = [qp EXCEPT ![c] = "RTR"]
  /\ UNCHANGED <<fixed, tcp, remote, rdma, printed, hit>>

\* strlen(chPtr) > 0 ends the loop, and the string is printed as it is by then.
PrintBuffer(c) ==
  /\ buf[c] # "empty" /\ Goes(c, "work", "destroy")
  /\ printed' = [printed EXCEPT ![c] = buf[c]]
  /\ UNCHANGED <<fixed, qp, tcp, remote, rdma, hit>>

\* destroy_ctx and close, while the rest of the write may still be on its way.
DestroyCtx(c) ==
  /\ Goes(c, "destroy", "done")
  /\ qp' = [qp EXCEPT ![c] = "gone"]
  /\ UNCHANGED <<fixed, tcp, remote, rdma, printed, hit>>

-----------------------------------------------------------------------------
(* The HCAs                                                                *)

target == remote[server]

Sending == write = "posted" /\ qp[server] = "RTS"

\* The server writes size[server] bytes at the middle of the client's region of
\* 2 * size[c] bytes.  The string is in the first packet; the rest follows.
Place ==
  /\ Sending /\ qp[target] = "RTR" /\ size[server] <= size[target]
  /\ \E b \in {"part", "string", "all", "garbage"} :
       /\ \/ payload = "freed" /\ b = "garbage" /\ UNCHANGED hit
          \/ payload = "message" /\ buf[target] = "empty" /\ b = "part" /\ Fault("torn")
          \/ payload = "message" /\ buf[target] \in {"empty", "part"} /\ b = "string" /\ UNCHANGED hit
          \/ payload = "message" /\ buf[target] = "string" /\ b = "all" /\ UNCHANGED hit
       /\ buf' = [buf EXCEPT ![target] = b]
       /\ write' = IF b \in {"all", "garbage"} THEN "done" ELSE write
  /\ UNCHANGED <<pc, fixed, qp, tcp, remote, payload, retries, printed>>

\* The region is too small for the write: refused before anything is placed.
AccessError ==
  /\ Sending /\ qp[target] = "RTR" /\ size[server] > size[target]
  /\ write' = "failed" /\ qp' = [qp EXCEPT ![server] = "ERR", ![target] = "ERR"]
  /\ UNCHANGED <<pc, fixed, tcp, remote, payload, retries, buf, printed, hit>>

\* The client is not ready yet, or gone: the HCA tries again, up to retry_cnt times.
Retry ==
  /\ Sending /\ qp[target] \in {"INIT", "gone"}
  /\ IF retries < RetryCnt
     THEN retries' = retries + 1 /\ UNCHANGED <<write, qp, hit>>
     ELSE /\ write' = "failed" /\ qp' = [qp EXCEPT ![server] = "ERR"] /\ UNCHANGED retries
          /\ IF qp[target] = "INIT" THEN Fault("late") ELSE UNCHANGED hit
  /\ UNCHANGED <<pc, fixed, tcp, remote, payload, buf, printed>>

-----------------------------------------------------------------------------
Server ==
  InitCtx \/ Listen \/ Accept \/ ServerWriteInfo \/ ServerReadInfo \/ ServerReadFails \/ StateRts
    \/ RdmaWrite \/ DestroyQp \/ FreeBuf

Client(c) ==
  InitCtxWithBuffer(c) \/ TcpClientConnect(c) \/ ConnectFails(c) \/ ClientWriteInfo(c)
    \/ ClientReadInfo(c) \/ ClientReadFails(c) \/ StateRtr(c) \/ PrintBuffer(c) \/ DestroyCtx(c)

Hca == Place \/ AccessError \/ Retry

Next ==
  \/ Server \/ Hca
  \/ \E c \in Clients : Client(c)
  \/ \E p \in Procs : TestFails(p)

Spec == Init /\ [][Next]_vars

\* Every process is scheduled and the HCA goes on; a fault is nobody's duty.
Runs(A) == A /\ (hit' = hit \/ hit' = hit \cup {"early"})

FairSpec ==
  /\ Spec /\ WF_vars(Runs(Server)) /\ WF_vars(Runs(Hca))
  /\ \A c \in Clients : WF_vars(Runs(Client(c)))

-----------------------------------------------------------------------------
(* Properties                                                              *)

\* Each variable is of its type.
TypeOK ==
  /\ pc \in [Procs -> {"ctx", "tcp", "accept", "write", "read", "qp", "work", "destroy", "free",
                       "done", "dead"}]
  /\ size \in [Procs -> Sizes] /\ addr \in [Clients -> Addresses]
  /\ qp \in [Procs -> {"none", "INIT", "RTR", "RTS", "ERR", "gone"}]
  /\ \A c \in Clients : sock[c] \in 0..addr[c] /\ remote[c] \in {"none", server}
  /\ remote[server] \in Clients \cup {"none"} /\ Len(backlog) <= Backlog
  /\ sent \subseteq Clients \X (Nat \ {0}) /\ replied \in BOOLEAN
  /\ payload \in {"zero", "message", "freed"} /\ write \in {"none", "posted", "done", "failed"}
  /\ retries \in 0..RetryCnt
  /\ buf \in [Clients -> {"empty", "part", "string", "all", "garbage"}]
  /\ printed \in [Clients -> {"nothing", "part", "string", "all", "garbage"}]
  /\ hit \subseteq Faults \cup {"early"}

\* What a client prints is the string the server stored, though nothing tells it
\* when the write is complete; only a torn placement shows a part of it.
PrintsMessage ==
  \A c \in Clients : printed[c] \in {"nothing", "string", "all"} \cup
                                    (IF "torn" \in hit THEN {"part"} ELSE {})

\* Data reaches only the client that was accepted, after both sides have read each
\* other's details, however early the server posts the write.
DataAfterExchange ==
  \A c \in Clients : buf[c] # "empty" => remote[server] = c /\ remote[c] = server

\* A client ends.  It waits for ever only if the server went away before the write
\* was done, the write was given up or refused, or some client connected twice.
ClientsEnd ==
  \A c \in Clients :
    <>(\/ Ended(c) \/ hit \cap {"early", "late"} # {} \/ pc[server] = "dead"
       \/ size[server] > size[c] \/ \E d \in Clients : addr[d] > 1)

\* A server that has accepted a connection ends, unless the client has another one.
ServerEnds == pc[server] = "write" ~> (Ended(server) \/ \E d \in Clients : addr[d] > 1)
=============================================================================
