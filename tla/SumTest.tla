------------------------------ MODULE SumTest ------------------------------
(***************************************************************************)
(* The two user-level tests that wait on a completion channel.             *)
(*                                                                         *)
(* prog = "sum", RDMA_post_send_recv_a_plus_b: the client writes its first *)
(* number into the server's memory, sends the second, and prints the sum   *)
(* that the server sends back.                                             *)
(*                                                                         *)
(* prog = "daemon", RDMA_post_send_recv_connect_to_infiniswap_daemon: the  *)
(* client connects to the memory server daemon and prints the first        *)
(* message of it.  The daemon is ChunkPool's; here it is external.         *)
(*                                                                         *)
(* A completion queue that is armed makes one event of the next completion *)
(* that is added; ibv_req_notify_cq arms it again.  hit records            *)
(*   "call"    (only if in Faults) a call failed and its process exited    *)
(*   "missed"  the client's reply completed while the queue was not armed  *)
(*   "rnr"     a message came when no receive was posted: conn_param has   *)
(*             rnr_retry_count 0, so the sender gives up                   *)
(***************************************************************************)
EXTENDS Naturals, Sequences

CONSTANTS
  Faults,
  Programs,  \* which of the two tests
  Values,    \* the client's arguments
  Vas,       \* addresses the server's buffer may have
  Word       \* 2^32, the bound of a uint32_t; small here

Procs == {"client", "server"}

Peer(p) == IF p = "client" THEN "server" ELSE "client"

VARIABLES
  prog, val1, val2, va,
  pc,
  link,    \* of the CM: "none", "requested", "accepted", "up"
  qp,      \* "none", "RTS", "ERR" or "gone" with its process
  recv,    \* recv[p]: p has a receive posted
  out,     \* out[p]: work requests of p's send queue
  cq,      \* cq[p]: completions "send", "recv", "error"
  armed, events,
  buf,     \* buf[p]: buf[0] and buf[1], as a pair
  printed, \* what the client printed: <<>> or a number in a sequence
  hit

vars == <<prog, val1, val2, va, pc, link, qp, recv, out, cq, armed, events, buf, printed, hit>>

args == <<prog, val1, val2, va>>
queue == <<cq, armed, events>>
verbs == <<qp, recv, out, queue>>

Init ==
  /\ prog \in Programs /\ val1 \in Values /\ val2 \in Values /\ va \in Vas
  /\ pc = [client |-> "resolve", server |-> "listen"] /\ link = "none"
  /\ qp = [p \in Procs |-> "none"] /\ recv = [p \in Procs |-> FALSE]
  /\ out = [p \in Procs |-> <<>>] /\ cq = [p \in Procs |-> <<>>]
  /\ armed = [p \in Procs |-> FALSE] /\ events = [p \in Procs |-> 0]
  /\ buf = [p \in Procs |-> <<0, 0>>] /\ printed = <<>> /\ hit = {}

Ended(p) == pc[p] \in {"done", "failed"}

Goes(p, from, to) == pc[p] = from /\ pc' = [pc EXCEPT ![p] = to]

\* return 1: the process exits, and its QP goes with it.
Fails(p) == /\ pc' = [pc EXCEPT ![p] = "failed"] /\ qp' = [qp EXCEPT ![p] = "gone"]
            /\ UNCHANGED <<args, link, recv, out, queue, buf, printed>>

\* A call of p fails.
CallFails(p) ==
  /\ ~Ended(p) /\ (p = "client" \/ prog = "sum")
  /\ "call" \in Faults /\ hit' = hit \cup {"call"} /\ Fails(p)

-----------------------------------------------------------------------------
(* HCA and completion queue                                                *)

\* Completion wc is added to p's queue.
Complete(p, wc) ==
  /\ cq' = [cq EXCEPT ![p] = Append(@, wc)]
  /\ events' = [events EXCEPT ![p] = IF armed[p] THEN @ + 1 ELSE @]
  /\ armed' = [armed EXCEPT ![p] = FALSE]

\* ... and this one is the client's reply, behind the completion of its send.
Missed(p, wc) == p = "client" /\ wc = "recv" /\ ~armed[p]

\* The first number is written at the address the client has: ntohl of a 64-bit
\* field, which keeps the low word.  Another address is refused on both sides.
HcaWrite ==
  /\ out["client"] # <<>> /\ Head(out["client"]) = "write"
  /\ qp["client"] = "RTS" /\ qp["server"] = "RTS"
  /\ IF va % Word = va
     THEN /\ buf' = [buf EXCEPT !["server"][1] = buf["client"][1]]
          /\ out' = [out EXCEPT !["client"] = Tail(@)]
          /\ UNCHANGED qp
     ELSE /\ qp' = [p \in Procs |-> "ERR"] /\ UNCHANGED <<buf, out>>
  /\ UNCHANGED <<args, pc, link, recv, queue, printed, hit>>

\* A message of p goes into the receive of its peer.
HcaSend(p) ==
  /\ out[p] # <<>> /\ Head(out[p]) = "send" /\ qp[p] = "RTS" /\ qp[Peer(p)] = "RTS"
  /\ IF recv[Peer(p)]
     THEN /\ out' = [out EXCEPT ![p][1] = "sent"]
          /\ recv' = [recv EXCEPT ![Peer(p)] = FALSE]
          /\ buf' = IF p = "client" THEN [buf EXCEPT !["server"][2] = buf["client"][2]]
                                    ELSE [buf EXCEPT !["client"][1] = buf["server"][1]]
          /\ Complete(Peer(p), "recv")
          /\ hit' = IF Missed(Peer(p), "recv") THEN hit \cup {"missed"} ELSE hit
          /\ UNCHANGED qp
     ELSE /\ qp' = [qp EXCEPT ![p] = "ERR"] /\ hit' = hit \cup {"rnr"}
          /\ UNCHANGED <<out, recv, buf, queue>>
  /\ UNCHANGED <<args, pc, link, printed>>

\* The acknowledgement, which may be later than the answer.
HcaAck(p) ==
  /\ out[p] # <<>> /\ Head(out[p]) = "sent" /\ qp[p] = "RTS"
  /\ out' = [out EXCEPT ![p] = Tail(@)] /\ Complete(p, "send")
  /\ UNCHANGED <<args, pc, link, qp, recv, buf, printed, hit>>

\* The peer does not answer any more: retries end in an error.
HcaTimeout(p) ==
  /\ out[p] # <<>> /\ Head(out[p]) # "sent" /\ qp[p] = "RTS" /\ qp[Peer(p)] \in {"ERR", "gone"}
  /\ qp' = [qp EXCEPT ![p] = "ERR"]
  /\ UNCHANGED <<args, pc, link, recv, out, queue, buf, printed, hit>>

\* Whatever is left in the queues of a QP in error is flushed.
HcaFlush(p) ==
  /\ qp[p] = "ERR" /\ (out[p] # <<>> \/ recv[p])
  /\ out' = [out EXCEPT ![p] = <<>>] /\ recv' = [recv EXCEPT ![p] = FALSE]
  /\ Complete(p, "error")
  /\ UNCHANGED <<args, pc, link, qp, buf, printed, hit>>

-----------------------------------------------------------------------------
(* Client: bring-up                                                        *)

\* Event channel, id, address: any event but ADDR_RESOLVED ends the client.
ResolveAddr ==
  /\ Goes("client", "resolve", "route")
  /\ UNCHANGED <<args, link, verbs, buf, printed, hit>>

ResolveRoute ==
  /\ Goes("client", "route", "verbs")
  /\ UNCHANGED <<args, link, verbs, buf, printed, hit>>

\* Protection domain, completion channel, CQ (armed), buffer, region, QP
ClientVerbs ==
  /\ Goes("client", "verbs", "connect")
  /\ armed' = [armed EXCEPT !["client"] = TRUE]
  /\ UNCHANGED <<args, link, qp, recv, out, cq, events, buf, printed, hit>>

\* rdma_connect; without a server that listens the event is REJECTED.
Connect ==
  /\ pc["client"] = "connect"
  /\ IF pc["server"] = "request"
     THEN Goes("client", "connect", "established") /\ link' = "requested" /\ UNCHANGED qp
     ELSE /\ pc' = [pc EXCEPT !["client"] = "failed"] /\ qp' = [qp EXCEPT !["client"] = "gone"]
          /\ UNCHANGED link
  /\ UNCHANGED <<args, recv, out, queue, buf, printed, hit>>

\* ESTABLISHED brings the server's private data; any other event is an error.
ClientEstablished ==
  /\ \/ /\ link = "accepted" /\ Goes("client", "established", "post_recv")
        /\ link' = "up" /\ qp' = [qp EXCEPT !["client"] = "RTS"]
        /\ UNCHANGED <<args, recv, out, queue, buf, printed, hit>>
     \/ /\ pc["client"] = "established" /\ Ended("server")
        /\ Fails("client") /\ UNCHANGED hit

-----------------------------------------------------------------------------
(* Client: work                                                            *)

\* Only now is the receive posted: into buf[0], whose number is still to be sent.
PostRecv ==
  /\ Goes("client", "post_recv", "write")
  /\ recv' = [recv EXCEPT !["client"] = TRUE]
  /\ UNCHANGED <<args, link, qp, out, queue, buf, printed, hit>>

\* The client of the daemon, whose message may have come by now, goes on to wait.
DaemonPostRecv ==
  /\ Goes("client", "post_recv", "wait")
  /\ recv' = [recv EXCEPT !["client"] = TRUE]
  /\ UNCHANGED <<args, link, qp, out, queue, buf, printed, hit>>

\* Mutant: the message goes out before the number it completes.
PostWriteLast ==
  /\ Goes("client", "write", "send")
  /\ buf' = [buf EXCEPT !["client"] = <<val1, val2>>]
  /\ out' = [out EXCEPT !["client"] = Append(@, "send")]
  /\ UNCHANGED <<args, link, qp, recv, queue, printed, hit>>

\* Both numbers are stored, and the first is written, without a completion.
PostWrite ==
  /\ Goes("client", "write", "send")
  /\ buf' = [buf EXCEPT !["client"] = <<val1, val2>>]
  /\ out' = [out EXCEPT !["client"] = Append(@, "write")]
  /\ UNCHANGED <<args, link, qp, recv, queue, printed, hit>>

PostSend ==
  /\ Goes("client", "send", "wait")
  /\ out' = [out EXCEPT !["client"] = Append(@, "send")]
  /\ UNCHANGED <<args, link, qp, recv, queue, buf, printed, hit>>

\* ibv_get_cq_event blocks until there is an event.
GetCqEvent(p, from, to) ==
  /\ events[p] > 0 /\ Goes(p, from, to)
  /\ events' = [events EXCEPT ![p] = @ - 1]
  /\ UNCHANGED <<args, link, qp, recv, out, cq, armed, buf, printed, hit>>

ReqNotifyCq(p) ==
  /\ Goes(p, "rearm", "poll")
  /\ armed' = [armed EXCEPT ![p] = TRUE]
  /\ UNCHANGED <<args, link, qp, recv, out, cq, events, buf, printed, hit>>

\* One completion is polled.  None, or a failed one, ends the client; the reply is
\* printed from buf[0], and the completion of the send is passed over.
PollCq ==
  /\ pc["client"] = "poll"
  /\ IF cq["client"] = <<>> \/ Head(cq["client"]) = "error"
     THEN Fails("client")
     ELSE /\ cq' = [cq EXCEPT !["client"] = Tail(@)]
          /\ IF Head(cq["client"]) = "recv"
             THEN /\ printed' = <<buf["client"][1]>>
                  /\ pc' = [pc EXCEPT !["client"] = "done"]
                  /\ qp' = [qp EXCEPT !["client"] = "gone"]
             ELSE pc' = [pc EXCEPT !["client"] = "wait"] /\ UNCHANGED <<printed, qp>>
          /\ UNCHANGED <<args, link, recv, out, armed, events, buf>>
  /\ UNCHANGED hit

\* The daemon's client prints at the first completion that succeeded, and leaves.
DaemonPollCq ==
  /\ pc["client"] = "poll"
  /\ IF cq["client"] = <<>> \/ Head(cq["client"]) = "error"
     THEN Fails("client")
     ELSE /\ cq' = [cq EXCEPT !["client"] = Tail(@)] /\ printed' = <<buf["client"][1]>>
          /\ pc' = [pc EXCEPT !["client"] = "done"] /\ qp' = [qp EXCEPT !["client"] = "gone"]
          /\ UNCHANGED <<args, link, recv, out, armed, events, buf>>
  /\ UNCHANGED hit

-----------------------------------------------------------------------------
(* Server of the sum                                                       *)

Listen ==
  /\ Goes("server", "listen", "request")
  /\ UNCHANGED <<args, link, verbs, buf, printed, hit>>

\* CONNECT_REQUEST, then the verbs objects, the CQ armed
ConnectRequest ==
  /\ link = "requested"
  /\ Goes("server", "request", IF prog = "sum" THEN "accept" ELSE "daemon")
  /\ armed' = [armed EXCEPT !["server"] = TRUE]
  /\ UNCHANGED <<args, link, qp, recv, out, cq, events, buf, printed, hit>>

\* Mutant: the connection is accepted without a receive.
AcceptUnposted ==
  /\ Goes("server", "accept", "established") /\ link' = "accepted"
  /\ qp' = [qp EXCEPT !["server"] = "RTS"]
  /\ UNCHANGED <<args, recv, out, queue, buf, printed, hit>>

\* "Post receive before accepting connection", and rdma_accept with the low word of
\* the buffer's address in its private data
Accept ==
  /\ Goes("server", "accept", "established") /\ link' = "accepted"
  /\ recv' = [recv EXCEPT !["server"] = TRUE] /\ qp' = [qp EXCEPT !["server"] = "RTS"]
  /\ UNCHANGED <<args, out, queue, buf, printed, hit>>

ServerEstablished ==
  /\ \/ /\ link = "up" /\ Goes("server", "established", "wait")
        /\ UNCHANGED <<args, link, verbs, buf, printed, hit>>
     \/ /\ link = "accepted" /\ pc["server"] = "established" /\ Ended("client")
        /\ Fails("server") /\ UNCHANGED hit

\* Mutant: the sum is not sent.
SumNotSent ==
  /\ Goes("server", "poll", "wait_send")
  /\ cq' = [cq EXCEPT !["server"] = <<>>]
  /\ UNCHANGED <<args, link, qp, recv, out, armed, events, buf, printed, hit>>

\* The receive is polled, the sum stored in buf[0] and sent.
Sum ==
  /\ pc["server"] = "poll"
  /\ IF cq["server"] = <<>> \/ Head(cq["server"]) = "error"
     THEN Fails("server")
     ELSE /\ cq' = [cq EXCEPT !["server"] = Tail(@)]
          /\ buf' = [buf EXCEPT !["server"][1] = (@ + buf["server"][2]) % Word]
          /\ out' = [out EXCEPT !["server"] = Append(@, "send")]
          /\ pc' = [pc EXCEPT !["server"] = "wait_send"]
          /\ UNCHANGED <<args, link, qp, recv, armed, events, printed>>
  /\ UNCHANGED hit

\* The send is polled; the process exits.
SendPolled ==
  /\ pc["server"] = "poll_send"
  /\ IF cq["server"] = <<>> \/ Head(cq["server"]) = "error"
     THEN Fails("server")
     ELSE /\ cq' = [cq EXCEPT !["server"] = Tail(@)]
          /\ pc' = [pc EXCEPT !["server"] = "done"] /\ qp' = [qp EXCEPT !["server"] = "gone"]
          /\ UNCHANGED <<args, link, recv, out, armed, events, buf, printed>>
  /\ UNCHANGED hit

-----------------------------------------------------------------------------
(* The daemon, for its client: accepts, and sends FREE_SIZE when connected *)

DaemonAccepts ==
  /\ Goes("server", "daemon", "free_size") /\ link' = "accepted"
  /\ recv' = [recv EXCEPT !["server"] = TRUE] /\ qp' = [qp EXCEPT !["server"] = "RTS"]
  /\ UNCHANGED <<args, out, queue, buf, printed, hit>>

DaemonSends ==
  /\ link = "up" /\ Goes("server", "free_size", "serving")
  /\ buf' = [buf EXCEPT !["server"][1] = val1]
  /\ out' = [out EXCEPT !["server"] = Append(@, "send")]
  /\ UNCHANGED <<args, link, qp, recv, queue, printed, hit>>

-----------------------------------------------------------------------------
BringUp == ResolveAddr \/ ResolveRoute \/ ClientVerbs \/ Connect \/ ClientEstablished

Wait(p) == GetCqEvent(p, "wait", "rearm") \/ ReqNotifyCq(p)

\* main of the three programs
SumClient ==
  prog = "sum" /\ (BringUp \/ PostRecv \/ PostWrite \/ PostSend \/ Wait("client") \/ PollCq)

DaemonClient == prog = "daemon" /\ (BringUp \/ DaemonPostRecv \/ Wait("client") \/ DaemonPollCq)

SumServer ==
  \/ Listen \/ ConnectRequest \/ Accept \/ ServerEstablished \/ Wait("server") \/ Sum
  \/ GetCqEvent("server", "wait_send", "poll_send") \/ SendPolled

Client == SumClient \/ DaemonClient

Server == SumServer \/ DaemonAccepts \/ DaemonSends

Hca(p) == HcaSend(p) \/ HcaAck(p) \/ HcaTimeout(p) \/ HcaFlush(p)

Next ==
  \/ Client \/ Server \/ HcaWrite
  \/ \E p \in Procs : Hca(p) \/ CallFails(p)

Spec == Init /\ [][Next]_vars

\* Both processes are scheduled and the HCAs go on.
FairSpec ==
  /\ Spec /\ WF_vars(Client) /\ WF_vars(Server) /\ WF_vars(HcaWrite)
  /\ \A p \in Procs : WF_vars(Hca(p))

-----------------------------------------------------------------------------
(* Properties                                                              *)

\* Each variable is of its type; the queues keep to the sizes the code asks for:
\* a CQ of 2, and 2 work requests of the client and 1 of the server.
TypeOK ==
  /\ pc \in [Procs -> {"resolve", "route", "verbs", "connect", "established", "post_recv", "write",
                       "send", "wait", "rearm", "poll", "listen", "request", "accept", "wait_send",
                       "poll_send", "daemon", "free_size", "serving", "done", "failed"}]
  /\ link \in {"none", "requested", "accepted", "up"}
  /\ qp \in [Procs -> {"none", "RTS", "ERR", "gone"}] /\ recv \in [Procs -> BOOLEAN]
  /\ \A p \in Procs : /\ Len(cq[p]) <= 2 /\ events[p] \in 0..2
                      /\ Len(out[p]) <= IF p = "client" THEN 2 ELSE 1
  /\ hit \subseteq {"call", "missed", "rnr"}

\* What the client prints is the sum of its two numbers, modulo the width of a
\* uint32_t (or the daemon's message), though buf[0] is sent from and received into.
PrintsSum ==
  printed \in {<<>>, <<IF prog = "sum" THEN (val1 + val2) % Word ELSE val1>>}

\* An event always finds a completion: ibv_poll_cq never comes back empty.
EventHasCompletion ==
  /\ pc["client"] = "poll" => cq["client"] # <<>>
  /\ pc["server"] \in {"poll", "poll_send"} => cq["server"] # <<>>

\* The client fails only if a call failed in a process, nobody listened when it
\* connected, or the server's buffer is above the low word.
FailureExplained ==
  pc["client"] = "failed" => "call" \in hit \/ link = "none" \/ va % Word # va

\* The client ends.  It waits for ever only if its reply completed while the queue
\* was not armed, the daemon sent too early, or a process died.
ClientEnds == <>(Ended("client") \/ hit # {})

\* The server of the sum ends once it has a client, whatever the client misses.
ServerEnds == pc["server"] = "accept" ~> (Ended("server") \/ "call" \in hit)
=============================================================================
