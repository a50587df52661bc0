----------------------------- MODULE RdmaQueue -----------------------------
(***************************************************************************)
(* The data path of the Octopus client: the pool of 1-sided RDMA commands  *)
(* of every dispatch queue, from blk-mq's .queue_rq to the end of the I/O  *)
(* request in the completion handler.                                      *)
(*                                                                         *)
(*   rmem_queue_rq -> transfer_requet_to_rdma_message -> post_rdma_read /  *)
(*   post_rdma_write -> get_a_free_rdma_cmd_from_rdma_q -> ib_post_send    *)
(*   octopus_cq_event_handler -> rdma_read_done / rdma_write_done ->       *)
(*   blk_mq_end_request -> free_a_rdma_cmd_to_rdma_q                       *)
(*                                                                         *)
(* A context of Contexts is a CPU or kernel thread that runs .queue_rq for *)
(* some dispatch queue.  The completion handler is one context: all queues *)
(* share one QP and one CQ, and events of one CQ are delivered one at a    *)
(* time.  The state begins with the device online: connected, chunks       *)
(* bound, the CQ armed and drained.                                        *)
(***************************************************************************)
EXTENDS Naturals

CONSTANTS
  Queues,      \* dispatch queues, one rmem_rdma_queue each (one per online core)
  Depth,       \* RMEM_QUEUE_DEPTH: tags and commands of a queue
  Contexts,    \* contexts that run .queue_rq
  NULL,        \* the null pointer
  MaxFaults    \* bound on the failures a behaviour contains

ASSUME DepthAssumption == Depth \in Nat \ {0}
ASSUME FaultAssumption == MaxFaults \in Nat

Slot == 0 .. Depth - 1

\* rmem_rdma_queue_list[q].rmem_rdma_cmd_list[i]; wr_id is its address.
Cmd == Queues \X Slot

\* The requests blk-mq preallocates: one per tag of a hardware queue.
Req == Queues \X Slot

ASSUME NullAssumption == NULL \notin Cmd

VARIABLES
  free_state,   \* rmem_rdma_command.free_state: 1 is available
  io_rq,        \* rmem_rdma_command.io_rq: the request the command serves
  posted,       \* number of work requests of a command in the send queue
  cqe,          \* number of completions of a command in the completion queue
  wrReq,        \* the request whose transfer was last posted with a command
  rqState,      \* "free" tag, or "started" by blk_mq_start_request
  rqDir,        \* rq_data_dir(rq)
  pc, rq, cmd,  \* of a context: where it is, its request, the command it probes or owns
  armed,        \* the CQ notification is armed (one shot)
  event,        \* a completion event waits for the handler
  hpc,          \* where the completion handler is
  hcmd, hrq,    \* the command it completes and the request it took from it
  state,        \* rdma_session_context.state: "RECEIVED_CHUNKS" or "ERROR"
  faults        \* failures so far, bounded by MaxFaults

cmdVars  == <<free_state, io_rq>>
wireVars == <<posted, cqe, wrReq>>
rqVars   == <<rqState, rqDir>>
ctxVars  == <<pc, rq, cmd>>
cqVars   == <<armed, event, hpc, hcmd, hrq, state>>
vars == <<cmdVars, wireVars, rqVars, ctxVars, cqVars, faults>>

\* init_rdma_command_list for every queue: all commands free, no request.
Init ==
  /\ free_state = [c \in Cmd |-> 1]
  /\ io_rq = [c \in Cmd |-> NULL]
  /\ posted = [c \in Cmd |-> 0]
  /\ cqe = [c \in Cmd |-> 0]
  /\ wrReq = [c \in Cmd |-> NULL]
  /\ rqState = [r \in Req |-> "free"]
  /\ rqDir = [r \in Req |-> "READ"]
  /\ pc = [s \in Contexts |-> "idle"]
  /\ rq = [s \in Contexts |-> NULL]
  /\ cmd = [s \in Contexts |-> NULL]
  /\ armed = TRUE
  /\ event = FALSE
  /\ hpc = "idle"
  /\ hcmd = NULL
  /\ hrq = NULL
  /\ state = "RECEIVED_CHUNKS"
  /\ faults = 0

\* A null io_rq that the handler dereferences stops the machine.
Running == hpc # "oops"

Fault == faults < MaxFaults /\ faults' = faults + 1

-----------------------------------------------------------------------------
(* Submission: .queue_rq                                                   *)

\* blk-mq allocates a tag and calls rmem_queue_rq, which starts the request.
QueueRq(s, r, d) ==
  /\ Running
  /\ pc[s] = "idle" /\ rqState[r] = "free"
  /\ rqState' = [rqState EXCEPT ![r] = "started"]
  /\ rqDir' = [rqDir EXCEPT ![r] = d]
  /\ pc' = [pc EXCEPT ![s] = "check"]
  /\ rq' = [rq EXCEPT ![s] = r]
  /\ UNCHANGED <<cmdVars, wireVars, cmd, cqVars, faults>>

\* post_rdma_read / post_rdma_write: the remote chunk is MAPPED; the search
\* for a command begins at index 0 of the queue's own list.
ChunkMapped(s) ==
  /\ Running
  /\ pc[s] = "check"
  /\ pc' = [pc EXCEPT ![s] = "probe"]
  /\ cmd' = [cmd EXCEPT ![s] = <<rq[s][1], 0>>]
  /\ UNCHANGED <<cmdVars, wireVars, rqVars, rq, cqVars, faults>>

\* The request crosses a chunk, or its chunk is not MAPPED: -1 travels up to
\* .queue_rq.
ChunkNotMapped(s) ==
  /\ Running
  /\ pc[s] = "check"
  /\ Fault
  /\ pc' = [pc EXCEPT ![s] = "fail"]
  /\ UNCHANGED <<cmdVars, wireVars, rqVars, rq, cmd, cqVars>>

\* The wrap-around of the search: index Depth - 1 is followed by 0.
NextCmd(c) == <<c[1], IF c[2] = Depth - 1 THEN 0 ELSE c[2] + 1>>

\* Mutant of Probe: the command is taken without free_state = 0.
ProbeKeepsFree(s) ==
  /\ Running
  /\ pc[s] = "probe" /\ free_state[cmd[s]] = 1
  /\ pc' = [pc EXCEPT ![s] = "fill"]
  /\ UNCHANGED <<cmdVars, wireVars, rqVars, rq, cmd, cqVars, faults>>

\* get_a_free_rdma_cmd_from_rdma_q, one turn of its loop: everything between
\* spin_lock_irqsave and spin_unlock_irqrestore.
Probe(s) ==
  /\ Running
  /\ pc[s] = "probe"
  /\ \/ /\ free_state[cmd[s]] = 1
        /\ free_state' = [free_state EXCEPT ![cmd[s]] = 0]
        /\ pc' = [pc EXCEPT ![s] = "fill"]
        /\ UNCHANGED cmd
     \/ /\ free_state[cmd[s]] # 1
        /\ cmd' = [cmd EXCEPT ![s] = NextCmd(@)]
        /\ UNCHANGED <<free_state, pc>>
  /\ UNCHANGED <<io_rq, wireVars, rqVars, rq, cqVars, faults>>

\* "Reserve this i/o request as responds request", with rkey, address, opcode.
Fill(s) ==
  /\ Running
  /\ pc[s] = "fill"
  /\ io_rq' = [io_rq EXCEPT ![cmd[s]] = rq[s]]
  /\ pc' = [pc EXCEPT ![s] = "post"]
  /\ UNCHANGED <<free_state, wireVars, rqVars, rq, cmd, cqVars, faults>>

\* Mutant of PostSend: an error is returned although the request was posted.
PostSendReturnsError(s) ==
  /\ Running
  /\ pc[s] = "post"
  /\ posted' = [posted EXCEPT ![cmd[s]] = @ + 1]
  /\ wrReq' = [wrReq EXCEPT ![cmd[s]] = rq[s]]
  /\ pc' = [pc EXCEPT ![s] = "fail"]
  /\ UNCHANGED <<cmdVars, cqe, rqVars, rq, cmd, cqVars, faults>>

\* ib_post_send accepts the work request; .queue_rq returns OK.
PostSend(s) ==
  /\ Running
  /\ pc[s] = "post"
  /\ posted' = [posted EXCEPT ![cmd[s]] = @ + 1]
  /\ wrReq' = [wrReq EXCEPT ![cmd[s]] = rq[s]]
  /\ pc' = [pc EXCEPT ![s] = "idle"]
  /\ rq' = [rq EXCEPT ![s] = NULL]
  /\ cmd' = [cmd EXCEPT ![s] = NULL]
  /\ UNCHANGED <<cmdVars, cqe, rqVars, cqVars, faults>>

\* ib_post_send fails: the error returns without freeing the command.
PostSendFails(s) ==
  /\ Running
  /\ pc[s] = "post"
  /\ Fault
  /\ pc' = [pc EXCEPT ![s] = "fail"]
  /\ UNCHANGED <<cmdVars, wireVars, rqVars, rq, cmd, cqVars>>

\* .queue_rq returned -1: blk-mq ends the request with an error.
QueueRqError(s) ==
  /\ Running
  /\ pc[s] = "fail"
  /\ rqState' = [rqState EXCEPT ![rq[s]] = "free"]
  /\ pc' = [pc EXCEPT ![s] = "idle"]
  /\ rq' = [rq EXCEPT ![s] = NULL]
  /\ cmd' = [cmd EXCEPT ![s] = NULL]
  /\ UNCHANGED <<cmdVars, wireVars, rqDir, cqVars, faults>>

-----------------------------------------------------------------------------
(* Completion: the HCA and octopus_cq_event_handler                        *)

\* The HCA finishes a work request; an armed CQ raises one event.
Complete(c) ==
  /\ Running
  /\ posted[c] > 0
  /\ posted' = [posted EXCEPT ![c] = @ - 1]
  /\ cqe' = [cqe EXCEPT ![c] = @ + 1]
  /\ event' = (event \/ armed)
  /\ armed' = FALSE
  /\ UNCHANGED <<cmdVars, wrReq, rqVars, ctxVars, hpc, hcmd, hrq, state, faults>>

\* Mutant of CqEvent: the CQ is drained without being armed again.
CqEventNotRearmed ==
  /\ hpc = "idle" /\ event
  /\ event' = FALSE
  /\ state # "ERROR" /\ hpc' = "poll"
  /\ UNCHANGED <<cmdVars, wireVars, rqVars, ctxVars, armed, hcmd, hrq, state, faults>>

\* Entry of octopus_cq_event_handler: nothing in state ERROR, else the CQ is
\* armed again before the first poll.
CqEvent ==
  /\ hpc = "idle" /\ event
  /\ event' = FALSE
  /\ \/ state = "ERROR" /\ UNCHANGED <<armed, hpc>>
     \/ state # "ERROR" /\ armed' = TRUE /\ hpc' = "poll"
  /\ UNCHANGED <<cmdVars, wireVars, rqVars, ctxVars, hcmd, hrq, state, faults>>

\* ib_poll_cq returns 0: the loop and the handler end.
PollEmpty ==
  /\ hpc = "poll"
  /\ \A c \in Cmd : cqe[c] = 0
  /\ hpc' = "idle"
  /\ UNCHANGED <<cmdVars, wireVars, rqVars, ctxVars, armed, event, hcmd, hrq, state, faults>>

\* ib_poll_cq returns a good completion; rdma_read_done / rdma_write_done take
\* the request from the command and touch it.
PollCq(c) ==
  /\ hpc = "poll"
  /\ cqe[c] > 0
  /\ cqe' = [cqe EXCEPT ![c] = @ - 1]
  /\ hcmd' = c
  /\ hrq' = io_rq[c]
  /\ hpc' = IF io_rq[c] = NULL THEN "oops" ELSE "end"
  /\ UNCHANGED <<cmdVars, posted, wrReq, rqVars, ctxVars, armed, event, state, faults>>

\* Mutant of Err: the resources are collected without state = ERROR.
ErrKeepsState == hpc' = "collect" /\ UNCHANGED state

\* The err label: state = ERROR, then octopus_disconenct_and_collect_resource.
Err == state' = "ERROR" /\ hpc' = "collect"

\* octopus_disconenct_and_collect_resource returns at once when another context
\* has entered it before ("freed" is set); what it frees is not state of this module.
CollectReturns ==
  /\ hpc = "collect"
  /\ hpc' = "idle"
  /\ UNCHANGED <<cmdVars, wireVars, rqVars, ctxVars, armed, event, hcmd, hrq, state, faults>>

\* wc.status is not IB_WC_SUCCESS.
PollBadStatus(c) ==
  /\ hpc = "poll"
  /\ cqe[c] > 0
  /\ Fault
  /\ cqe' = [cqe EXCEPT ![c] = @ - 1]
  /\ Err
  /\ UNCHANGED <<cmdVars, posted, wrReq, rqVars, ctxVars, armed, event, hcmd, hrq>>

\* rdma_read_done: the request has more than one bio, -1 before it is ended.
ReadLeavesOutBio ==
  /\ hpc = "end"
  /\ rqDir[hrq] = "READ"
  /\ Fault
  /\ Err
  /\ UNCHANGED <<cmdVars, wireVars, rqVars, ctxVars, armed, event, hcmd, hrq>>

\* blk_mq_end_request(io_rq, ...): the tag is free from here on.
EndRequest ==
  /\ hpc = "end"
  /\ rqState' = [rqState EXCEPT ![hrq] = "free"]
  /\ hpc' = "free_state"
  /\ UNCHANGED <<cmdVars, wireVars, rqDir, ctxVars, armed, event, hcmd, hrq, state, faults>>

\* Mutant of FreeState: free_state is not set again.
FreeStateForgotten ==
  /\ hpc = "free_state"
  /\ hpc' = "io_rq"
  /\ UNCHANGED <<cmdVars, wireVars, rqVars, ctxVars, armed, event, hcmd, hrq, state, faults>>

\* free_a_rdma_cmd_to_rdma_q, first store, without the queue's lock.
FreeState ==
  /\ hpc = "free_state"
  /\ free_state' = [free_state EXCEPT ![hcmd] = 1]
  /\ hpc' = "io_rq"
  /\ UNCHANGED <<io_rq, wireVars, rqVars, ctxVars, armed, event, hcmd, hrq, state, faults>>

\* free_a_rdma_cmd_to_rdma_q, second store; then the next poll.
FreeIoRq ==
  /\ hpc = "io_rq"
  /\ io_rq' = [io_rq EXCEPT ![hcmd] = NULL]
  /\ hpc' = "poll"
  /\ UNCHANGED <<free_state, wireVars, rqVars, ctxVars, armed, event, hcmd, hrq, state, faults>>

-----------------------------------------------------------------------------
Submit(s) ==
  \/ ChunkMapped(s) \/ ChunkNotMapped(s) \/ Probe(s) \/ Fill(s)
  \/ PostSend(s) \/ PostSendFails(s) \/ QueueRqError(s)

Handler ==
  \/ CqEvent \/ PollEmpty \/ ReadLeavesOutBio \/ EndRequest \/ FreeState \/ FreeIoRq
  \/ CollectReturns
  \/ \E c \in Cmd : PollCq(c) \/ PollBadStatus(c)

Next ==
  \/ \E s \in Contexts, r \in Req, d \in {"READ", "WRITE"} : QueueRq(s, r, d)
  \/ \E s \in Contexts : Submit(s)
  \/ \E c \in Cmd : Complete(c)
  \/ Handler

Spec == Init /\ [][Next]_vars

\* A context inside .queue_rq keeps running (preemption is off), the HCA
\* finishes what was posted, a pending completion event is delivered, and a
\* completion is polled at last because the CQ is first-in first-out.
Fairness ==
  /\ \A s \in Contexts : WF_vars(Submit(s))
  /\ \A c \in Cmd : WF_vars(Complete(c)) /\ SF_vars(PollCq(c))
  /\ WF_vars(Handler)

FairSpec == Spec /\ Fairness

-----------------------------------------------------------------------------
(* Properties                                                              *)

\* The search of get_a_free_rdma_cmd_from_rdma_q stays inside the command list of a
\* queue, and every variable holds a value of its type.
TypeOK ==
  /\ free_state \in [Cmd -> {0, 1}]
  /\ io_rq \in [Cmd -> Req \cup {NULL}]
  /\ posted \in [Cmd -> Nat]
  /\ cqe \in [Cmd -> Nat]
  /\ wrReq \in [Cmd -> Req \cup {NULL}]
  /\ rqState \in [Req -> {"free", "started"}]
  /\ rqDir \in [Req -> {"READ", "WRITE"}]
  /\ pc \in [Contexts -> {"idle", "check", "probe", "fill", "post", "fail"}]
  /\ rq \in [Contexts -> Req \cup {NULL}]
  /\ cmd \in [Contexts -> Cmd \cup {NULL}]
  /\ armed \in BOOLEAN
  /\ event \in BOOLEAN
  /\ hpc \in {"idle", "poll", "end", "free_state", "io_rq", "collect", "oops"}
  /\ hcmd \in Cmd \cup {NULL}
  /\ hrq \in Req \cup {NULL}
  /\ state \in {"RECEIVED_CHUNKS", "ERROR"}
  /\ faults \in 0 .. MaxFaults

\* A context owns a command between taking it and posting it; the handler
\* owns it between polling its completion and setting free_state.
Owns(s, c) == pc[s] \in {"fill", "post"} /\ cmd[s] = c
HandlerOwns(c) == hpc \in {"end", "free_state"} /\ hcmd = c

\* The command's work request is in the send queue or its completion unpolled.
InFlight(c) == posted[c] + cqe[c] > 0

(***************************************************************************)
(* A command, and with it its DMA buffer and its place in the send queue,  *)
(* has one user at a time, although free_a_rdma_cmd_to_rdma_q writes       *)
(* free_state without the lock under which get_a_free_rdma_cmd_from_rdma_q *)
(* tests it: at most one work request of it is outstanding (so the send    *)
(* queue, created with Depth entries per queue, never overflows), no       *)
(* context owns it meanwhile, and no two contexts, nor a context and the   *)
(* handler, own it together.                                               *)
(***************************************************************************)
CommandExclusive ==
  \A c \in Cmd :
    /\ posted[c] + cqe[c] <= 1
    /\ InFlight(c) => free_state[c] = 0 /\ ~HandlerOwns(c)
    /\ \A s \in Contexts : Owns(s, c) =>
         /\ free_state[c] = 0 /\ ~InFlight(c) /\ ~HandlerOwns(c)
         /\ \A t \in Contexts : Owns(t, c) => s = t

(***************************************************************************)
(* A request is ended once, by the completion of its own transfer: the     *)
(* request a command in flight points to is the one it was posted for (or  *)
(* the pointer was cleared, see FreeIsConcurrentSafe), that request is     *)
(* still started, no other command in flight and no context works for it,  *)
(* and the request the handler is about to end is in the same position.    *)
(***************************************************************************)
EndsOwnRequest ==
  /\ \A c \in Cmd : InFlight(c) =>
       /\ io_rq[c] \in {wrReq[c], NULL}
       /\ wrReq[c] \in Req /\ rqState[wrReq[c]] = "started"
       /\ \A d \in Cmd : InFlight(d) /\ wrReq[d] = wrReq[c] => c = d
       /\ \A s \in Contexts : rq[s] # wrReq[c]
  /\ hpc = "end" =>
       /\ hrq \in Req /\ rqState[hrq] = "started"
       /\ \A c \in Cmd : InFlight(c) => wrReq[c] # hrq
       /\ \A s \in Contexts : rq[s] # hrq

(***************************************************************************)
(* No completion is stranded: when the handler of octopus_cq_event_handler *)
(* has returned and the session is not in ERROR, an unpolled completion    *)
(* has an event pending.  It rests on arming the CQ before draining it.    *)
(***************************************************************************)
NoStrandedCompletion ==
  hpc = "idle" /\ state # "ERROR" /\ (\E c \in Cmd : cqe[c] > 0) => event

\* A context inside .queue_rq works for a started request of its own, and
\* once it has filled a command the command points to that request.
ContextInv ==
  \A s \in Contexts :
    /\ pc[s] = "idle" => rq[s] = NULL
    /\ pc[s] # "idle" => rq[s] \in Req /\ rqState[rq[s]] = "started"
    /\ pc[s] \in {"probe", "fill", "post"} => cmd[s] \in Cmd
    /\ pc[s] = "post" => io_rq[cmd[s]] \in {rq[s], NULL}
    /\ \A t \in Contexts : rq[s] = rq[t] /\ rq[s] # NULL => s = t

\* What the handler relies on: its command is taken, and the CQ is armed or
\* an event is pending, with nothing unpolled when it is armed and idle.
HandlerInv ==
  /\ hpc \in {"end", "free_state"} => free_state[hcmd] = 0
  /\ hpc \in {"end", "free_state", "io_rq"} => hcmd \in Cmd
  /\ hpc = "collect" => state = "ERROR"
  /\ state # "ERROR" => armed \/ event
  /\ state # "ERROR" /\ hpc = "idle" /\ armed => \A c \in Cmd : cqe[c] = 0

(***************************************************************************)
(* The inductive invariant: command ownership, request ownership and the   *)
(* arming discipline of the CQ, none of which is inductive by itself.      *)
(***************************************************************************)
IInv == TypeOK /\ CommandExclusive /\ EndsOwnRequest /\ ContextInv /\ HandlerInv

(***************************************************************************)
(* Every request that .queue_rq started is ended, as long as the session   *)
(* does not fail and no null request is dereferenced: in particular the    *)
(* endless search of get_a_free_rdma_cmd_from_rdma_q finds a command until *)
(* there were as many failures, each of which may lose a command, as the   *)
(* queue has commands.                                                     *)
(***************************************************************************)
EveryRequestEnds ==
  \A r \in Req :
    rqState[r] = "started" ~> rqState[r] = "free" \/ state = "ERROR" \/ ~Running \/ faults >= Depth

(***************************************************************************)
(* "Free is a concurrent safe procedure": freeing a command does not touch *)
(* the command of the next user, so a command in flight keeps its request. *)
(***************************************************************************)
FreeIsConcurrentSafe == \A c \in Cmd : InFlight(c) => io_rq[c] # NULL

(***************************************************************************)
(* A context that searches for a command comes back from .queue_rq, with   *)
(* a command or with "No available rmem_rdma_command in this rdma_queue".  *)
(***************************************************************************)
QueueRqReturns == \A s \in Contexts : pc[s] = "probe" ~> pc[s] # "probe"
=============================================================================
