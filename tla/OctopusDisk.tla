---------------------------- MODULE OctopusDisk ----------------------------
(***************************************************************************)
(* The Octopus kernel module as a whole: the disk of register_disk.c over  *)
(* the RDMA session of rdma_client.c.  Session and RdmaQueue have the two  *)
(* parts in detail; this module has what neither of them can show, the     *)
(* disk and its requests on one side while the other side brings up or     *)
(* frees the RDMA queues that serve them.  It is compared with             *)
(* DiskService, which the driver without RDMA (BlockDriver) implements.    *)
(*                                                                         *)
(* Faults selects what may happen besides:                                 *)
(*   "connect"    octopus_RDMA_connect fails before the disk is there      *)
(*   "driver"     the major number, tag set or request queue is refused    *)
(*   "gendisk"    alloc_disk_node fails                                    *)
(*   "transfer"   an RDMA transfer fails                                   *)
(*   "readahead"  the last user closes the disk while a request is under   *)
(*                way                                                      *)
(* hit records which of them have happened.                                *)
(***************************************************************************)
EXTENDS Naturals

CONSTANTS
  Faults,
  Requests,  \* requests of the tag set
  MaxUsers   \* bound on how often the disk is open at a time

VARIABLES
  pc,          \* where insmod or rmmod is; "oops" after a wild access
  held,        \* what the module has: "session" (id, QP, CQ), "cmds" (the RDMA
               \* queues and the chunk list), "major", "tags", "queue", "disk"
  live, users, \* disk added; open handles, each of which pins the module
  rq,          \* rq[r]: "idle", "queued" by the block layer, "posted" to the QP
  state,       \* of the session: "ok", "ERROR" or "CM_DISCONNECT"
  link,        \* "none", "up", "closing", "closed"
  cqpc,        \* the completion handler in octopus_disconenct_and_collect_resource
  freed,       \* rdma_session.freed
  hit

vars == <<pc, held, live, users, rq, state, link, cqpc, freed, hit>>

sessionVars == <<state, link, cqpc, freed>>

Fault(f) == f \in Faults /\ hit' = hit \cup {f}

Init ==
  /\ pc = "start" /\ held = {} /\ live = FALSE /\ users = 0
  /\ rq = [r \in Requests |-> "idle"]
  /\ state = "ok" /\ link = "none" /\ cqpc = "idle" /\ freed = FALSE /\ hit = {}

Idle == \A r \in Requests : rq[r] = "idle"

-----------------------------------------------------------------------------
(* insmod: octopus_RDMA_connect, rmem_init_disk_driver                     *)

\* The session (module Session), then the disk.  An error leaves what there is.
ConnectSession ==
  /\ pc = "start"
  /\ \/ /\ held' = {"session", "cmds"} /\ link' = "up" /\ pc' = "major" /\ UNCHANGED hit
     \/ /\ Fault("connect") /\ pc' = "failed"
        /\ held' \in {{"session"}, {"session", "cmds"}} /\ link' \in {"none", "up"}
  /\ UNCHANGED <<live, users, rq, state, cqpc, freed>>

\* A step of rmem_init_disk_driver or RMEM_create_device: its error goes up to
\* insmod, through a label that says "free resource" and frees nothing.
Acquire(from, resource, to) ==
  /\ pc = from
  /\ \/ held' = held \cup {resource} /\ pc' = to /\ UNCHANGED hit
     \/ Fault("driver") /\ UNCHANGED held /\ pc' = "failed"
  /\ UNCHANGED <<live, users, rq, sessionVars>>

RegisterBlkdev == Acquire("major", "major", "tag_set")

InitTagSet == Acquire("tag_set", "tags", "queue")

\* blk_mq_init_queue calls rmem_init_hctx, which gives the RDMA queue of the
\* session to the dispatch queue as its driver_data.
InitQueue == Acquire("queue", "queue", "gendisk")

\* On failure the error path deletes the disk that was not allocated.
InitGendisk ==
  /\ pc = "gendisk"
  /\ \/ held' = held \cup {"disk"} /\ live' = TRUE /\ pc' = "add_disk" /\ UNCHANGED hit
     \/ Fault("gendisk") /\ pc' = "oops" /\ UNCHANGED <<held, live>>
  /\ UNCHANGED <<users, rq, sessionVars>>

\* add_disk reads the partition table, and returns when it has.
ScanIssued ==
  /\ pc = "add_disk" /\ pc' = "scan"
  /\ UNCHANGED <<held, live, users, rq, sessionVars, hit>>

AddDiskReturns ==
  /\ pc = "scan" /\ Idle /\ pc' = "loaded"
  /\ UNCHANGED <<held, live, users, rq, sessionVars, hit>>

-----------------------------------------------------------------------------
(* The disk in use                                                         *)

OpenDisk ==
  /\ pc = "loaded" /\ live /\ users < MaxUsers
  /\ users' = users + 1
  /\ UNCHANGED <<pc, held, live, rq, sessionVars, hit>>

ReleaseDisk ==
  /\ users > 0 /\ users' = users - 1
  /\ IF users = 1 /\ ~Idle THEN Fault("readahead") ELSE UNCHANGED hit
  /\ UNCHANGED <<pc, held, live, rq, sessionVars>>

Submit(r) ==
  /\ live /\ (users > 0 \/ pc = "add_disk")
  /\ rq[r] = "idle" /\ rq' = [rq EXCEPT ![r] = "queued"]
  /\ UNCHANGED <<pc, held, live, users, sessionVars, hit>>

\* rmem_queue_rq takes the RDMA queue from hctx->driver_data: memory that
\* octopus_free_buffers may have freed.  A posted request stays so until a
\* completion ends it (module RdmaQueue).
QueueRq(r) ==
  /\ rq[r] = "queued"
  /\ IF "cmds" \in held THEN rq' = [rq EXCEPT ![r] = "posted"] /\ UNCHANGED pc
                        ELSE pc' = "oops" /\ UNCHANGED rq
  /\ UNCHANGED <<held, live, users, sessionVars, hit>>

\* Mutant: the handler returns without ending the request.
TransferDoneReturns(r) == rq[r] = "posted" /\ link = "up" /\ UNCHANGED vars

\* octopus_cq_event_handler ends the request of a transfer that succeeded.
TransferDone(r) ==
  /\ rq[r] = "posted" /\ link = "up" /\ state # "ERROR"
  /\ rq' = [rq EXCEPT ![r] = "idle"]
  /\ UNCHANGED <<pc, held, live, users, sessionVars, hit>>

\* A transfer that failed is not ended; the handler stores ERROR, after which it
\* handles no completion, and calls octopus_disconenct_and_collect_resource.
TransferFails(r) ==
  /\ rq[r] = "posted" /\ link = "up" /\ state # "ERROR" /\ cqpc = "idle"
  /\ Fault("transfer")
  /\ state' = "ERROR" /\ cqpc' = "collect"
  /\ UNCHANGED <<pc, held, live, users, rq, link, freed>>

\* Requests posted to a QP that is being disconnected are flushed: the same.
Flushed ==
  /\ link \in {"closing", "closed"} /\ state # "ERROR" /\ cqpc = "idle" /\ "session" \in held
  /\ \E r \in Requests : rq[r] = "posted"
  /\ state' = "ERROR" /\ cqpc' = "collect"
  /\ UNCHANGED <<pc, held, live, users, rq, link, freed, hit>>

\* Mutant: the event is only printed.
TimewaitExitPrinted ==
  /\ link = "closing" /\ link' = "closed"
  /\ UNCHANGED <<pc, held, live, users, rq, state, cqpc, freed, hit>>

\* TIMEWAIT_EXIT (module Session)
TimewaitExit ==
  /\ link = "closing" /\ link' = "closed" /\ state' = "CM_DISCONNECT"
  /\ UNCHANGED <<pc, held, live, users, rq, cqpc, freed, hit>>

-----------------------------------------------------------------------------
(* octopus_disconenct_and_collect_resource, called by the completion       *)
(* handler or by rmmod: "collect", "wait", "free_buffers", "free_rdma" and *)
(* then done.  Testing and setting freed is one step here, two in Session. *)

Collect(p, next, done) ==
  \/ p = "collect" /\ freed /\ next = done /\ UNCHANGED <<held, state, link, freed>>
  \/ /\ p = "collect" /\ ~freed /\ freed' = TRUE
     /\ IF state = "CM_DISCONNECT"
        THEN next = "free_buffers" /\ UNCHANGED link
        ELSE next = "wait" /\ link' = IF link = "up" THEN "closing" ELSE link
     /\ UNCHANGED <<held, state>>
  \/ p = "wait" /\ state = "CM_DISCONNECT" /\ next = "free_buffers"
     /\ UNCHANGED <<held, state, link, freed>>
  \/ p = "free_buffers" /\ next = "free_rdma" /\ held' = held \ {"cmds"}
     /\ UNCHANGED <<state, link, freed>>
  \/ p = "free_rdma" /\ next = done /\ held' = held \ {"session"}
     /\ UNCHANGED <<state, link, freed>>

\* The completion handler collects.
HandlerCollects ==
  /\ \E next \in {"wait", "free_buffers", "free_rdma", "idle"} :
       Collect(cqpc, next, "idle") /\ cqpc' = next
  /\ UNCHANGED <<pc, live, users, rq, hit>>

\* Mutant: without .owner, open handles do not pin the module.
RmmodUnpinned ==
  /\ pc = "loaded" /\ pc' = "collect"
  /\ UNCHANGED <<held, live, users, rq, sessionVars, hit>>

\* rmmod: the session first, the disk after it.
Rmmod ==
  /\ pc = "loaded" /\ users = 0 /\ pc' = "collect"
  /\ UNCHANGED <<held, live, users, rq, sessionVars, hit>>

RmmodCollects ==
  /\ \E next \in {"wait", "free_buffers", "free_rdma", "del_gendisk"} :
       Collect(pc, next, "del_gendisk") /\ pc' = next
  /\ UNCHANGED <<live, users, rq, cqpc, hit>>

-----------------------------------------------------------------------------
(* octopus_free_block_devicce                                              *)

DelGendisk ==
  /\ pc = "del_gendisk" /\ pc' = "cleanup_queue" /\ live' = FALSE
  /\ UNCHANGED <<held, users, rq, sessionVars, hit>>

CleanupQueue ==
  /\ pc = "cleanup_queue" /\ Idle
  /\ pc' = "free_tags" /\ held' = held \ {"queue"}
  /\ UNCHANGED <<live, users, rq, sessionVars, hit>>

\* blk_mq_free_tag_set, put_disk, unregister_blkdev
FreeTagSet ==
  /\ pc = "free_tags" /\ pc' = "unloaded" /\ held' = held \ {"tags", "disk", "major"}
  /\ UNCHANGED <<live, users, rq, sessionVars, hit>>

-----------------------------------------------------------------------------
Insmod ==
  ConnectSession \/ RegisterBlkdev \/ InitTagSet \/ InitQueue \/ InitGendisk \/ ScanIssued
    \/ AddDiskReturns

Unload == RmmodCollects \/ DelGendisk \/ CleanupQueue \/ FreeTagSet

Handler == Flushed \/ TimewaitExit \/ HandlerCollects

Serve(r) == QueueRq(r) \/ TransferDone(r)

Next ==
  /\ pc # "oops"
  /\ \/ Insmod \/ OpenDisk \/ ReleaseDisk \/ Handler \/ Rmmod \/ Unload
     \/ \E r \in Requests : Submit(r) \/ Serve(r) \/ TransferFails(r)

Spec == Init /\ [][Next]_vars

\* insmod, rmmod, the handlers and the queues run on, without a fault.
Runs(A) == pc # "oops" /\ A /\ hit' = hit

Fairness ==
  /\ WF_vars(Runs(Insmod)) /\ WF_vars(Runs(Unload)) /\ WF_vars(Runs(Handler))
  /\ \A r \in Requests : WF_vars(Runs(Serve(r)))

FairSpec == Spec /\ Fairness

-----------------------------------------------------------------------------
(* Properties                                                              *)

\* Each variable is of its type.
TypeOK ==
  /\ pc \in {"start", "major", "tag_set", "queue", "gendisk", "add_disk", "scan", "loaded",
            "failed", "collect", "wait", "free_buffers", "free_rdma", "del_gendisk",
            "cleanup_queue", "free_tags", "unloaded", "oops"}
  /\ held \subseteq {"session", "cmds", "major", "tags", "queue", "disk"}
  /\ live \in BOOLEAN /\ users \in 0..MaxUsers
  /\ rq \in [Requests -> {"idle", "queued", "posted"}]
  /\ state \in {"ok", "ERROR", "CM_DISCONNECT"} /\ link \in {"none", "up", "closing", "closed"}
  /\ cqpc \in {"idle", "collect", "wait", "free_buffers", "free_rdma"}
  /\ freed \in BOOLEAN /\ hit \subseteq Faults

\* The faults that take the RDMA queues from under a disk in use.
Untimely == {"transfer", "readahead"}

\* rmem_queue_rq finds its RDMA queue, unless a failed transfer has freed it
\* under an open disk, or a request outlived the last user.
NoWildAccess == pc = "oops" => hit \cap (Untimely \cup {"gendisk"}) # {}

\* A failed insmod leaves no disk behind through which requests reach code that
\* is no longer there.
FailedLoadInvisible == pc = "failed" => ~live /\ Idle

\* After rmmod nothing of the module is left: nothing held, no disk, no request
\* and no handler still collecting.
UnloadComplete ==
  pc = "unloaded" => ~live /\ Idle /\ (hit \cap Untimely = {} => held = {} /\ cqpc = "idle")

\* Every request ends, unless a transfer failed or was cut off by rmmod.
RequestsEnd ==
  \A r \in Requests :
    rq[r] # "idle" ~> (rq[r] = "idle" \/ hit \cap (Untimely \cup {"gendisk"}) # {})

\* rmmod finishes, unless a transfer failed or was cut off by it.
RmmodEnds == pc = "collect" ~> (pc = "unloaded" \/ hit \cap Untimely # {})

\* The service: backed by the RDMA queues, the tag set and the queue; open while
\* the disk is live and the module can be pinned.
Service == INSTANCE DiskService WITH
  backed <- {"cmds", "tags", "queue"} \subseteq held,
  open   <- live /\ pc \in {"add_disk", "scan", "loaded"},
  flight <- {r \in Requests : rq[r] # "idle"}

\* The module implements the disk service until a transfer fails or a request
\* outlives the last user: from then on the service may lose what backs it.
ImplementsServiceUntilFault ==
  Service!Init /\ [][Service!Next \/ hit' \cap Untimely # {}]_(Service!vars)
=============================================================================
