---------------------------- MODULE BlockDriver ----------------------------
(***************************************************************************)
(* The block device driver without RDMA (block_device/register_disk.c):    *)
(* insmod registers a major number, a tag set, a request queue and a disk; *)
(* rmem_queue_rq starts a request and completes it; rmmod takes everything *)
(* apart.  A step of insmod that fails returns at once: nothing is undone. *)
(*                                                                         *)
(* The kernel is modelled from how the driver uses it: a module whose disk *)
(* is open is not removed (.owner = THIS_MODULE), add_disk reads the       *)
(* partition table before it returns, and blk_cleanup_queue waits for the  *)
(* requests that are still queued or started.                              *)
(***************************************************************************)
EXTENDS Naturals

CONSTANTS
  Requests,  \* requests of the tag set; RMEM_QUEUE_DEPTH per queue in the code
  MaxUsers   \* bound on how often the disk is open at a time

ASSUME UsersAssumption == MaxUsers \in Nat

VARIABLES
  pc,     \* where insmod or rmmod is
  held,   \* what the module has from the kernel
  live,   \* the disk is in the kernel's list: between add_disk and del_gendisk
  users,  \* open file handles on the disk
  rq      \* rq[r]: "idle", "queued" by the block layer, "started" by the driver

vars == <<pc, held, live, users, rq>>

Init ==
  /\ pc = "start" /\ held = {} /\ live = FALSE /\ users = 0
  /\ rq = [r \in Requests |-> "idle"]

Idle == \A r \in Requests : rq[r] = "idle"

-----------------------------------------------------------------------------
(* insmod: RMEM_init_module, RMEM_create_device                            *)

\* A step acquires its resource and goes on, or returns an error; the kernel
\* then unloads the module, without calling its cleanup.
Acquire(from, resource, to) ==
  /\ pc = from
  /\ \/ held' = held \cup {resource} /\ pc' = to
     \/ UNCHANGED held /\ pc' = "failed"
  /\ UNCHANGED <<live, users, rq>>

RegisterBlkdev == Acquire("start", "major", "control")

\* The controller is a static structure: init_rmem_device_control cannot fail.
InitControl ==
  /\ pc = "control" /\ pc' = "tag_set"
  /\ UNCHANGED <<held, live, users, rq>>

InitTagSet == Acquire("tag_set", "tags", "queue")

InitQueue == Acquire("queue", "queue", "gendisk")

\* Mutant: the disk is added before the capacity and the queue are known good.
InitGendiskEarly ==
  /\ pc = "gendisk"
  /\ \/ held' = held \cup {"disk"} /\ pc' = "add_disk" /\ live' = TRUE
     \/ pc' = "failed" /\ live' = TRUE /\ UNCHANGED held
  /\ UNCHANGED <<users, rq>>

\* alloc_disk_node, the fields of the disk, and add_disk last of all.
InitGendisk ==
  /\ pc = "gendisk"
  /\ \/ held' = held \cup {"disk"} /\ pc' = "add_disk" /\ live' = TRUE
     \/ pc' = "failed" /\ UNCHANGED <<held, live>>
  /\ UNCHANGED <<users, rq>>

\* add_disk has issued its reads of the partition table, as many as it takes,
ScanIssued ==
  /\ pc = "add_disk" /\ pc' = "scan"
  /\ UNCHANGED <<held, live, users, rq>>

\* and returns when they have ended.
AddDiskReturns ==
  /\ pc = "scan" /\ Idle
  /\ pc' = "loaded"
  /\ UNCHANGED <<held, live, users, rq>>

-----------------------------------------------------------------------------
(* The disk in use                                                         *)

OpenDisk ==
  /\ live /\ pc = "loaded" /\ users < MaxUsers
  /\ users' = users + 1
  /\ UNCHANGED <<pc, held, live, rq>>

\* Reads ahead may be under way when the last user closes the disk.
ReleaseDisk ==
  /\ users > 0
  /\ users' = users - 1
  /\ UNCHANGED <<pc, held, live, rq>>

Submit(r) ==
  /\ live /\ (users > 0 \/ pc = "add_disk")
  /\ rq[r] = "idle" /\ rq' = [rq EXCEPT ![r] = "queued"]
  /\ UNCHANGED <<pc, held, live, users>>

\* rmem_queue_rq: blk_mq_start_request,
StartRequest(r) ==
  /\ rq[r] = "queued" /\ rq' = [rq EXCEPT ![r] = "started"]
  /\ UNCHANGED <<pc, held, live, users>>

\* Mutant: a request that is started and left to a device that is not there.
CompleteRequestNot(r) ==
  /\ rq[r] = "started" /\ UNCHANGED vars

\* ... and blk_mq_complete_request in the same call, no data moved.
CompleteRequest(r) ==
  /\ rq[r] = "started" /\ rq' = [rq EXCEPT ![r] = "idle"]
  /\ UNCHANGED <<pc, held, live, users>>

-----------------------------------------------------------------------------
(* rmmod: RMEM_cleanup_module                                              *)

DelGendisk ==
  /\ pc = "loaded" /\ users = 0
  /\ pc' = "cleanup_queue" /\ live' = FALSE
  /\ UNCHANGED <<held, users, rq>>

\* Mutant: the queue is released under requests that are not ended.
CleanupQueueNoDrain ==
  /\ pc = "cleanup_queue" /\ pc' = "free_tags" /\ held' = held \ {"queue"}
  /\ UNCHANGED <<live, users, rq>>

CleanupQueue ==
  /\ pc = "cleanup_queue" /\ Idle
  /\ pc' = "free_tags" /\ held' = held \ {"queue"}
  /\ UNCHANGED <<live, users, rq>>

FreeTagSet ==
  /\ pc = "free_tags" /\ pc' = "put_disk" /\ held' = held \ {"tags"}
  /\ UNCHANGED <<live, users, rq>>

PutDisk ==
  /\ pc = "put_disk" /\ pc' = "unregister" /\ held' = held \ {"disk"}
  /\ UNCHANGED <<live, users, rq>>

\* Mutant: the major number is kept.
UnregisterNot ==
  /\ pc = "unregister" /\ pc' = "unloaded"
  /\ UNCHANGED <<held, live, users, rq>>

Unregister ==
  /\ pc = "unregister" /\ pc' = "unloaded" /\ held' = held \ {"major"}
  /\ UNCHANGED <<live, users, rq>>

-----------------------------------------------------------------------------
Insmod == RegisterBlkdev \/ InitControl \/ InitTagSet \/ InitQueue \/ InitGendisk \/ ScanIssued
            \/ AddDiskReturns

Rmmod == CleanupQueue \/ FreeTagSet \/ PutDisk \/ Unregister

Serve(r) == StartRequest(r) \/ CompleteRequest(r)

Next ==
  \/ Insmod \/ OpenDisk \/ ReleaseDisk \/ DelGendisk \/ Rmmod
  \/ \E r \in Requests : Submit(r) \/ Serve(r)

Spec == Init /\ [][Next]_vars

\* insmod and rmmod run on, and the block layer runs its queues.
Fairness == WF_vars(Insmod) /\ WF_vars(Rmmod) /\ \A r \in Requests : WF_vars(Serve(r))

FairSpec == Spec /\ Fairness

-----------------------------------------------------------------------------
(* Properties                                                              *)

Resources == {"major", "tags", "queue", "disk"}

\* Each variable is of its type.
TypeOK ==
  /\ pc \in {"start", "control", "tag_set", "queue", "gendisk", "add_disk", "scan", "loaded", "failed",
            "cleanup_queue", "free_tags", "put_disk", "unregister", "unloaded"}
  /\ held \in SUBSET Resources /\ live \in BOOLEAN /\ users \in 0..MaxUsers
  /\ rq \in [Requests -> {"idle", "queued", "started"}]

\* When the module is out of the kernel, after rmmod or after an insmod that
\* failed at any step, no disk leads to its code and no request is in it.
UnloadedCodeUnused == pc \in {"failed", "unloaded"} => ~live /\ users = 0 /\ Idle

\* rmmod gives back all that insmod took.
UnloadReleasesAll == pc = "unloaded" => held = {}

\* The disk is live, or requests are unfinished, only while the tag set, the
\* queue and the disk structure they use are held.
ServedWhileHeld == live \/ ~Idle => {"tags", "queue", "disk"} \subseteq held

\* The stages at which each resource is held.
MajorAt == {"control", "tag_set", "queue", "gendisk", "add_disk", "scan", "loaded",
            "cleanup_queue", "free_tags", "put_disk", "unregister"}
TagsAt  == {"queue", "gendisk", "add_disk", "scan", "loaded", "cleanup_queue", "free_tags"}
QueueAt == {"gendisk", "add_disk", "scan", "loaded", "cleanup_queue"}
DiskAt  == {"add_disk", "scan", "loaded", "cleanup_queue", "free_tags", "put_disk"}

\* The inductive invariant: what RMEM_create_device and RMEM_cleanup_module hold
\* is known from where they are, the disk is live from add_disk to del_gendisk,
\* and requests are left only until blk_cleanup_queue has returned.
IInv ==
  /\ TypeOK
  /\ live <=> pc \in {"add_disk", "scan", "loaded"}
  /\ users > 0 => pc = "loaded"
  /\ \A r \in Requests : rq[r] # "idle" => pc \in {"add_disk", "scan", "loaded", "cleanup_queue"}
  /\ pc # "failed" =>
       /\ ("major" \in held) <=> (pc \in MajorAt)
       /\ ("tags"  \in held) <=> (pc \in TagsAt)
       /\ ("queue" \in held) <=> (pc \in QueueAt)
       /\ ("disk"  \in held) <=> (pc \in DiskAt)

\* insmod and rmmod end, whatever the disk is being used for meanwhile.
LoadEnds == <>(pc \in {"loaded", "failed"})
UnloadEnds == pc = "cleanup_queue" ~> pc = "unloaded"

\* The driver implements the disk service: it is backed by tag set and queue,
\* open while live, and works on the requests that are not idle.
Service == INSTANCE DiskService WITH
  backed <- {"tags", "queue"} \subseteq held,
  open   <- live,
  flight <- {r \in Requests : rq[r] # "idle"}

\* The service, with every request ended in the end.
ImplementsService == Service!FairSpec
=============================================================================
