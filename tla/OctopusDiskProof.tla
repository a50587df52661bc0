-------------------------- MODULE OctopusDiskProof --------------------------
(***************************************************************************)
(* Proofs about OctopusDisk, for every set of faults, any number of        *)
(* requests and any number of users: until a transfer fails or a request   *)
(* outlives the last user, the Octopus module is a disk as DiskService     *)
(* describes it, and what rmem_queue_rq follows is there.                  *)
(***************************************************************************)
EXTENDS OctopusDisk, TLAPS

-----------------------------------------------------------------------------
(* The inductive invariant                                                 *)

\* No fault has taken the RDMA queues from under a disk in use.
Timely == hit \cap Untimely = {}

Types ==
  /\ users \in Nat /\ live \in BOOLEAN /\ freed \in BOOLEAN
  /\ rq \in [Requests -> {"idle", "queued", "posted"}]

\* The stages of rmmod, the session first and the disk after it.
Collecting == {"collect", "wait", "free_buffers", "free_rdma"}
Removing   == {"del_gendisk", "cleanup_queue", "free_tags", "unloaded"}

\* Whatever fails: the disk is live between InitGendisk and DelGendisk, only a loaded module is
\* open, and before and after that no request is under way.
Lifetime ==
  /\ pc # "oops" => (live <=> pc \in {"add_disk", "scan", "loaded", "del_gendisk"} \cup Collecting)
  /\ users > 0 => pc \in {"loaded", "oops"}
  /\ pc \notin {"add_disk", "scan", "loaded", "del_gendisk", "cleanup_queue", "oops"} \cup Collecting => Idle

\* As long as the faults are timely: a request is under way only for a user or for the scan of
\* add_disk, nobody but rmmod collects, and held follows the stages of insmod and rmmod.
Orderly ==
  /\ ~Idle => users > 0 \/ pc \in {"add_disk", "scan"}
  /\ cqpc = "idle"
  /\ pc \notin {"wait", "free_buffers", "free_rdma", "oops"} \cup Removing =>
       ~freed /\ link \in {"none", "up"} /\ state = "ok"
  /\ pc \in {"major", "tag_set", "queue"} => "cmds" \in held /\ "queue" \notin held
  /\ pc \in {"start", "failed"} => "queue" \notin held
  /\ pc = "queue" => "tags" \in held
  /\ pc \in {"gendisk", "add_disk", "scan", "loaded", "collect", "wait", "free_buffers"} =>
       {"cmds", "tags", "queue"} \subseteq held
  /\ pc \in {"free_rdma"} \cup Removing => "cmds" \notin held
  /\ pc \in Removing => "session" \notin held
  /\ pc \in {"free_tags", "unloaded"} => "queue" \notin held
  /\ held \subseteq {"session", "cmds", "major", "tags", "queue", "disk"}
  /\ pc = "unloaded" => held = {}
  /\ pc = "oops" => "gendisk" \in hit

IInv == Types /\ Lifetime /\ (Timely => Orderly)

LEMMA InitHolds == Init => IInv
  <1> SUFFICES ASSUME Init PROVE IInv
    OBVIOUS
  <1>1. Idle
    BY DEF Init, Idle
  <1>2. live \in BOOLEAN /\ freed \in BOOLEAN /\ ~live /\ ~freed
    BY Zenon DEF Init
  <1> QED
    BY <1>1, <1>2 DEF Init, IInv, Types, Lifetime, Orderly, Collecting, Removing

LEMMA InsmodKeeps == IInv /\ Insmod => IInv'
  <1> SUFFICES ASSUME IInv, Insmod PROVE IInv'
    OBVIOUS
  <1> USE DEF IInv, Types, Lifetime, Orderly, Collecting, Removing, Timely, Untimely, Fault, sessionVars
  <1>1. Idle' = Idle
    BY DEF Insmod, ConnectSession, RegisterBlkdev, InitTagSet, InitQueue, Acquire, InitGendisk, ScanIssued,
           AddDiskReturns, Idle
  <1>2. CASE ConnectSession
    BY <1>1, <1>2 DEF ConnectSession
  <1>3. CASE RegisterBlkdev
    BY <1>1, <1>3 DEF RegisterBlkdev, Acquire
  <1>4. CASE InitTagSet
    BY <1>1, <1>4 DEF InitTagSet, Acquire
  <1>5. CASE InitQueue
    BY <1>1, <1>5 DEF InitQueue, Acquire
  <1>6. CASE InitGendisk
    BY <1>1, <1>6 DEF InitGendisk
  <1>7. CASE ScanIssued
    BY <1>1, <1>7 DEF ScanIssued
  <1>8. CASE AddDiskReturns
    BY <1>1, <1>8 DEF AddDiskReturns
  <1> QED
    BY <1>2, <1>3, <1>4, <1>5, <1>6, <1>7, <1>8 DEF Insmod

LEMMA UsersKeep == IInv /\ (OpenDisk \/ ReleaseDisk) => IInv'
  <1> SUFFICES ASSUME IInv, OpenDisk \/ ReleaseDisk PROVE IInv'
    OBVIOUS
  <1> USE DEF IInv, Types, Lifetime, Orderly, Collecting, Removing, Timely, Untimely, Fault, sessionVars
  <1>1. Idle' = Idle
    BY DEF OpenDisk, ReleaseDisk, Idle
  <1>2. CASE OpenDisk
    BY <1>1, <1>2 DEF OpenDisk
  <1>3. CASE ReleaseDisk
    BY <1>1, <1>3 DEF ReleaseDisk
  <1> QED
    BY <1>2, <1>3

LEMMA RequestsKeep ==
  ASSUME IInv, pc # "oops", NEW r \in Requests, Submit(r) \/ Serve(r) \/ TransferFails(r)
  PROVE  IInv'
  <1> USE DEF IInv, Types, Lifetime, Orderly, Collecting, Removing, Timely, Untimely, Fault, sessionVars
  <1>1. CASE Submit(r)
    <2>1. rq' \in [Requests -> {"idle", "queued", "posted"}]
      BY <1>1 DEF Submit
    <2>2. users > 0 \/ pc = "add_disk"
      BY <1>1 DEF Submit
    <2> QED
      BY <1>1, <2>1, <2>2 DEF Submit
  <1>2. CASE QueueRq(r)
    <2>1. rq' \in [Requests -> {"idle", "queued", "posted"}]
      BY <1>2 DEF QueueRq
    <2>2. ~Idle /\ Idle' = FALSE
      BY <1>2 DEF QueueRq, Idle
    <2>3. Timely => "cmds" \in held
      BY <2>2
    <2> QED
      BY <1>2, <2>1, <2>2, <2>3 DEF QueueRq
  <1>3. CASE TransferDone(r)
    <2>1. rq' \in [Requests -> {"idle", "queued", "posted"}]
      BY <1>3 DEF TransferDone
    <2>2. ~Idle
      BY <1>3 DEF TransferDone, Idle
    <2> QED
      BY <1>3, <2>1, <2>2 DEF TransferDone
  <1>4. CASE TransferFails(r)
    <2>1. Idle' = Idle
      BY <1>4 DEF TransferFails, Idle
    <2> QED
      BY <1>4, <2>1 DEF TransferFails
  <1> QED
    BY <1>1, <1>2, <1>3, <1>4 DEF Serve

LEMMA HandlerKeeps == IInv /\ pc # "oops" /\ Handler => IInv'
  <1> SUFFICES ASSUME IInv, pc # "oops", Handler PROVE IInv'
    OBVIOUS
  <1> USE DEF IInv, Types, Lifetime, Orderly, Collecting, Removing, Timely, Untimely, sessionVars
  <1>1. CASE Flushed
    <2>1. Idle' = Idle /\ ~Idle
      BY <1>1 DEF Flushed, Idle
    <2> QED
      BY <1>1, <2>1 DEF Flushed
  <1>2. CASE TimewaitExit
    <2>1. Idle' = Idle
      BY <1>2 DEF TimewaitExit, Idle
    <2> QED
      BY <1>2, <2>1 DEF TimewaitExit
  <1>3. CASE HandlerCollects
    <2>1. Idle' = Idle
      BY <1>3 DEF HandlerCollects, Idle
    <2>2. cqpc # "idle"
      BY <1>3 DEF HandlerCollects, Collect
    <2>3. freed' \in BOOLEAN
      BY <1>3 DEF HandlerCollects, Collect
    <2> QED
      BY <1>3, <2>1, <2>2, <2>3 DEF HandlerCollects
  <1> QED
    BY <1>1, <1>2, <1>3 DEF Handler

LEMMA RmmodKeeps == IInv /\ pc # "oops" /\ (Rmmod \/ Unload) => IInv'
  <1> SUFFICES ASSUME IInv, pc # "oops", Rmmod \/ Unload PROVE IInv'
    OBVIOUS
  <1> USE DEF IInv, Types, Lifetime, Orderly, Collecting, Removing, Timely, Untimely, sessionVars
  <1>1. Idle' = Idle
    BY DEF Rmmod, Unload, RmmodCollects, DelGendisk, CleanupQueue, FreeTagSet, Idle
  <1>2. CASE Rmmod
    BY <1>1, <1>2 DEF Rmmod
  <1>3. CASE RmmodCollects
    <2> PICK next \in {"wait", "free_buffers", "free_rdma", "del_gendisk"} :
          Collect(pc, next, "del_gendisk") /\ pc' = next
      BY <1>3 DEF RmmodCollects
    <2>1. UNCHANGED <<live, users, rq, cqpc, hit>>
      BY <1>3 DEF RmmodCollects
    <2>2. CASE pc = "collect" /\ freed
      BY <1>1, <2>1, <2>2 DEF Collect
    <2>3. CASE pc = "collect" /\ ~freed
      BY <1>1, <2>1, <2>3 DEF Collect
    <2>4. CASE pc = "wait"
      BY <1>1, <2>1, <2>4 DEF Collect
    <2>5. CASE pc = "free_buffers"
      BY <1>1, <2>1, <2>5 DEF Collect
    <2>6. CASE pc = "free_rdma"
      BY <1>1, <2>1, <2>6 DEF Collect
    <2> QED
      BY <2>2, <2>3, <2>4, <2>5, <2>6 DEF Collect
  <1>4. CASE DelGendisk
    BY <1>1, <1>4 DEF DelGendisk
  <1>5. CASE CleanupQueue
    BY <1>1, <1>5 DEF CleanupQueue
  <1>6. CASE FreeTagSet
    BY <1>1, <1>6 DEF FreeTagSet
  <1> QED
    BY <1>2, <1>3, <1>4, <1>5, <1>6 DEF Unload

LEMMA StepKeeps == IInv /\ [Next]_vars => IInv'
  <1> SUFFICES ASSUME IInv, [Next]_vars PROVE IInv'
    OBVIOUS
  <1>1. CASE UNCHANGED vars
    BY <1>1 DEF vars, IInv, Types, Lifetime, Orderly, Timely, Idle
  <1>2. CASE Next
    BY <1>2, InsmodKeeps, UsersKeep, RequestsKeep, HandlerKeeps, RmmodKeeps DEF Next
  <1> QED
    BY <1>1, <1>2

\* The stages of insmod, rmmod and the handlers stay in step with what is held and what is served.
THEOREM Invariance == Spec => []IInv
  <1> QED
    BY InitHolds, StepKeeps, PTL DEF Spec

\* rmem_queue_rq finds its RDMA queue unless a transfer failed, a request outlived the last user, or
\* the disk itself was refused.
THEOREM AccessSafety == Spec => []NoWildAccess
  <1>1. IInv => NoWildAccess
    BY DEF IInv, Orderly, Timely, NoWildAccess
  <1> QED
    BY <1>1, Invariance, PTL

\* A failed insmod leaves no disk and no request behind, whatever failed.
THEOREM FailedLoadSafety == Spec => []FailedLoadInvisible
  <1>1. IInv => FailedLoadInvisible
    BY DEF IInv, Lifetime, Collecting, FailedLoadInvisible
  <1> QED
    BY <1>1, Invariance, PTL

\* After rmmod there is no disk and no request, and if the faults were timely nothing is held.
THEOREM UnloadSafety == Spec => []UnloadComplete
  <1>1. IInv => UnloadComplete
    BY DEF IInv, Lifetime, Orderly, Timely, Collecting, UnloadComplete
  <1> QED
    BY <1>1, Invariance, PTL

-----------------------------------------------------------------------------
(* The disk service                                                        *)

Backed == {"cmds", "tags", "queue"} \subseteq held
Opened == live /\ pc \in {"add_disk", "scan", "loaded"}
Flight == {r \in Requests : rq[r] # "idle"}

\* A step after which the faults are still timely is a step of the service, or changes nothing it shows.
LEMMA StepImplements ==
  IInv /\ [Next]_vars => Service!Next \/ hit' \cap Untimely # {} \/ UNCHANGED Service!vars
  <1> SUFFICES ASSUME IInv, [Next]_vars, Timely'
               PROVE  Service!Next \/ UNCHANGED Service!vars
    BY DEF Timely
  <1>a. Timely
    BY DEF Timely, Untimely, Next, vars, Insmod, ConnectSession, RegisterBlkdev, InitTagSet, InitQueue, Acquire,
           InitGendisk, ScanIssued, AddDiskReturns, OpenDisk, ReleaseDisk, Handler, Flushed, TimewaitExit,
           HandlerCollects, Rmmod, Unload, RmmodCollects, DelGendisk, CleanupQueue, FreeTagSet, Submit, Serve,
           QueueRq, TransferDone, TransferFails, Fault
  <1> USE <1>a DEF IInv, Types, Lifetime, Orderly, Collecting, Removing, sessionVars
  <1>b. ASSUME Backed' <=> Backed, Opened' <=> Opened, UNCHANGED Flight PROVE UNCHANGED Service!vars
    BY <1>b DEF Backed, Opened, Flight, Service!vars
  <1>c. ASSUME UNCHANGED rq PROVE UNCHANGED Flight
    BY <1>c DEF Flight
  <1>1. CASE ConnectSession \/ RegisterBlkdev \/ InitTagSet
    <2>1. ~Backed /\ ~Backed'
      BY <1>1 DEF ConnectSession, RegisterBlkdev, InitTagSet, Acquire, Backed
    <2>2. ~Opened /\ ~Opened'
      BY <1>1 DEF ConnectSession, RegisterBlkdev, InitTagSet, Acquire, Opened
    <2>3. UNCHANGED rq
      BY <1>1 DEF ConnectSession, RegisterBlkdev, InitTagSet, Acquire
    <2> QED
      BY <1>b, <1>c, <2>1, <2>2, <2>3 DEF Backed, Opened
  <1>2. CASE InitQueue
    <2>1. CASE "queue" \in held'
      <3>1. ~Backed /\ Backed' /\ ~Opened /\ ~Opened' /\ UNCHANGED rq
        BY <1>2, <2>1 DEF InitQueue, Acquire, Backed, Opened
      <3>2. Service!Provide
        BY <1>c, <3>1 DEF Backed, Opened, Flight, Service!Provide
      <3> QED
        BY <3>2 DEF Service!Next
    <2>2. CASE "queue" \notin held'
      <3>1. ~Backed /\ ~Backed' /\ ~Opened /\ ~Opened' /\ UNCHANGED rq
        BY <1>2, <2>2 DEF InitQueue, Acquire, Backed, Opened
      <3> QED
        BY <1>b, <1>c, <3>1
    <2> QED
      BY <2>1, <2>2
  <1>3. CASE InitGendisk
    <2>1. Backed /\ Backed' /\ ~Opened /\ UNCHANGED rq
      BY <1>3 DEF InitGendisk, Backed, Opened
    <2>2. CASE Opened'
      <3>1. Service!Open
        BY <1>c, <2>1, <2>2 DEF Backed, Opened, Flight, Service!Open
      <3> QED
        BY <3>1 DEF Service!Next
    <2>3. CASE ~Opened'
      BY <1>b, <1>c, <2>1, <2>3
    <2> QED
      BY <2>2, <2>3
  <1>4. CASE ScanIssued \/ AddDiskReturns
    <2>1. Opened /\ Opened' /\ UNCHANGED <<held, rq>>
      BY <1>4 DEF ScanIssued, AddDiskReturns, Opened
    <2> QED
      BY <1>b, <1>c, <2>1 DEF Backed
  <1>5. CASE OpenDisk \/ ReleaseDisk \/ Handler
    <2>1. UNCHANGED <<pc, live, rq, held>>
      BY <1>5 DEF OpenDisk, ReleaseDisk, Handler, Flushed, TimewaitExit, HandlerCollects, Collect
    <2> QED
      BY <1>b, <1>c, <2>1 DEF Backed, Opened
  <1>6. CASE Rmmod
    <2>1. Opened /\ ~Opened' /\ UNCHANGED <<held, rq>>
      BY <1>6 DEF Rmmod, Opened
    <2>2. Service!Close
      BY <1>c, <2>1 DEF Backed, Opened, Flight, Service!Close
    <2> QED
      BY <2>2 DEF Service!Next
  <1>7. CASE RmmodCollects
    <2>1. ~Opened /\ ~Opened' /\ UNCHANGED rq
      BY <1>7 DEF RmmodCollects, Collect, Opened
    <2>2. CASE pc = "free_buffers"
      <3>1. Backed /\ ~Backed' /\ Flight = {}
        BY <1>7, <2>2 DEF RmmodCollects, Collect, Backed, Flight, Idle
      <3>2. Service!Release
        BY <1>c, <2>1, <3>1 DEF Backed, Opened, Flight, Service!Release
      <3> QED
        BY <3>2 DEF Service!Next
    <2>3. CASE pc = "free_rdma"
      <3>1. ~Backed /\ ~Backed'
        BY <1>7, <2>3 DEF RmmodCollects, Collect, Backed
      <3> QED
        BY <1>b, <1>c, <2>1, <3>1
    <2>4. CASE pc \in {"collect", "wait"}
      <3>1. UNCHANGED held
        BY <1>7, <2>4 DEF RmmodCollects, Collect
      <3> QED
        BY <1>b, <1>c, <2>1, <3>1 DEF Backed
    <2> QED
      BY <1>7, <2>2, <2>3, <2>4 DEF RmmodCollects, Collect
  <1>8. CASE DelGendisk \/ CleanupQueue \/ FreeTagSet
    <2>1. ~Backed /\ ~Backed' /\ ~Opened /\ ~Opened' /\ UNCHANGED rq
      BY <1>8 DEF DelGendisk, CleanupQueue, FreeTagSet, Backed, Opened
    <2> QED
      BY <1>b, <1>c, <2>1
  <1>9. ASSUME NEW r \in Requests, pc # "oops", Submit(r) PROVE Service!Next
    <2>1. Opened /\ Opened' /\ UNCHANGED held
      BY <1>9 DEF Submit, Opened
    <2>2. r \notin Flight /\ Flight' = Flight \cup {r}
      BY <1>9 DEF Submit, Flight
    <2>3. Service!Accept(r)
      BY <2>1, <2>2 DEF Backed, Opened, Flight, Service!Accept
    <2> QED
      BY <2>3 DEF Service!Next
  <1>10. ASSUME NEW r \in Requests, pc # "oops", QueueRq(r) PROVE UNCHANGED Service!vars
    <2>1. "cmds" \in held
      BY <1>10 DEF QueueRq, Idle
    <2>2. UNCHANGED <<pc, live, held>>
      BY <1>10, <2>1 DEF QueueRq
    <2>3. Flight' = Flight
      BY <1>10, <2>1 DEF QueueRq, Flight
    <2> QED
      BY <1>b, <2>2, <2>3 DEF Backed, Opened
  <1>11. ASSUME NEW r \in Requests, pc # "oops", TransferDone(r) PROVE Service!Next
    <2>1. Backed /\ UNCHANGED <<pc, live, held>>
      BY <1>11 DEF TransferDone, Idle, Backed
    <2>2. r \in Flight /\ Flight' = Flight \ {r}
      BY <1>11 DEF TransferDone, Flight
    <2>3. Service!End(r)
      BY <2>1, <2>2 DEF Backed, Opened, Flight, Service!End
    <2> QED
      BY <2>3 DEF Service!Next
  <1>12. ASSUME NEW r \in Requests, TransferFails(r) PROVE FALSE
    BY <1>12 DEF TransferFails, Fault, Timely, Untimely
  <1>13. CASE UNCHANGED vars
    BY <1>b, <1>c, <1>13 DEF vars, Backed, Opened
  <1> QED
    BY <1>1, <1>2, <1>3, <1>4, <1>5, <1>6, <1>7, <1>8, <1>9, <1>10, <1>11, <1>12, <1>13
    DEF Next, Insmod, Unload, Serve

\* Until a transfer fails or a request outlives the last user, the Octopus module is a disk as
\* DiskService describes it: it opens only when it is backed, and what backs it goes only after it is
\* closed and every request has ended.
THEOREM Refinement == Spec => ImplementsServiceUntilFault
  <1>1. Init => Service!Init
    BY DEF Init, Service!Init
  <1>2. IInv /\ [Next]_vars => [Service!Next \/ hit' \cap Untimely # {}]_(Service!vars)
    BY StepImplements
  <1> QED
    BY <1>1, <1>2, Invariance, PTL DEF Spec, ImplementsServiceUntilFault
=============================================================================
