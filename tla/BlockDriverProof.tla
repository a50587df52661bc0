-------------------------- MODULE BlockDriverProof --------------------------
(***************************************************************************)
(* Proofs about BlockDriver for any set of requests and any number of      *)
(* users: the inductive invariant, what it implies for loading, unloading  *)
(* and serving, and that the driver implements the safety of DiskService.  *)
(***************************************************************************)
EXTENDS BlockDriver, TLAPS

\* The conjunct of IInv about the disk, which InitGendisk and DelGendisk disturb.
LiveStages == live \in BOOLEAN /\ (live <=> pc \in {"add_disk", "scan", "loaded"})

LEMMA InitIInv == Init => IInv
  <1> SUFFICES ASSUME Init PROVE IInv
    OBVIOUS
  <1>1. LiveStages
    <2>1. live = FALSE /\ pc = "start"
      BY DEF Init
    <2>2. pc \notin {"add_disk", "scan", "loaded"}
      BY <2>1
    <2> QED
      BY <2>1, <2>2, Zenon DEF LiveStages
  <1> QED
    BY <1>1, UsersAssumption
    DEF Init, IInv, TypeOK, LiveStages, Resources, MajorAt, TagsAt, QueueAt, DiskAt

\* Loading: the stages of insmod, each with the resource it acquires.
LEMMA InsmodIInv == IInv /\ Insmod => IInv'
  <1> USE DEF MajorAt, TagsAt, QueueAt, DiskAt, Resources
  <1> SUFFICES ASSUME IInv, Insmod PROVE IInv'
    OBVIOUS
  <1>1. CASE RegisterBlkdev
    BY <1>1 DEF RegisterBlkdev, Acquire, IInv, TypeOK
  <1>2. CASE InitControl
    BY <1>2 DEF InitControl, IInv, TypeOK
  <1>3. CASE InitTagSet
    BY <1>3 DEF InitTagSet, Acquire, IInv, TypeOK
  <1>4. CASE InitQueue
    BY <1>4 DEF InitQueue, Acquire, IInv, TypeOK
  <1>5. CASE InitGendisk
    <2>1. CASE live' = TRUE /\ pc' = "add_disk"
      <3>1. LiveStages'
        BY <2>1, Zenon DEF LiveStages
      <3> QED
        BY <1>5, <2>1, <3>1 DEF InitGendisk, IInv, TypeOK, LiveStages
    <2>2. CASE pc' = "failed" /\ UNCHANGED <<held, live>>
      BY <1>5, <2>2 DEF InitGendisk, IInv, TypeOK
    <2> QED
      BY <1>5, <2>1, <2>2 DEF InitGendisk
  <1>6. CASE ScanIssued
    BY <1>6 DEF ScanIssued, IInv, TypeOK
  <1>7. CASE AddDiskReturns
    BY <1>7 DEF AddDiskReturns, IInv, TypeOK
  <1> QED
    BY <1>1, <1>2, <1>3, <1>4, <1>5, <1>6, <1>7 DEF Insmod

\* Unloading: what is released, and that the queue waits for the requests.
LEMMA RmmodIInv == IInv /\ (DelGendisk \/ Rmmod) => IInv'
  <1> USE DEF MajorAt, TagsAt, QueueAt, DiskAt, Resources
  <1> SUFFICES ASSUME IInv, DelGendisk \/ Rmmod PROVE IInv'
    OBVIOUS
  <1>1. CASE DelGendisk
    <2>1. LiveStages'
      <3>1. live' = FALSE /\ pc' = "cleanup_queue"
        BY <1>1 DEF DelGendisk
      <3>2. pc' \notin {"add_disk", "scan", "loaded"}
        BY <3>1
      <3> QED
        BY <3>1, <3>2, Zenon DEF LiveStages
    <2> QED
      BY <1>1, <2>1 DEF DelGendisk, IInv, TypeOK, LiveStages
  <1>2. CASE CleanupQueue
    BY <1>2 DEF CleanupQueue, Idle, IInv, TypeOK
  <1>3. CASE FreeTagSet
    BY <1>3 DEF FreeTagSet, IInv, TypeOK
  <1>4. CASE PutDisk
    BY <1>4 DEF PutDisk, IInv, TypeOK
  <1>5. CASE Unregister
    BY <1>5 DEF Unregister, IInv, TypeOK
  <1> QED
    BY <1>1, <1>2, <1>3, <1>4, <1>5 DEF Rmmod

\* Use: handles and requests leave pc and held alone.
LEMMA UseIInv ==
  IInv /\ (OpenDisk \/ ReleaseDisk \/ \E r \in Requests : Submit(r) \/ Serve(r)) => IInv'
  <1> SUFFICES ASSUME IInv, OpenDisk \/ ReleaseDisk \/ \E r \in Requests : Submit(r) \/ Serve(r)
               PROVE  IInv'
    OBVIOUS
  <1>1. CASE OpenDisk
    BY <1>1, UsersAssumption DEF OpenDisk, IInv, TypeOK
  <1>2. CASE ReleaseDisk
    BY <1>2, UsersAssumption DEF ReleaseDisk, IInv, TypeOK
  <1>3. ASSUME NEW r \in Requests, Submit(r) PROVE IInv'
    BY <1>3 DEF Submit, IInv, TypeOK
  <1>4. ASSUME NEW r \in Requests, StartRequest(r) PROVE IInv'
    BY <1>4 DEF StartRequest, IInv, TypeOK
  <1>5. ASSUME NEW r \in Requests, CompleteRequest(r) PROVE IInv'
    BY <1>5 DEF CompleteRequest, IInv, TypeOK
  <1> QED
    BY <1>1, <1>2, <1>3, <1>4, <1>5 DEF Serve

\* The inductive invariant holds in every reachable state, for any number of
\* requests and users.
THEOREM Invariance == Spec => []IInv
  <1>1. IInv /\ [Next]_vars => IInv'
    <2> SUFFICES ASSUME IInv, [Next]_vars PROVE IInv'
      OBVIOUS
    <2>1. CASE Next
      BY <2>1, InsmodIInv, RmmodIInv, UseIInv DEF Next
    <2>2. CASE UNCHANGED vars
      BY <2>2 DEF vars, IInv, TypeOK
    <2> QED
      BY <2>1, <2>2
  <1> QED
    BY InitIInv, <1>1, PTL DEF Spec

\* No disk, handle or request leads into a module that is out of the kernel.
THEOREM UnloadSafety == Spec => []UnloadedCodeUnused
  <1>1. IInv => UnloadedCodeUnused
    BY UsersAssumption DEF IInv, TypeOK, UnloadedCodeUnused, Idle
  <1> QED
    BY <1>1, Invariance, PTL

\* rmmod gives everything back.
THEOREM UnloadRelease == Spec => []UnloadReleasesAll
  <1>1. IInv => UnloadReleasesAll
    BY DEF IInv, TypeOK, UnloadReleasesAll, Resources, MajorAt, TagsAt, QueueAt, DiskAt
  <1> QED
    BY <1>1, Invariance, PTL

\* What serves requests is held as long as there can be requests.
THEOREM ServiceHeld == Spec => []ServedWhileHeld
  <1>1. IInv => ServedWhileHeld
    BY DEF IInv, TypeOK, ServedWhileHeld, Idle, TagsAt, QueueAt, DiskAt
  <1> QED
    BY <1>1, Invariance, PTL

\* The requests being served, as the service sees them.
Flight == {r \in Requests : rq[r] # "idle"}

\* A step of the driver is a step of the service, or changes nothing it shows.
LEMMA StepImplements == IInv /\ IInv' /\ [Next]_vars => [Service!Next]_(Service!vars)
  <1> USE DEF TagsAt, QueueAt
  <1> SUFFICES ASSUME IInv, IInv', [Next]_vars PROVE Service!Next \/ UNCHANGED Service!vars
    OBVIOUS
  <1>1. CASE RegisterBlkdev \/ InitControl \/ InitTagSet \/ ScanIssued \/ AddDiskReturns
    BY <1>1 DEF RegisterBlkdev, InitControl, InitTagSet, ScanIssued, AddDiskReturns, Acquire,
                IInv, TypeOK, Service!vars
  <1>2. CASE InitQueue
    BY <1>2 DEF InitQueue, Acquire, IInv, TypeOK, Service!vars, Service!Next, Service!Provide
  <1>3. CASE InitGendisk
    BY <1>3 DEF InitGendisk, IInv, TypeOK, Service!vars, Service!Next, Service!Open
  <1>4. CASE DelGendisk
    BY <1>4 DEF DelGendisk, IInv, TypeOK, Service!vars, Service!Next, Service!Close
  <1>5. CASE CleanupQueue
    BY <1>5 DEF CleanupQueue, Idle, IInv, TypeOK, Service!vars, Service!Next, Service!Release
  <1>6. CASE FreeTagSet \/ PutDisk \/ Unregister
    BY <1>6 DEF FreeTagSet, PutDisk, Unregister, IInv, TypeOK, Service!vars
  <1>7. CASE OpenDisk \/ ReleaseDisk
    BY <1>7 DEF OpenDisk, ReleaseDisk, Service!vars
  <1>8. ASSUME NEW r \in Requests, Submit(r) PROVE Service!Next
    <2>1. Service!Accept(r)
      <3>1. r \notin Flight /\ Flight' = Flight \cup {r}
        BY <1>8 DEF Submit, Flight, IInv, TypeOK
      <3> QED
        BY <1>8, <3>1 DEF Submit, Flight, Service!Accept
    <2> QED
      BY <2>1 DEF Service!Next
  <1>9. ASSUME NEW r \in Requests, StartRequest(r) PROVE UNCHANGED Service!vars
    <2>1. Flight' = Flight
      BY <1>9 DEF StartRequest, Flight, IInv, TypeOK
    <2> QED
      BY <1>9, <2>1 DEF StartRequest, Flight, Service!vars
  <1>10. ASSUME NEW r \in Requests, CompleteRequest(r) PROVE Service!Next
    <2>1. Service!End(r)
      <3>1. r \in Flight /\ Flight' = Flight \ {r}
        BY <1>10 DEF CompleteRequest, Flight, IInv, TypeOK
      <3>2. {"tags", "queue"} \subseteq held
        BY <1>10 DEF CompleteRequest, IInv
      <3> QED
        BY <1>10, <3>1, <3>2 DEF CompleteRequest, Flight, Service!End
    <2> QED
      BY <2>1 DEF Service!Next
  <1>11. CASE UNCHANGED vars
    BY <1>11 DEF vars, Service!vars
  <1> QED
    BY <1>1, <1>2, <1>3, <1>4, <1>5, <1>6, <1>7, <1>8, <1>9, <1>10, <1>11
    DEF Next, Insmod, Rmmod, Serve

\* The driver implements the safety part of the disk service.
THEOREM Refinement == Spec => Service!Spec
  <1>1. Init => Service!Init
    BY DEF Init, Service!Init
  <1> QED
    BY <1>1, StepImplements, Invariance, PTL DEF Spec, Service!Spec
=============================================================================
