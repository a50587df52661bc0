---------------------------- MODULE SessionProof ----------------------------
(***************************************************************************)
(* Proofs about Session, for every set of environments and every choice of *)
(* faults in them but a signal: what insmod finds when it creates the disk,*)
(* that the resources are freed after the connection has ended, and that   *)
(* the handlers never move the session backwards.                          *)
(***************************************************************************)
EXTENDS SessionInvariant

-----------------------------------------------------------------------------
(* One lemma per step of the server, the completion handler and a collector*)

USE DEF States, Caller, IDLE, ADDR_RESOLVED, ROUTE_RESOLVED, CONNECTED, FREE_MEM_RECV, RECEIVED_CHUNKS,
         RECV_EVICT, CM_DISCONNECT, ERROR, cqVars, qpVars, srvVars, colVars, outVars

LEMMA ServerFreeSizeKeeps == Keeps(ServerFreeSize)
  <1> SUFFICES ASSUME Inv, ServerFreeSize PROVE Inv'
    BY DEF Keeps
  <1>a. net = <<>> /\ net' = <<"FREE_SIZE">>
    BY DEF Inv, Messaging, ServerFreeSize, ServerSends
  <1>b. Len(net') = 1 /\ net' \in Seq(Messages) /\ net' # <<>>
    BY <1>a DEF Messages
  <1>c. ~Has(net', "CHUNKS") /\ ~Has(net', "EVICT")
    BY <1>a DEF Has
  <1>d. /\ srv = "none" /\ srv' = "free_sent" /\ link \in {"replied", "up"}
        /\ UNCHANGED <<state, mpc, hpc, link, chunks, rx, cq>>
    BY DEF ServerFreeSize, ServerSends
  <1>e. mpc \notin {"request", "wait_chunks", "disk", "loaded", "unload", "unloaded"} /\ state # FREE_MEM_RECV
    BY <1>d DEF Inv, Handshake
  <1>f. state # ERROR
    BY <1>d, <1>e DEF Inv, Disconnection
  <1>g. ~Has(cq, "RECV")
    BY <1>d DEF Inv, Messaging
  <1>1. Types' /\ BringUp' /\ Handlers' /\ Disk'
    BY <1>b, <1>c, OpenKept, CalmKept, UntouchedKept DEF Inv, Types, BringUp, Handlers, Disk,
        ServerFreeSize, ServerSends
  <1>2. Messaging'
    BY <1>b, <1>c, HasEmpty DEF Inv, Types, Handlers, Messaging, ServerFreeSize, ServerSends, Open, Calm
  <1>3. Handshake'
    BY <1>d, <1>e, <1>f, <1>g DEF Inv, Handshake, ServerFreeSize, ServerSends, Open
  <1>4. Disconnection'
    BY <1>b, <1>c, CalmKept DEF Inv, Disconnection, ServerFreeSize, ServerSends
  <1> QED
    BY <1>1, <1>2, <1>3, <1>4 DEF Inv

LEMMA ServerChunksKeeps == Keeps(ServerChunks)
  <1> SUFFICES ASSUME Inv, ServerChunks PROVE Inv'
    BY DEF Keeps
  <1>a. /\ net' \in Seq(Messages)
        /\ Has(net', "FREE_SIZE") <=> Has(net, "FREE_SIZE")
    BY QueueTypes, HasAppend DEF Inv, Types, ServerChunks, ServerSends
  <1>1. Types' /\ BringUp' /\ Handlers' /\ Messaging'
    BY <1>a, OpenKept, CalmKept, UntouchedKept DEF Inv, Types, BringUp, Handlers, Messaging,
        ServerChunks, ServerSends
  <1>2. Handshake' /\ Disk' /\ Disconnection'
    BY <1>a, OpenKept, CalmKept DEF Inv, Handshake, Disk, Disconnection, ServerChunks, ServerSends
  <1> QED
    BY <1>1, <1>2 DEF Inv

LEMMA ServerEvictKeeps == Keeps(ServerEvict)
  <1> SUFFICES ASSUME Inv, ServerEvict PROVE Inv'
    BY DEF Keeps
  <1>a. /\ net' \in Seq(Messages)
        /\ Has(net', "FREE_SIZE") <=> Has(net, "FREE_SIZE")
    BY QueueTypes, HasAppend DEF Inv, Types, ServerEvict, ServerSends
  <1>1. Types' /\ BringUp' /\ Handlers' /\ Messaging'
    BY <1>a, OpenKept, CalmKept, UntouchedKept DEF Inv, Types, BringUp, Handlers, Messaging,
        ServerEvict, ServerSends
  <1>2. Handshake' /\ Disk' /\ Disconnection'
    BY <1>a, OpenKept, CalmKept DEF Inv, Handshake, Disk, Disconnection, ServerEvict, ServerSends
  <1> QED
    BY <1>1, <1>2 DEF Inv

LEMMA ReceiveKeeps == Keeps(Receive)
  <1> SUFFICES ASSUME Inv, Receive PROVE Inv'
    BY DEF Keeps
  <1>a. /\ rx = 1 /\ rx' = 0 /\ ~Has(cq, "RECV") /\ cq' = Append(cq, "RECV") /\ cq \in Seq(Completions)
        /\ net # <<>> /\ net' = Tail(net) /\ recv_buf' = Head(net) /\ net \in Seq(Messages)
        /\ Once(cq, "RECV")
    BY DEF Inv, Types, Messaging, Receive, Completion
  <1>b. /\ cq' \in Seq(Completions) /\ cq' # <<>> /\ Has(cq', "RECV") /\ Once(cq', "RECV")
        /\ Has(cq', "FLUSH") <=> Has(cq, "FLUSH")
        /\ Has(cq', "BAD") <=> Has(cq, "BAD")
    BY <1>a, QueueTypes, HasAppend
  <1>c. /\ net' \in Seq(Messages) /\ Len(net') = Len(net) - 1
        /\ recv_buf' \in Messages /\ Has(net, recv_buf')
        /\ \A m : Has(net', m) => Has(net, m)
    BY <1>a, HasTail
  <1>d. srv = "free_sent" => net' = <<>>
    BY <1>a, <1>c DEF Inv, Messaging
  <1>e. recv_buf' \in (IF srv = "free_sent" THEN {"FREE_SIZE"} ELSE {"CHUNKS", "EVICT"})
    BY <1>a, <1>c DEF Inv, Types, Messaging, Messages
  <1>f. Calm'
    BY <1>a, <1>b DEF Inv, Messaging, Receive, Completion, Open, Calm
  <1>1. Types'
    BY <1>a, <1>b, <1>c, <1>d, <1>e, HasEmpty DEF Inv, Types, Messaging, Receive, Completion, Open, Calm
  <1>2. BringUp'
    BY <1>a, <1>b, <1>c, <1>d, <1>e DEF Inv, BringUp, Receive, Completion, Untouched
  <1>3. Handlers'
    BY <1>a, <1>b, <1>c, <1>d, <1>e DEF Inv, Handlers, Receive, Completion
  <1>4. Messaging'
    BY <1>a, <1>b, <1>c, <1>d, <1>e, <1>f DEF Inv, Messaging, Receive, Completion, Open, Calm
  <1>5. Handshake' /\ Disk'
    BY <1>a, <1>b, <1>c, <1>d, <1>e, CalmKept DEF Inv, Handshake, Disk, Receive, Completion, Open
  <1>6. Disconnection'
    BY <1>a, <1>b, <1>f DEF Inv, Disconnection, Receive, Completion, Calm
  <1> QED
    BY <1>1, <1>2, <1>3, <1>4, <1>5, <1>6 DEF Inv

LEMMA IoFailsKeeps == Keeps(IoFails)
  <1> SUFFICES ASSUME Inv, IoFails PROVE Inv'
    BY DEF Keeps
  <1>a. /\ ~Open /\ ~Has(cq, "RECV") /\ Once(cq, "RECV")
        /\ cq' = Append(cq, "BAD") /\ cq \in Seq(Completions)
    BY DEF Inv, Types, Messaging, IoFails, Completion, Disk, Open
  <1>b. cq' \in Seq(Completions) /\ cq' # <<>> /\ ~Has(cq', "RECV") /\ Once(cq', "RECV")
    BY <1>a, QueueTypes, HasAppend
  <1>1. Types'
    BY <1>a, <1>b DEF Inv, Types, IoFails, Completion
  <1>2. BringUp' /\ Handlers'
    BY <1>a, <1>b, UntouchedKept DEF Inv, BringUp, Handlers, IoFails, Completion
  <1>3. Messaging' /\ Handshake' /\ Disk'
    BY <1>a, <1>b, CalmKept DEF Inv, Messaging, Handshake, Disk, IoFails, Completion, Open
  <1>4. Disconnection'
    BY <1>a, <1>b DEF Inv, Disconnection, IoFails, Completion, Calm
  <1> QED
    BY <1>1, <1>2, <1>3, <1>4 DEF Inv

LEMMA CqEventKeeps == Keeps(CqEvent)
  <1> SUFFICES ASSUME Inv, CqEvent PROVE Inv'
    BY DEF Keeps
  <1>a. armed' \in BOOLEAN /\ event' \in BOOLEAN
    BY Zenon DEF Inv, Types, CqEvent, Arm
  <1>1. Types'
    BY <1>a DEF Inv, Types, CqEvent, Arm
  <1>2. BringUp'
    BY DEF Inv, BringUp, CqEvent, Arm, Untouched
  <1>3. Handlers' /\ Messaging' /\ Handshake' /\ Disk'
    BY OpenKept, CalmKept DEF Inv, Handlers, Messaging, Handshake, Disk, CqEvent, Arm
  <1>4. Disconnection'
    BY CalmKept DEF Inv, Disconnection, CqEvent, Arm
  <1> QED
    BY <1>1, <1>2, <1>3, <1>4 DEF Inv

LEMMA PollEmptyKeeps == Keeps(PollEmpty)
  <1> SUFFICES ASSUME Inv, PollEmpty PROVE Inv'
    BY DEF Keeps
  <1>1. Types' /\ Handlers' /\ Messaging' /\ Handshake'
    BY OpenKept, CalmKept DEF Inv, Types, Handlers, Messaging, Handshake, PollEmpty
  <1>2. BringUp'
    BY DEF Inv, BringUp, PollEmpty, Untouched
  <1>3. Disk' /\ Disconnection'
    BY OpenKept, CalmKept DEF Inv, Disk, Disconnection, PollEmpty
  <1> QED
    BY <1>1, <1>2, <1>3 DEF Inv

\* octopus_cq_event_handler takes the oldest completion.
LEMMA Polls ==
  ASSUME Inv, NEW kinds, Polled(kinds)
  PROVE  /\ cq' \in Seq(Completions) /\ Once(cq', "RECV")
         /\ \A c : Has(cq', c) => Has(cq, c)
         /\ Has(cq, Head(cq)) /\ Head(cq) \in kinds
         /\ Head(cq) = "RECV" => ~Has(cq', "RECV")
  BY HasTail DEF Polled, Inv, Types, Messaging

LEMMA PollSendKeeps == Keeps(PollSend)
  <1> SUFFICES ASSUME Inv, PollSend PROVE Inv'
    BY DEF Keeps
  <1>a. cq' \in Seq(Completions) /\ Once(cq', "RECV") /\ \A c : Has(cq', c) => Has(cq, c)
    BY Polls DEF PollSend
  <1>1. Types' /\ Handlers'
    BY <1>a DEF Inv, Types, Handlers, PollSend, Polled
  <1>2. BringUp'
    BY <1>a DEF Inv, BringUp, PollSend, Polled, Untouched
  <1>3. Messaging' /\ Disk'
    BY <1>a DEF Inv, Messaging, Disk, PollSend, Polled, Open, Calm
  <1>4. Handshake'
    BY <1>a DEF Inv, Handshake, PollSend, Polled, Open
  <1>5. Disconnection'
    BY <1>a DEF Inv, Disconnection, PollSend, Polled, Calm
  <1> QED
    BY <1>1, <1>2, <1>3, <1>4, <1>5 DEF Inv

LEMMA RecvFreeSizeKeeps == Keeps(RecvFreeSize)
  <1> SUFFICES ASSUME Inv, RecvFreeSize PROVE Inv'
    BY DEF Keeps
  <1>a. /\ cq' \in Seq(Completions) /\ Has(cq, "RECV") /\ ~Has(cq', "RECV") /\ Once(cq', "RECV")
        /\ \A c : Has(cq', c) => Has(cq, c)
    BY Polls DEF RecvFreeSize, Received
  <1>1. Types' /\ Handlers'
    BY <1>a DEF Inv, Types, Handlers, RecvFreeSize, Received, Polled
  <1>2. BringUp'
    BY <1>a DEF Inv, BringUp, RecvFreeSize, Received, Polled, Untouched
  <1>3. Messaging' /\ Disk'
    BY <1>a, CalmKept DEF Inv, Messaging, Disk, RecvFreeSize, Received, Polled, Open
  <1>4. Handshake'
    BY <1>a, HasEmpty, CalmKept DEF Inv, Types, Messaging, Handshake, RecvFreeSize, Received, Polled,
                                    Open
  <1>5. Disconnection'
    BY <1>a, HasEmpty DEF Inv, Types, Messaging, Disconnection, RecvFreeSize, Received, Polled, Open,
                          Calm
  <1> QED
    BY <1>1, <1>2, <1>3, <1>4, <1>5 DEF Inv

LEMMA InitRemoteChunkListKeeps == Keeps(InitRemoteChunkList)
  <1> SUFFICES ASSUME Inv, InitRemoteChunkList PROVE Inv'
    BY DEF Keeps
  <1>1. Types' /\ Handlers' /\ Handshake' /\ Disk'
    BY OpenKept, CalmKept DEF Inv, Types, Handlers, Handshake, Disk, InitRemoteChunkList
  <1>2. BringUp'
    BY DEF Inv, BringUp, InitRemoteChunkList, Untouched
  <1>3. Messaging' /\ Disconnection'
    BY OpenKept DEF Inv, Messaging, Disconnection, InitRemoteChunkList, Calm
  <1> QED
    BY <1>1, <1>2, <1>3 DEF Inv

LEMMA RecvChunksKeeps == Keeps(RecvChunks)
  <1> SUFFICES ASSUME Inv, RecvChunks PROVE Inv'
    BY DEF Keeps
  <1>a. /\ cq' \in Seq(Completions) /\ Has(cq, "RECV") /\ ~Has(cq', "RECV") /\ Once(cq', "RECV")
        /\ \A c : Has(cq', c) => Has(cq, c)
    BY Polls DEF RecvChunks, Received
  <1>b. /\ rx = 0 /\ Calm /\ hpc = "poll" /\ srv \notin {"free_sent", "none"}
        /\ UNCHANGED <<mpc, rx, disk, hpc, col, freed, link, cpc>>
    BY <1>a DEF Inv, Types, Messaging, RecvChunks, Received, Polled, Open
  <1>c. chunks' = "bound"
    BY <1>b DEF Inv, Types, Handshake, RecvChunks
  <1>d. Calm' /\ ~Open'
    BY <1>a, <1>b, <1>c DEF Calm, Open
  <1>e. disk # "online" /\ mpc \notin {"disk", "loaded", "unload"}
    BY <1>a DEF Inv, Disk, Messaging, Open, Calm
  <1>1. Types' /\ Handlers'
    BY <1>a DEF Inv, Types, Handlers, RecvChunks, Received, Polled
  <1>2. BringUp'
    BY <1>a, HasEmpty DEF Inv, Types, BringUp, Handlers, RecvChunks, Received, Polled, Untouched
  <1>3. Messaging'
    BY <1>a, CalmKept DEF Inv, Messaging, RecvChunks, Received, Polled, Open
  <1>4. Handshake'
    BY <1>a, HasEmpty, CalmKept DEF Inv, Types, Messaging, Handshake, RecvChunks, Received, Polled, Open
  <1>5. Disk'
    BY <1>b, <1>c, <1>d, <1>e DEF Inv, Disk, RecvChunks, Received, Polled, Open, Calm
  <1>6. Disconnection'
    BY <1>a, HasEmpty DEF Inv, Types, Messaging, Disconnection, RecvChunks, Received, Polled, Open, Calm
  <1> QED
    BY <1>1, <1>2, <1>3, <1>4, <1>5, <1>6 DEF Inv

LEMMA RecvEvictKeeps == Keeps(RecvEvict)
  <1> SUFFICES ASSUME Inv, RecvEvict PROVE Inv'
    BY DEF Keeps
  <1>a. /\ cq' \in Seq(Completions) /\ Has(cq, "RECV") /\ ~Has(cq', "RECV") /\ Once(cq', "RECV")
        /\ \A c : Has(cq', c) => Has(cq, c)
    BY Polls DEF RecvEvict, Received
  <1>1. Types' /\ Handlers'
    BY <1>a DEF Inv, Types, Handlers, RecvEvict, Received, Polled
  <1>2. BringUp'
    BY <1>a, HasEmpty DEF Inv, Types, BringUp, Handlers, RecvEvict, Received, Polled, Untouched
  <1>3. Messaging'
    BY <1>a, CalmKept DEF Inv, Messaging, RecvEvict, Received, Polled, Open
  <1>4. Handshake' /\ Disk'
    BY <1>a, HasEmpty, CalmKept DEF Inv, Types, Messaging, Handshake, Disk, RecvEvict, Received, Polled,
                                    Open
  <1>5. Disconnection'
    BY <1>a, HasEmpty DEF Inv, Types, Messaging, Disconnection, RecvEvict, Received, Polled, Open, Calm
  <1> QED
    BY <1>1, <1>2, <1>3, <1>4, <1>5 DEF Inv

LEMMA PollErrorKeeps == Keeps(PollError)
  <1> SUFFICES ASSUME Inv, PollError PROVE Inv'
    BY DEF Keeps
  <1>a. /\ hpc = "poll" /\ cq' \in Seq(Completions) /\ Once(cq', "RECV")
        /\ \A c : Has(cq', c) => Has(cq, c)
        /\ (Has(cq, Head(cq)) /\ Head(cq) \in {"FLUSH", "BAD"}) \/ state < CONNECTED
    BY Polls DEF PollError, Polled
  <1>b. state >= CONNECTED /\ state \in States
    BY <1>a DEF Inv, Types, Handlers
  <1>c. ~Calm
    BY <1>a, <1>b DEF Calm
  <1>d. ~Open
    BY <1>c DEF Inv, Messaging
  <1>1. Types'
    BY <1>a, <1>b, <1>c, <1>d DEF Inv, Types, PollError, Polled
  <1>2. BringUp'
    BY <1>a, <1>b, <1>c, <1>d, HasEmpty DEF Inv, Types, BringUp, Handlers, PollError, Polled, Untouched
  <1>3. Handlers'
    BY <1>a, <1>b, <1>c, <1>d, HasEmpty DEF Inv, Types, Handlers, PollError, Polled
  <1>4. Messaging'
    BY <1>a, <1>b, <1>c, <1>d, CalmKept DEF Inv, Messaging, PollError, Polled, Open
  <1>5. Handshake'
    BY <1>a, <1>b, <1>c, <1>d, HasEmpty DEF Inv, Types, Handshake, Disconnection, PollError, Polled,
                                            Open, Calm
  <1>6. Disk'
    BY <1>a, <1>b, <1>c, <1>d, HasEmpty DEF Inv, Types, Handlers, Disk, PollError, Polled, Open, Calm
  <1>7. Disconnection'
    BY <1>a, <1>b, <1>c, <1>d, HasEmpty DEF Inv, Types, Handlers, Disconnection, PollError, Polled, Calm
  <1> QED
    BY <1>1, <1>2, <1>3, <1>4, <1>5, <1>6, <1>7 DEF Inv

LEMMA PollErrorReturnsKeeps == Keeps(PollErrorReturns)
  <1> SUFFICES ASSUME Inv, PollErrorReturns PROVE Inv'
    BY DEF Keeps
  <1>1. Types' /\ Handshake'
    BY OpenKept DEF Inv, Types, Handshake, PollErrorReturns
  <1>2. BringUp'
    BY DEF Inv, BringUp, PollErrorReturns, Untouched
  <1>3. Handlers'
    BY HasEmpty DEF Inv, Types, Handlers, PollErrorReturns
  <1>4. Messaging' /\ Disk'
    BY OpenKept DEF Inv, Messaging, Disk, PollErrorReturns, Calm
  <1>5. Disconnection'
    BY DEF Inv, Disconnection, PollErrorReturns, Calm
  <1> QED
    BY <1>1, <1>2, <1>3, <1>4, <1>5 DEF Inv

LEMMA CollectCheckKeeps == \A t \in Caller : Keeps(CollectCheck(t))
  <1> SUFFICES ASSUME NEW t \in Caller, Inv, CollectCheck(t) PROVE Inv'
    BY DEF Keeps
  <1>1. Types' /\ Handlers' /\ Handshake'
    BY OpenKept DEF Inv, Types, Handlers, Handshake, CollectCheck
  <1>2. BringUp'
    BY DEF Inv, BringUp, CollectCheck, Untouched
  <1>3. Messaging' /\ Disk'
    BY DEF Inv, Messaging, Disk, CollectCheck, Open, Calm
  <1>4. Disconnection'
    BY DEF Inv, Disconnection, CollectCheck, Calm
  <1> QED
    BY <1>1, <1>2, <1>3, <1>4 DEF Inv

LEMMA ClaimKeeps ==
  \A t \in Caller :
    Keeps(CollectClaim(t) /\ state # CM_DISCONNECT /\ link \in {"replied", "up", "closing"})
  <1> SUFFICES ASSUME NEW t \in Caller, Inv, CollectClaim(t),
                      state # CM_DISCONNECT, link \in {"replied", "up", "closing"}
               PROVE  Inv'
    BY DEF Keeps
  <1>a. /\ cq' \in Seq(Completions) /\ rx' = 0 /\ net' = <<>>
        /\ armed' \in BOOLEAN /\ event' \in BOOLEAN /\ (armed' => armed) /\ (event' => event \/ armed)
        /\ (Has(cq', "RECV") => Has(cq, "RECV")) /\ Once(cq', "RECV")
        /\ rx = 0 /\ disk # "online" => cq' = cq
    BY Flushed DEF Inv, Messaging, CollectClaim
  <1>b. t # "cm" /\ ~Calm
    BY DEF Inv, Handlers, CollectClaim, Calm
  <1>1. Types' /\ BringUp' /\ Handlers' /\ Disconnection'
    BY <1>a, <1>b, CalmKept, UntouchedKept DEF Inv, Types, BringUp, Handlers, Disconnection,
                                               CollectClaim
  <1>2. Messaging' /\ Disk'
    BY <1>a, <1>b, HasEmpty DEF Inv, Types, Handlers, Messaging, Disk, CollectClaim, Open, Calm
  <1>3. Handshake'
    BY <1>a, <1>b, HasEmpty DEF Inv, Types, Handlers, Handshake, CollectClaim, Open
  <1> QED
    BY <1>1, <1>2, <1>3 DEF Inv

LEMMA ClaimOffKeeps ==
  \A t \in Caller :
    Keeps(CollectClaim(t) /\ ~(state # CM_DISCONNECT /\ link \in {"replied", "up", "closing"}))
  <1> SUFFICES ASSUME NEW t \in Caller, Inv, CollectClaim(t),
                      ~(state # CM_DISCONNECT /\ link \in {"replied", "up", "closing"})
               PROVE  Inv'
    BY DEF Keeps
  <1>1. Types' /\ Handshake' /\ Disconnection'
    BY OpenKept, CalmKept DEF Inv, Types, Handshake, Disconnection, CollectClaim
  <1>2. BringUp'
    BY DEF Inv, BringUp, CollectClaim, Untouched
  <1>3. Handlers'
    BY HasEmpty, CalmKept DEF Inv, Types, Handlers, Disconnection, CollectClaim
  <1>4. Messaging'
    BY HasEmpty DEF Inv, Types, Messaging, Handshake, CollectClaim, Open, Calm
  <1>5. Disk'
    BY HasEmpty, OpenKept DEF Inv, Types, Disk, Disconnection, CollectClaim, Calm
  <1> QED
    BY <1>1, <1>2, <1>3, <1>4, <1>5 DEF Inv

LEMMA CollectWaitKeeps ==
  \A t \in Caller : \A signal \in BOOLEAN :
    Keeps(NoSignal /\ CollectWait(t, signal))
  <1> SUFFICES ASSUME NEW t \in Caller, NEW signal \in BOOLEAN, Inv, NoSignal, CollectWait(t, signal)
               PROVE  Inv'
    BY DEF Keeps
  <1>1. Types' /\ BringUp' /\ Handshake' /\ Disconnection'
    BY OpenKept, CalmKept, UntouchedKept DEF Inv, Types, BringUp, Handshake, Disconnection, CollectWait,
                                             Waited, NoSignal
  <1>2. Handlers'
    BY HasEmpty, CalmKept DEF Inv, Types, Handlers, Disconnection, CollectWait, Waited, NoSignal
  <1>3. Messaging'
    BY HasEmpty DEF Inv, Types, Messaging, Handshake, CollectWait, Waited, NoSignal, Open, Calm
  <1>4. Disk'
    BY HasEmpty, OpenKept DEF Inv, Types, Disk, Disconnection, CollectWait, Waited, NoSignal, Calm
  <1> QED
    BY <1>1, <1>2, <1>3, <1>4 DEF Inv

LEMMA CollectFreeKeeps == \A t \in Caller : Keeps(CollectFree(t))
  <1> SUFFICES ASSUME NEW t \in Caller, Inv, CollectFree(t) PROVE Inv'
    BY DEF Keeps
  <1>a. /\ cq' \in Seq(Completions) /\ net' \in Seq(Messages)
        /\ col' \in [Caller -> {"off", "check", "claim", "wait", "free", "ret"}]
    BY DEF Inv, Types, CollectFree
  <1>b. armed' = FALSE /\ event' = FALSE
    BY Zenon DEF CollectFree
  <1>1. Types'
    BY <1>a, <1>b DEF Inv, Types, CollectFree
  <1>2. BringUp'
    BY DEF Inv, BringUp, CollectFree, Untouched
  <1>3. Handlers'
    BY DEF Inv, Handlers, CollectFree
  <1>4. Messaging' /\ Disk'
    BY HasEmpty DEF Inv, Types, Handlers, Messaging, Disk, CollectFree, Open, Calm
  <1>5. Handshake'
    BY HasEmpty DEF Inv, Types, Handlers, Handshake, CollectFree, Open
  <1>6. Disconnection'
    BY HasEmpty, CalmKept DEF Inv, Types, Handlers, Disconnection, CollectFree
  <1> QED
    BY <1>1, <1>2, <1>3, <1>4, <1>5, <1>6 DEF Inv

LEMMA FreeBlockDeviceKeeps == Keeps(FreeBlockDevice)
  <1> SUFFICES ASSUME Inv, FreeBlockDevice PROVE Inv'
    BY DEF Keeps
  <1>1. Types' /\ Handshake' /\ Disk' /\ Disconnection'
    BY OpenKept, CalmKept DEF Inv, Types, Handshake, Disk, Disconnection, FreeBlockDevice
  <1>2. BringUp'
    BY DEF Inv, BringUp, FreeBlockDevice, Untouched
  <1>3. Handlers'
    BY HasEmpty DEF Inv, Types, Handlers, FreeBlockDevice
  <1>4. Messaging'
    BY OpenKept DEF Inv, Messaging, FreeBlockDevice, Calm
  <1> QED
    BY <1>1, <1>2, <1>3, <1>4 DEF Inv

LEMMA StutterKeeps == Keeps(UNCHANGED vars)
  <1> SUFFICES ASSUME Inv, UNCHANGED vars PROVE Inv'
    BY DEF Keeps
  <1>a. (Open' <=> Open) /\ (Calm' <=> Calm) /\ (Untouched' <=> Untouched)
    BY DEF vars, Open, Calm, Untouched
  <1>1. Types' /\ BringUp'
    BY <1>a DEF vars, Inv, Types, BringUp
  <1>2. Handlers' /\ Messaging'
    BY <1>a DEF vars, Inv, Handlers, Messaging
  <1>3. Handshake' /\ Disk'
    BY <1>a DEF vars, Inv, Handshake, Disk
  <1>4. Disconnection'
    BY <1>a DEF vars, Inv, Disconnection
  <1> QED
    BY <1>1, <1>2, <1>3, <1>4 DEF Inv

LEMMA InitHolds ==
  ASSUME Init PROVE Inv
  <1>1. armed \in BOOLEAN /\ event \in BOOLEAN
    BY Zenon DEF Init
  <1>2. Types
    BY <1>1 DEF Init, Types
  <1>3. ~Open
    BY HasEmpty DEF Init, Open
  <1>4. BringUp /\ Handlers
    BY DEF Init, BringUp, Handlers, Untouched
  <1>5. Messaging
    BY <1>3, HasEmpty DEF Init, Messaging
  <1>6. Handshake /\ Disk
    BY <1>3 DEF Init, Handshake, Disk
  <1>7. Disconnection
    BY DEF Init, Disconnection, Calm
  <1> QED
    BY <1>2, <1>4, <1>5, <1>6, <1>7 DEF Inv

HIDE DEF States, Caller, IDLE, ADDR_RESOLVED, ROUTE_RESOLVED, CONNECTED, FREE_MEM_RECV, RECEIVED_CHUNKS,
         RECV_EVICT, CM_DISCONNECT, ERROR, cqVars, qpVars, srvVars, colVars, outVars

-----------------------------------------------------------------------------
(* Theorems                                                                *)

LEMMA StepKeeps == NoSignal /\ Inv /\ [Next]_vars => NoSignal' /\ Inv'
  <1> SUFFICES ASSUME NoSignal, Inv, [Next]_vars PROVE NoSignal' /\ Inv'
    OBVIOUS
  <1>1. NoSignal'
    BY DEF NoSignal, Next, In, vars
  <1>2. ASSUME InsmodStep PROVE Inv'
    <2>1. RequestChunks => mpc' \in {"wait_chunks", "failed"}
      BY DEF RequestChunks
    <2> QED
      BY <1>2, <2>1, ResolveKeeps, SetupKeeps, ConnectKeeps, FirstArmKeeps, RequestKeeps, RequestFailsKeeps,
         InitDiskKeeps DEF Keeps, InsmodStep
  <1>3. ASSUME NEW signal \in BOOLEAN, Insmod(signal) PROVE Inv'
    BY <1>3, WaitRouteKeeps, WaitConnectedKeeps, WaitFreeSizeKeeps, WaitChunksKeeps DEF Keeps, Insmod
  <1>4. ASSUME CmHandler PROVE Inv'
    BY <1>4, AddrResolvedKeeps, RouteResolvedKeeps, EstablishedKeeps, CmErrorKeeps, DisconnectedByClientKeeps,
       DisconnectedByServerKeeps, DisconnectedReturnsKeeps, TimewaitExitKeeps DEF Keeps, CmHandler
  <1>5. ASSUME CqHandler PROVE Inv'
    BY <1>5, CqEventKeeps, PollEmptyKeeps, PollErrorKeeps, PollSendKeeps, RecvFreeSizeKeeps,
       InitRemoteChunkListKeeps, RecvChunksKeeps, RecvEvictKeeps, PollErrorReturnsKeeps DEF Keeps, CqHandler
  <1>6. ASSUME NEW t \in Caller, Collect(t) PROVE Inv'
    BY <1>6, CollectCheckKeeps, ClaimKeeps, ClaimOffKeeps, CollectFreeKeeps DEF Keeps, Collect
  <1>7. ASSUME NEW t \in Caller, NEW signal \in BOOLEAN, CollectWait(t, signal) PROVE Inv'
    BY <1>7, CollectWaitKeeps DEF Keeps
  <1>8. ASSUME Network \/ ServerDisconnects \/ ServerEvict \/ IoFails PROVE Inv'
    BY <1>8, ReplyKeeps, ServerFreeSizeKeeps, ServerChunksKeeps, ReceiveKeeps, ServerDisconnectsKeeps,
       ServerEvictKeeps, IoFailsKeeps DEF Keeps, Network
  <1>9. ASSUME CleanupModule \/ FreeBlockDevice \/ UNCHANGED vars PROVE Inv'
    BY <1>9, CleanupModuleKeeps, FreeBlockDeviceKeeps, StutterKeeps DEF Keeps
  <1> QED
    BY <1>1, <1>2, <1>3, <1>4, <1>5, <1>6, <1>7, <1>8, <1>9 DEF Next, In, Step

\* Without signals the actors of the session keep the invariant.
THEOREM Invariance == Spec /\ NoSignal => [](NoSignal /\ Inv)
  <1> QED
    BY InitHolds, StepKeeps, PTL DEF Spec

\* Unless a signal interrupts a wait of octopus_RDMA_connect, rmem_init_disk_driver runs over bound
\* chunks, whatever fails and whoever disconnects.
THEOREM DiskSafety == Spec /\ NoSignal => []DiskOverChunks
  <1>1. Inv => DiskOverChunks
    BY DEF Inv, Disk, DiskOverChunks
  <1> QED
    BY <1>1, Invariance, PTL

\* Unless a signal interrupts the wait of octopus_disconenct_and_collect_resource, no caller of it
\* frees the resources before TIMEWAIT_EXIT was reported.
THEOREM FreeSafety == Spec /\ NoSignal => []FreedAfterDisconnect
  <1>1. Inv => FreedAfterDisconnect
    BY DEF Inv, Disconnection, FreedAfterDisconnect
  <1> QED
    BY <1>1, Invariance, PTL

\* octupos_requset_for_chunk asks only after handle_recv_wr has seen FREE_SIZE.
THEOREM RequestOrder == Spec /\ NoSignal => []RequestInOrder
  <1>1. Inv => RequestInOrder
    BY DEF Inv, Handshake, RequestInOrder
  <1> QED
    BY <1>1, Invariance, PTL

\* At most one message waits in the receive buffer that all receives share: one completion of a
\* receive is in the CQ, and then no receive is posted.
THEOREM OneMessage == Spec /\ NoSignal => [](Once(cq, "RECV") /\ (rx > 0 => ~Has(cq, "RECV")))
  <1>1. Inv => Once(cq, "RECV") /\ (rx > 0 => ~Has(cq, "RECV"))
    BY DEF Inv, Messaging
  <1> QED
    BY <1>1, Invariance, PTL

LEMMA Forward == NoSignal /\ Inv /\ [Next]_vars => state' >= state \/ (state = ERROR /\ state' = CM_DISCONNECT)
  <1> USE DEF States, IDLE, ADDR_RESOLVED, ROUTE_RESOLVED, CONNECTED, FREE_MEM_RECV, RECEIVED_CHUNKS,
              RECV_EVICT, CM_DISCONNECT, ERROR
  <1> SUFFICES ASSUME NoSignal, Inv, [Next]_vars
               PROVE  state' >= state \/ (state = ERROR /\ state' = CM_DISCONNECT)
    OBVIOUS
  <1>0. state \in States
    BY DEF Inv, Types
  <1>1. CASE UNCHANGED state
    BY <1>0, <1>1
  <1>2. ASSUME InsmodStep \/ CleanupModule \/ FreeBlockDevice
        PROVE  UNCHANGED state \/ (state = 0 /\ state' = IDLE)
    BY <1>2 DEF Inv, BringUp, InsmodStep, Resolve, Setup, Connect, FirstArm, RequestChunks, InitDisk, CleanupModule,
                FreeBlockDevice
  <1>3. ASSUME NEW signal \in BOOLEAN, Insmod(signal) PROVE UNCHANGED state
    BY <1>3 DEF Insmod, WaitRoute, WaitConnected, WaitFreeSize, WaitChunks
  <1>4. ASSUME NEW t \in Caller, Collect(t) PROVE UNCHANGED state
    BY <1>4 DEF Collect, CollectCheck, CollectClaim, CollectFree
  <1>5. ASSUME NEW t \in Caller, NEW signal \in BOOLEAN, CollectWait(t, signal) PROVE UNCHANGED state
    BY <1>5 DEF CollectWait
  <1>6. CASE CmHandler
    <2>1. CASE AddrResolved \/ RouteResolved \/ Established
      BY <2>1 DEF Inv, BringUp, AddrResolved, RouteResolved, Established
    <2>2. CASE CmError
      BY <1>0, <2>2 DEF CmError
    <2>3. CASE TimewaitExit
      BY <1>0, <2>3 DEF TimewaitExit
    <2>4. ASSUME DisconnectedByClient \/ DisconnectedByServer \/ DisconnectedReturns PROVE UNCHANGED state
      BY <2>4 DEF DisconnectedByClient, DisconnectedByServer, DisconnectedReturns
    <2> QED
      BY <1>1, <1>6, <2>1, <2>2, <2>3, <2>4 DEF CmHandler
  <1>7. CASE CqHandler
    <2>1. ASSUME Polled({"RECV"}) PROVE Has(cq, "RECV") /\ Open
      BY <2>1, HasTail DEF Polled, Inv, Types, Open
    <2>2. CASE RecvFreeSize
      <3>1. Open /\ srv = "free_sent"
        BY <2>1, <2>2 DEF RecvFreeSize, Received, Inv, Messaging
      <3> QED
        BY <2>2, <3>1 DEF RecvFreeSize, Inv, Handshake
    <2>3. CASE RecvChunks \/ RecvEvict
      <3>1. Open /\ srv \notin {"none", "free_sent"}
        BY <2>1, <2>3 DEF RecvChunks, RecvEvict, Received, Inv, Messaging
      <3>2. srv \in {"requested", "answered"}
        BY <3>1 DEF Inv, Types
      <3>3. state = FREE_MEM_RECV
        BY <3>1, <3>2 DEF Inv, Handshake
      <3> QED
        BY <2>3, <3>3 DEF RecvChunks, RecvEvict
    <2>4. CASE PollError
      BY <1>0, <2>4 DEF PollError
    <2>5. ASSUME CqEvent \/ PollEmpty \/ PollSend \/ InitRemoteChunkList \/ PollErrorReturns
          PROVE  UNCHANGED state
      BY <2>5 DEF CqEvent, PollEmpty, PollSend, InitRemoteChunkList, PollErrorReturns
    <2> QED
      BY <1>1, <1>7, <2>2, <2>3, <2>4, <2>5 DEF CqHandler
  <1>8. ASSUME Network \/ ServerDisconnects \/ ServerEvict \/ IoFails PROVE UNCHANGED state
    BY <1>8 DEF Network, Reply, ServerFreeSize, ServerChunks, ServerSends, Receive, ServerDisconnects,
                ServerEvict, IoFails
  <1>9. ASSUME UNCHANGED vars PROVE UNCHANGED state
    BY <1>9 DEF vars
  <1> HIDE DEF States, IDLE, ADDR_RESOLVED, ROUTE_RESOLVED, CONNECTED, FREE_MEM_RECV, RECEIVED_CHUNKS,
               RECV_EVICT, CM_DISCONNECT, ERROR
  <1>10. CASE state = 0 /\ state' = IDLE
    BY <1>10 DEF IDLE
  <1> QED
    BY <1>1, <1>2, <1>3, <1>4, <1>5, <1>6, <1>7, <1>8, <1>9, <1>10 DEF Next, In, Step

\* The two handlers never store an earlier stage over a later one, if no signal lets insmod run ahead of
\* them: the only step down is from ERROR to CM_DISCONNECT, at the end of a disconnection.
THEOREM ForwardOnly == Spec /\ NoSignal => StateForward
  <1> QED
    BY Forward, Invariance, PTL DEF Spec, StateForward
=============================================================================
