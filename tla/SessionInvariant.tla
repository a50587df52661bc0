-------------------------- MODULE SessionInvariant --------------------------
(***************************************************************************)
(* The inductive invariant of Session, and the proofs that the steps of    *)
(* insmod and rmmod and of the connection event handler keep it.           *)
(***************************************************************************)
EXTENDS Session, TLAPS

\* wait_event_interruptible is only left when its condition holds.
NoSignal == "signal" \notin faults

-----------------------------------------------------------------------------
(* The inductive invariant                                                 *)

States == {0, IDLE, ADDR_RESOLVED, ROUTE_RESOLVED, CONNECTED, FREE_MEM_RECV, RECEIVED_CHUNKS,
           RECV_EVICT, CM_DISCONNECT, ERROR}

Messages == {"FREE_SIZE", "CHUNKS", "EVICT"}

Completions == {"RECV", "SEND", "FLUSH", "BAD"}

\* Element x occurs in sequence s.
Has(s, x) == \E i \in 1 .. Len(s) : s[i] = x

\* ... and at one place only.
Once(s, x) == \A i, j \in 1 .. Len(s) : s[i] = x /\ s[j] = x => i = j

Types ==
  /\ state \in States /\ freed \in Nat /\ rx \in {0, 1}
  /\ net \in Seq(Messages) /\ cq \in Seq(Completions)
  /\ srv \in {"none", "free_sent", "requested", "answered"}
  /\ armed \in BOOLEAN /\ event \in BOOLEAN
  /\ col \in [Caller -> {"off", "check", "claim", "wait", "free", "ret"}]

\* A message of the server may still reach handle_recv_wr.
Open == rx > 0 \/ Has(cq, "RECV")

\* No caller but the connection event handler collects, and that one is held up: it waits
\* in its own event for an event that can only be reported after it.
Calm ==
  /\ col["cq"] = "off" /\ col["rmmod"] = "off" /\ col["cm"] \notin {"ret", "free"}
  /\ freed # 0 => col["cm"] = "wait"
  /\ link \notin {"closed", "none"} /\ (link = "timewait" => cpc = "collect")
  /\ ~Has(cq, "FLUSH") /\ ~Has(cq, "BAD")
  /\ disk # "online" /\ chunks # "freed"

\* Nothing but the connection manager has worked on the session yet.
Untouched ==
  /\ srv = "none" /\ net = <<>> /\ cq = <<>> /\ ~event /\ hpc = "idle" /\ cpc = "idle"
  /\ col = [t \in Caller |-> "off"] /\ freed = 0 /\ chunks = "none" /\ disk = "none"

\* Before the connection is made: what link says of state, of insmod and of the rest.
BringUp ==
  /\ mpc = "start" => link = "none" /\ state = 0 /\ rx = 0 /\ ~armed /\ Untouched
  /\ link \in {"resolving", "routing", "route", "connecting", "dead"} => Untouched
  /\ link = "resolving" => state = IDLE
  /\ link = "routing" => state = ADDR_RESOLVED
  /\ link \in {"route", "connecting", "replied"} => state = ROUTE_RESOLVED
  /\ link = "dead" => state \in {ADDR_RESOLVED, ERROR}
  /\ mpc = "wait_route" => rx = 0 /\ link \in {"resolving", "routing", "route", "dead"}
  /\ mpc \in {"setup", "connect"} => link = "route"
  /\ mpc = "setup" => rx = 0

\* The completion handler runs only on a session that was connected.
Handlers ==
  /\ (armed => state >= CONNECTED) /\ (event => state >= CONNECTED)
  /\ hpc # "idle" => state >= CONNECTED
  /\ mpc \in {"arm", "wait_free", "request", "wait_chunks", "disk", "loaded", "unload"}
       => state >= CONNECTED
  /\ hpc = "collect" <=> col["cq"] # "off"
  /\ cpc = "collect" <=> col["cm"] # "off"
  /\ cpc = "collect" => link = "timewait"
  /\ col["cm"] # "free"
  /\ col["rmmod"] # "off" => mpc = "unload"

\* One receive at a time, and what can be in it.
Messaging ==
  /\ rx > 0 => ~Has(cq, "RECV")
  /\ Once(cq, "RECV")
  /\ rx > 0 => link \in {"route", "connecting", "replied", "up", "closing", "dead"}
  /\ Open => Calm
  /\ srv = "none" => net = <<>> /\ ~Has(cq, "RECV")
  /\ srv = "free_sent" => Len(net) <= 1 /\ (net # <<>> => ~Has(cq, "RECV"))
  /\ srv \in {"none", "free_sent"} => ~Has(net, "CHUNKS") /\ ~Has(net, "EVICT")
  /\ srv \in {"requested", "answered"} => ~Has(net, "FREE_SIZE")
  /\ Has(cq, "RECV") =>
       recv_buf \in (IF srv = "free_sent" THEN {"FREE_SIZE"} ELSE {"CHUNKS", "EVICT"})

\* The handshake: the stage of state, of insmod and of the server.
Handshake ==
  /\ srv = "none" /\ rx > 0 => state \in {ROUTE_RESOLVED, CONNECTED, ERROR}
  /\ srv = "free_sent" /\ Open => state \in {ROUTE_RESOLVED, CONNECTED}
  /\ srv = "free_sent" /\ state = FREE_MEM_RECV => net = <<>>
  /\ srv \in {"requested", "answered"} =>
       /\ chunks # "none" \/ hpc = "list"
       /\ Open => state = FREE_MEM_RECV
  /\ state = FREE_MEM_RECV => srv # "none" /\ (chunks # "none" \/ hpc = "list")
  /\ mpc \in {"start", "wait_route", "setup", "connect", "wait_connected", "arm", "wait_free"}
       => srv \in {"none", "free_sent"}
  /\ mpc = "request" => srv = "free_sent" /\ net = <<>> /\ ~Open /\ (chunks # "none" \/ hpc = "list")
  /\ mpc = "request" /\ link = "up" => state = FREE_MEM_RECV
  /\ mpc \in {"wait_chunks", "disk", "loaded", "unload", "unloaded"} => srv \in {"requested", "answered"}

\* The disk and the chunks under it.
Disk ==
  /\ disk = "online" => mpc \in {"loaded", "unload"}
  /\ mpc \in {"disk", "loaded", "unload"} => ~Open /\ hpc # "list"
  /\ (mpc = "wait_chunks" /\ state = RECEIVED_CHUNKS) \/ mpc = "disk" => Calm /\ chunks = "bound"
  /\ state \in {RECEIVED_CHUNKS, RECV_EVICT} => ~Open /\ hpc # "list"

\* The end of the connection.
Disconnection ==
  /\ state = CM_DISCONNECT => link \in {"closed", "none"}
  /\ link = "closed" => state \in {CM_DISCONNECT, ERROR}
  /\ \A t \in Caller : col[t] = "free" => link \in {"closed", "none"} /\ state \in {CM_DISCONNECT, ERROR}
  /\ chunks = "freed" => link = "none" /\ state \in {CM_DISCONNECT, ERROR} /\ hpc # "list"
  /\ link \in {"replied", "up"} /\ mpc \notin {"loaded", "unload", "unloaded"} => Calm /\ state # ERROR

Inv == Types /\ BringUp /\ Handlers /\ Messaging /\ Handshake /\ Disk /\ Disconnection

\* What the runs and the theorems use: a signal ends a wait too early, see Session.
IInv == NoSignal => Inv

-----------------------------------------------------------------------------
(* Queues                                                                  *)

LEMMA HasEmpty == \A x : ~Has(<<>>, x) /\ Once(<<>>, x)
  BY DEF Has, Once

LEMMA HasAppend ==
  ASSUME NEW S, NEW s \in Seq(S), NEW e \in S
  PROVE  /\ Append(s, e) \in Seq(S) /\ Append(s, e) # <<>>
         /\ \A x : Has(Append(s, e), x) <=> Has(s, x) \/ e = x
         /\ \A x : Once(s, x) /\ (e = x => ~Has(s, x)) => Once(Append(s, e), x)
  <1>1. Append(s, e) \in Seq(S) /\ Append(s, e) # <<>> /\ Len(Append(s, e)) = Len(s) + 1
    <2>1. Append(s, e) \in Seq(S) /\ Len(Append(s, e)) = Len(s) + 1 /\ Len(s) \in Nat
      OBVIOUS
    <2> QED
      BY <2>1
  <1>2. \A i \in 1 .. Len(s) : Append(s, e)[i] = s[i]
    OBVIOUS
  <1>3. Append(s, e)[Len(s) + 1] = e
    OBVIOUS
  <1>4. Len(s) \in Nat
    OBVIOUS
  <1> DEFINE t == Append(s, e)
  <1> HIDE DEF t
  <1>5. \A x : Has(t, x) <=> Has(s, x) \/ e = x
    BY <1>1, <1>2, <1>3, <1>4 DEF Has, t
  <1>6. \A x : Once(s, x) /\ (e = x => ~Has(s, x)) => Once(t, x)
    BY <1>1, <1>2, <1>3, <1>4 DEF Has, Once, t
  <1> QED
    BY <1>1, <1>5, <1>6 DEF t

LEMMA HasTail ==
  ASSUME NEW S, NEW s \in Seq(S), s # <<>>
  PROVE  /\ Tail(s) \in Seq(S) /\ Len(Tail(s)) = Len(s) - 1
         /\ Head(s) \in S /\ Has(s, Head(s))
         /\ \A x : Has(Tail(s), x) => Has(s, x)
         /\ \A x : Once(s, x) => Once(Tail(s), x) /\ (Head(s) = x => ~Has(Tail(s), x))
  <1>1. Tail(s) \in Seq(S) /\ Len(Tail(s)) = Len(s) - 1 /\ Head(s) \in S /\ Head(s) = s[1]
    OBVIOUS
  <1>2. \A i \in 1 .. Len(s) - 1 : Tail(s)[i] = s[i + 1]
    OBVIOUS
  <1>3. Len(s) \in Nat /\ Len(s) >= 1
    OBVIOUS
  <1> DEFINE t == Tail(s)
  <1> HIDE DEF t
  <1>4. Has(s, Head(s))
    BY <1>1, <1>3 DEF Has
  <1>5. \A x : Has(t, x) => Has(s, x)
    BY <1>1, <1>2, <1>3 DEF Has, t
  <1>6. \A x : Once(s, x) => Once(t, x) /\ (Head(s) = x => ~Has(t, x))
    BY <1>1, <1>2, <1>3 DEF Has, Once, t
  <1> QED
    BY <1>1, <1>4, <1>5, <1>6 DEF t

LEMMA HasConcat ==
  ASSUME NEW S, NEW s \in Seq(S), NEW t \in Seq(S)
  PROVE  /\ s \o t \in Seq(S)
         /\ \A x : Has(s \o t, x) <=> Has(s, x) \/ Has(t, x)
         /\ \A x : Once(s, x) /\ ~Has(t, x) => Once(s \o t, x)
  <1> DEFINE u == s \o t
  <1>1. u \in Seq(S) /\ Len(u) = Len(s) + Len(t) /\ Len(s) \in Nat /\ Len(t) \in Nat
    OBVIOUS
  <1>2. \A i \in 1 .. Len(s) : u[i] = s[i]
    OBVIOUS
  <1>3. \A i \in 1 .. Len(t) : u[Len(s) + i] = t[i]
    OBVIOUS
  <1>4. \A i \in 1 .. Len(t) : Len(s) + i \in 1 .. Len(u)
    BY <1>1
  <1>5. \A i \in 1 .. Len(u) : i \notin 1 .. Len(s) => i - Len(s) \in 1 .. Len(t) /\ u[i] = t[i - Len(s)]
    BY <1>1
  <1> HIDE DEF u
  <1>6. \A x : Has(u, x) <=> Has(s, x) \/ Has(t, x)
    <2> SUFFICES ASSUME NEW x PROVE Has(u, x) <=> Has(s, x) \/ Has(t, x)
      OBVIOUS
    <2>1. Has(u, x) => Has(s, x) \/ Has(t, x)
      BY <1>2, <1>5 DEF Has
    <2>2. Has(s, x) => Has(u, x)
      BY <1>1, <1>2 DEF Has
    <2>3. Has(t, x) => Has(u, x)
      BY <1>3, <1>4 DEF Has
    <2> QED
      BY <2>1, <2>2, <2>3
  <1>7. \A x : Once(s, x) /\ ~Has(t, x) => Once(u, x)
    <2> SUFFICES ASSUME NEW x, Once(s, x), ~Has(t, x), NEW i \in 1 .. Len(u), NEW j \in 1 .. Len(u),
                        u[i] = x, u[j] = x
                 PROVE  i = j
      BY DEF Once
    <2>1. i \in 1 .. Len(s) /\ j \in 1 .. Len(s)
      BY <1>5 DEF Has
    <2> QED
      BY <1>2, <2>1 DEF Once
  <1> QED
    BY <1>1, <1>6, <1>7 DEF u

\* A completion or a message joins its queue.
LEMMA QueueTypes ==
  /\ \A c \in {"RECV", "SEND", "FLUSH", "BAD"} : c \in Completions
  /\ \A m \in {"FREE_SIZE", "CHUNKS", "EVICT"} : m \in Messages
  BY DEF Completions, Messages

\* What rdma_disconnect adds to the CQ is no message and no failed I/O.
LEMMA Flushed ==
  ASSUME Types, Flush
  PROVE  /\ cq' \in Seq(Completions) /\ rx' = 0 /\ net' = <<>>
         /\ armed' \in BOOLEAN /\ event' \in BOOLEAN
         /\ armed' => armed
         /\ event' => event \/ armed
         /\ Has(cq', "RECV") => Has(cq, "RECV")
         /\ Once(cq, "RECV") => Once(cq', "RECV")
         /\ rx = 0 /\ disk # "online" => cq' = cq
  <1>1. PICK io \in {0, 1} :
          LET flushed == [i \in 1 .. (rx + io) |-> "FLUSH"]
              report  == armed /\ flushed # <<>>
          IN  /\ cq' = cq \o flushed
              /\ event' = (event \/ report) /\ armed' = (armed /\ ~report)
              /\ rx' = 0 /\ net' = <<>>
              /\ disk # "online" => io = 0
    BY DEF Flush
  <1> DEFINE flushed == [i \in 1 .. (rx + io) |-> "FLUSH"]
  <1>2. rx + io \in Nat
    BY DEF Types
  <1>3. flushed \in Seq(Completions) /\ Len(flushed) = rx + io
    BY <1>2 DEF Completions
  <1>4. ~Has(flushed, "RECV")
    BY <1>3 DEF Has
  <1>5. cq \in Seq(Completions)
    BY DEF Types
  <1> HIDE DEF flushed
  <1>6. /\ cq \o flushed \in Seq(Completions)
        /\ \A x : Has(cq \o flushed, x) <=> Has(cq, x) \/ Has(flushed, x)
        /\ \A x : Once(cq, x) /\ ~Has(flushed, x) => Once(cq \o flushed, x)
    BY <1>3, <1>5, HasConcat
  <1>7. cq' = cq \o flushed /\ rx' = 0 /\ net' = <<>>
    BY <1>1 DEF flushed
  <1>8. /\ armed' \in BOOLEAN /\ event' \in BOOLEAN
        /\ armed' => armed
        /\ event' => event \/ armed
    BY <1>1 DEF Types
  <1>9. rx = 0 /\ disk # "online" => cq \o flushed = cq
    <2>1. rx = 0 /\ disk # "online" => flushed = <<>>
      BY <1>1 DEF flushed
    <2> QED
      BY <1>5, <2>1
  <1> QED
    BY <1>4, <1>6, <1>7, <1>8, <1>9

-----------------------------------------------------------------------------
(* One lemma per step: it keeps the invariant                              *)

\* Action A keeps the invariant.
Keeps(A) == Inv /\ A => Inv'

USE DEF States, Caller, IDLE, ADDR_RESOLVED, ROUTE_RESOLVED, CONNECTED, FREE_MEM_RECV, RECEIVED_CHUNKS,
        RECV_EVICT, CM_DISCONNECT, ERROR, cqVars, qpVars, srvVars, colVars, outVars

LEMMA OpenKept == UNCHANGED <<rx, cq>> => (Open' <=> Open)
  BY DEF Open

LEMMA CalmKept == UNCHANGED <<col, freed, link, cpc, cq, disk, chunks>> => (Calm' <=> Calm)
  BY DEF Calm

LEMMA UntouchedKept ==
  UNCHANGED <<srv, net, cq, event, hpc, cpc, col, freed, chunks, disk>> => (Untouched' <=> Untouched)
  BY DEF Untouched

LEMMA ResolveKeeps == Keeps(Resolve)
  <1> SUFFICES ASSUME Inv, Resolve PROVE Inv'
    BY DEF Keeps
  <1>1. Types' /\ Disk'
    BY OpenKept, CalmKept DEF Inv, Types, Disk, Resolve
  <1>2. BringUp'
    BY DEF Inv, BringUp, Resolve, Untouched
  <1>3. Handlers'
    BY HasEmpty DEF Inv, Types, BringUp, Handlers, Resolve, Untouched
  <1>4. Messaging'
    BY HasEmpty, OpenKept, UntouchedKept DEF Inv, Types, BringUp, Messaging, Resolve, Calm
  <1>5. Handshake' /\ Disconnection'
    BY HasEmpty, OpenKept, CalmKept, UntouchedKept DEF Inv, Types, BringUp, Handshake, Disconnection,
        Resolve
  <1> QED
    BY <1>1, <1>2, <1>3, <1>4, <1>5 DEF Inv

LEMMA SetupKeeps == Keeps(Setup)
  <1> SUFFICES ASSUME Inv, Setup PROVE Inv'
    BY DEF Keeps
  <1>1. Types' /\ Handshake' /\ Disk'
    BY HasEmpty, OpenKept, CalmKept, UntouchedKept DEF Inv, Types, BringUp, Handshake, Disk, Setup
  <1>2. BringUp' /\ Handlers' /\ Disconnection'
    BY CalmKept, UntouchedKept DEF Inv, BringUp, Handlers, Disconnection, Setup
  <1>3. Messaging'
    BY HasEmpty, OpenKept DEF Inv, Types, BringUp, Messaging, Setup, Calm, Untouched
  <1> QED
    BY <1>1, <1>2, <1>3 DEF Inv

LEMMA ConnectKeeps == Keeps(Connect)
  <1> SUFFICES ASSUME Inv, Connect PROVE Inv'
    BY DEF Keeps
  <1>1. Types' /\ BringUp' /\ Handshake' /\ Disk'
    BY OpenKept, CalmKept, UntouchedKept DEF Inv, Types, BringUp, Handshake, Disk, Connect
  <1>2. Handlers' /\ Disconnection'
    BY HasEmpty, CalmKept, UntouchedKept DEF Inv, Types, BringUp, Handlers, Disconnection, Connect
  <1>3. Messaging'
    BY OpenKept DEF Inv, Messaging, Connect, Calm
  <1> QED
    BY <1>1, <1>2, <1>3 DEF Inv

LEMMA FirstArmKeeps == Keeps(FirstArm)
  <1> SUFFICES ASSUME Inv, FirstArm PROVE Inv'
    BY DEF Keeps
  <1>a. armed' \in BOOLEAN /\ event' \in BOOLEAN
    BY Zenon DEF Inv, Types, FirstArm, Arm
  <1>1. Types'
    BY <1>a DEF Inv, Types, FirstArm, Arm
  <1>2. BringUp'
    BY DEF Inv, BringUp, FirstArm, Arm, Untouched
  <1>3. Handlers' /\ Messaging' /\ Handshake' /\ Disk'
    BY OpenKept, CalmKept DEF Inv, Handlers, Messaging, Handshake, Disk, FirstArm, Arm
  <1>4. Disconnection'
    BY CalmKept DEF Inv, Disconnection, FirstArm, Arm
  <1> QED
    BY <1>1, <1>2, <1>3, <1>4 DEF Inv

LEMMA RequestKeeps == Keeps(RequestChunks /\ mpc' = "wait_chunks")
  <1> SUFFICES ASSUME Inv, RequestChunks, mpc' = "wait_chunks" PROVE Inv'
    BY DEF Keeps
  <1>a. /\ mpc = "request" /\ link = "up" /\ rx = 0 /\ rx' = 1 /\ ~Has(cq, "RECV") /\ net' = <<>>
        /\ srv' = "requested" /\ cq' = Append(cq, "SEND") /\ cq \in Seq(Completions) /\ Once(cq, "RECV")
    BY DEF Inv, Types, Messaging, Handshake, RequestChunks, Open
  <1>b. /\ cq' \in Seq(Completions) /\ cq' # <<>>
        /\ Has(cq', "RECV") <=> Has(cq, "RECV")
        /\ Has(cq', "FLUSH") <=> Has(cq, "FLUSH")
        /\ Has(cq', "BAD") <=> Has(cq, "BAD")
        /\ Once(cq', "RECV")
    BY <1>a, QueueTypes, HasAppend
  <1>c. Calm' /\ state # ERROR
    BY <1>a, <1>b DEF Inv, Disconnection, RequestChunks, Calm
  <1>d. armed' \in BOOLEAN /\ event' \in BOOLEAN
    BY <1>a DEF Inv, Types, RequestChunks
  <1>1. Types'
    BY <1>a, <1>b, <1>d DEF Inv, Types, RequestChunks
  <1>2. BringUp' /\ Handlers' /\ Handshake'
    BY <1>a, <1>b, <1>c, OpenKept, UntouchedKept DEF Inv, BringUp, Handlers, Handshake, RequestChunks
  <1>3. Messaging'
    BY <1>a, <1>b, <1>c, HasEmpty DEF Inv, Types, Messaging, RequestChunks, Open, Calm
  <1>4. Disk'
    BY <1>a, <1>b, <1>c, HasEmpty, OpenKept, CalmKept DEF Inv, Types, Handshake, Disk, RequestChunks
  <1>5. Disconnection'
    BY <1>a, <1>b, <1>c DEF Inv, Disconnection, RequestChunks, Calm
  <1> QED
    BY <1>1, <1>2, <1>3, <1>4, <1>5 DEF Inv

LEMMA RequestFailsKeeps == Keeps(RequestChunks /\ mpc' = "failed")
  <1> SUFFICES ASSUME Inv, RequestChunks, mpc' = "failed" PROVE Inv'
    BY DEF Keeps
  <1>1. Types' /\ Handlers' /\ Messaging' /\ Handshake'
    BY OpenKept, CalmKept DEF Inv, Types, Handlers, Messaging, Handshake, RequestChunks
  <1>2. BringUp'
    BY HasEmpty, UntouchedKept DEF Inv, Types, BringUp, Handlers, RequestChunks
  <1>3. Disk' /\ Disconnection'
    BY OpenKept, CalmKept DEF Inv, Disk, Disconnection, RequestChunks
  <1> QED
    BY <1>1, <1>2, <1>3 DEF Inv

LEMMA InitDiskKeeps == Keeps(InitDisk)
  <1> SUFFICES ASSUME Inv, InitDisk PROVE Inv'
    BY DEF Keeps
  <1>1. Types' /\ Handlers' /\ Handshake' /\ Disk'
    BY OpenKept, CalmKept DEF Inv, Types, Handlers, Handshake, Disk, InitDisk
  <1>2. BringUp'
    BY HasEmpty, OpenKept DEF Inv, Types, BringUp, Handshake, InitDisk, Untouched
  <1>3. Messaging'
    BY HasEmpty, OpenKept, CalmKept DEF Inv, Types, Messaging, Disk, InitDisk
  <1>4. Disconnection'
    BY CalmKept DEF Inv, Disconnection, InitDisk
  <1> QED
    BY <1>1, <1>2, <1>3, <1>4 DEF Inv

LEMMA CleanupModuleKeeps == Keeps(CleanupModule)
  <1> SUFFICES ASSUME Inv, CleanupModule PROVE Inv'
    BY DEF Keeps
  <1>1. Types' /\ Handlers' /\ Handshake' /\ Disk'
    BY OpenKept, CalmKept DEF Inv, Types, Handlers, Handshake, Disk, CleanupModule
  <1>2. BringUp'
    BY HasEmpty, OpenKept DEF Inv, Types, BringUp, Handshake, CleanupModule, Untouched
  <1>3. Messaging'
    BY HasEmpty, OpenKept, CalmKept DEF Inv, Types, Messaging, Disk, CleanupModule
  <1>4. Disconnection'
    BY CalmKept DEF Inv, Disconnection, CleanupModule
  <1> QED
    BY <1>1, <1>2, <1>3, <1>4 DEF Inv

LEMMA WaitRouteKeeps == \A signal \in BOOLEAN : Keeps(NoSignal /\ WaitRoute(signal))
  <1> SUFFICES ASSUME NEW signal \in BOOLEAN, Inv, NoSignal, WaitRoute(signal) PROVE Inv'
    BY DEF Keeps
  <1>1. Types' /\ BringUp' /\ Handlers' /\ Messaging'
    BY OpenKept, CalmKept, UntouchedKept DEF Inv, Types, BringUp, Handlers, Messaging, WaitRoute,
                                             Waited, NoSignal
  <1>2. Handshake' /\ Disk' /\ Disconnection'
    BY OpenKept, CalmKept DEF Inv, Handshake, Disk, Disconnection, WaitRoute, Waited, NoSignal
  <1> QED
    BY <1>1, <1>2 DEF Inv

LEMMA WaitConnectedKeeps == \A signal \in BOOLEAN : Keeps(NoSignal /\ WaitConnected(signal))
  <1> SUFFICES ASSUME NEW signal \in BOOLEAN, Inv, NoSignal, WaitConnected(signal) PROVE Inv'
    BY DEF Keeps
  <1>1. Types' /\ BringUp' /\ Handlers' /\ Messaging'
    BY OpenKept, CalmKept, UntouchedKept DEF Inv, Types, BringUp, Handlers, Messaging, WaitConnected,
                                             Waited, NoSignal
  <1>2. Handshake' /\ Disk' /\ Disconnection'
    BY OpenKept, CalmKept DEF Inv, Handshake, Disk, Disconnection, WaitConnected, Waited, NoSignal
  <1> QED
    BY <1>1, <1>2 DEF Inv

LEMMA WaitFreeSizeKeeps == \A signal \in BOOLEAN : Keeps(NoSignal /\ WaitFreeSize(signal))
  <1> SUFFICES ASSUME NEW signal \in BOOLEAN, Inv, NoSignal, WaitFreeSize(signal) PROVE Inv'
    BY DEF Keeps
  <1>1. Types' /\ BringUp' /\ Handlers' /\ Messaging'
    BY OpenKept, CalmKept, UntouchedKept DEF Inv, Types, BringUp, Handlers, Messaging, WaitFreeSize,
                                             Waited, NoSignal
  <1>2. Handshake' /\ Disk' /\ Disconnection'
    BY OpenKept, CalmKept DEF Inv, Handshake, Disk, Disconnection, WaitFreeSize, Waited, NoSignal
  <1> QED
    BY <1>1, <1>2 DEF Inv

LEMMA WaitChunksKeeps == \A signal \in BOOLEAN : Keeps(NoSignal /\ WaitChunks(signal))
  <1> SUFFICES ASSUME NEW signal \in BOOLEAN, Inv, NoSignal, WaitChunks(signal) PROVE Inv'
    BY DEF Keeps
  <1>1. Types' /\ BringUp' /\ Handlers' /\ Messaging'
    BY OpenKept, CalmKept, UntouchedKept DEF Inv, Types, BringUp, Handlers, Messaging, WaitChunks,
                                             Waited, NoSignal
  <1>2. Handshake' /\ Disk' /\ Disconnection'
    BY OpenKept, CalmKept DEF Inv, Handshake, Disk, Disconnection, WaitChunks, Waited, NoSignal
  <1> QED
    BY <1>1, <1>2 DEF Inv

LEMMA AddrResolvedKeeps == Keeps(AddrResolved)
  <1> SUFFICES ASSUME Inv, AddrResolved PROVE Inv'
    BY DEF Keeps
  <1>1. Types' /\ BringUp' /\ Disconnection'
    BY CalmKept, UntouchedKept DEF Inv, Types, BringUp, Disconnection, AddrResolved
  <1>2. Handlers' /\ Handshake'
    BY HasEmpty, OpenKept, UntouchedKept DEF Inv, Types, BringUp, Handlers, Handshake, AddrResolved
  <1>3. Messaging' /\ Disk'
    BY OpenKept DEF Inv, Messaging, Disk, AddrResolved, Calm
  <1> QED
    BY <1>1, <1>2, <1>3 DEF Inv

LEMMA RouteResolvedKeeps == Keeps(RouteResolved)
  <1> SUFFICES ASSUME Inv, RouteResolved PROVE Inv'
    BY DEF Keeps
  <1>1. Types' /\ BringUp' /\ Disconnection'
    BY CalmKept, UntouchedKept DEF Inv, Types, BringUp, Disconnection, RouteResolved
  <1>2. Handlers' /\ Handshake'
    BY HasEmpty, OpenKept, UntouchedKept DEF Inv, Types, BringUp, Handlers, Handshake, RouteResolved
  <1>3. Messaging' /\ Disk'
    BY OpenKept DEF Inv, Messaging, Disk, RouteResolved, Calm
  <1> QED
    BY <1>1, <1>2, <1>3 DEF Inv

LEMMA ReplyKeeps == Keeps(Reply)
  <1> SUFFICES ASSUME Inv, Reply PROVE Inv'
    BY DEF Keeps
  <1>1. Types' /\ BringUp' /\ Handlers' /\ Handshake'
    BY OpenKept, UntouchedKept DEF Inv, Types, BringUp, Handlers, Handshake, Reply
  <1>2. Messaging' /\ Disk'
    BY OpenKept DEF Inv, Messaging, Disk, Reply, Calm
  <1>3. Disconnection'
    BY HasEmpty DEF Inv, Types, BringUp, Disconnection, Reply, Calm, Untouched
  <1> QED
    BY <1>1, <1>2, <1>3 DEF Inv

LEMMA EstablishedKeeps == Keeps(Established)
  <1> SUFFICES ASSUME Inv, Established PROVE Inv'
    BY DEF Keeps
  <1>1. Types' /\ BringUp' /\ Handlers'
    BY UntouchedKept DEF Inv, Types, BringUp, Handlers, Established
  <1>2. Messaging' /\ Disk'
    BY OpenKept DEF Inv, Messaging, Disk, Established, Calm
  <1>3. Handshake'
    BY HasEmpty DEF Inv, BringUp, Handlers, Handshake, Established, Open, Untouched
  <1>4. Disconnection'
    BY DEF Inv, Disconnection, Established, Calm
  <1> QED
    BY <1>1, <1>2, <1>3, <1>4 DEF Inv

LEMMA CmErrorKeeps == Keeps(CmError)
  <1> SUFFICES ASSUME Inv, CmError PROVE Inv'
    BY DEF Keeps
  <1>1. Types' /\ BringUp' /\ Handlers' /\ Disconnection'
    BY CalmKept, UntouchedKept DEF Inv, Types, BringUp, Handlers, Disconnection, CmError
  <1>2. Messaging' /\ Disk'
    BY OpenKept DEF Inv, Messaging, Disk, CmError, Calm
  <1>3. Handshake'
    BY HasEmpty DEF Inv, Types, BringUp, Handshake, CmError, Open, Untouched
  <1> QED
    BY <1>1, <1>2, <1>3 DEF Inv

LEMMA ServerDisconnectsKeeps == Keeps(ServerDisconnects)
  <1> SUFFICES ASSUME Inv, ServerDisconnects PROVE Inv'
    BY DEF Keeps
  <1>1. Types' /\ BringUp' /\ Handlers' /\ Handshake'
    BY OpenKept, UntouchedKept DEF Inv, Types, BringUp, Handlers, Handshake, ServerDisconnects
  <1>2. Messaging' /\ Disk'
    BY OpenKept DEF Inv, Messaging, Disk, ServerDisconnects, Calm
  <1>3. Disconnection'
    BY CalmKept DEF Inv, Disconnection, ServerDisconnects
  <1> QED
    BY <1>1, <1>2, <1>3 DEF Inv

LEMMA DisconnectedByClientKeeps == Keeps(DisconnectedByClient)
  <1> SUFFICES ASSUME Inv, DisconnectedByClient PROVE Inv'
    BY DEF Keeps
  <1>1. Types' /\ BringUp' /\ Handlers' /\ Handshake'
    BY OpenKept, UntouchedKept DEF Inv, Types, BringUp, Handlers, Handshake, DisconnectedByClient
  <1>2. Messaging'
    BY HasEmpty DEF Inv, Types, Handlers, Messaging, DisconnectedByClient, Open, Calm
  <1>3. Disk'
    BY HasEmpty, OpenKept DEF Inv, Types, Handlers, Disk, DisconnectedByClient, Calm
  <1>4. Disconnection'
    BY CalmKept DEF Inv, Disconnection, DisconnectedByClient
  <1> QED
    BY <1>1, <1>2, <1>3, <1>4 DEF Inv

LEMMA DisconnectedByServerKeeps == Keeps(DisconnectedByServer)
  <1> SUFFICES ASSUME Inv, DisconnectedByServer PROVE Inv'
    BY DEF Keeps
  <1>a. /\ cq' \in Seq(Completions) /\ rx' = 0 /\ net' = <<>>
        /\ armed' \in BOOLEAN /\ event' \in BOOLEAN /\ (armed' => armed) /\ (event' => event \/ armed)
        /\ (Has(cq', "RECV") => Has(cq, "RECV")) /\ Once(cq', "RECV")
        /\ rx = 0 /\ disk # "online" => cq' = cq
    BY Flushed DEF Inv, Messaging, DisconnectedByServer
  <1>1. Types' /\ BringUp' /\ Disconnection'
    BY <1>a, CalmKept, UntouchedKept DEF Inv, Types, BringUp, Disconnection, DisconnectedByServer
  <1>2. Handlers'
    BY <1>a, HasEmpty DEF Inv, Types, Handlers, DisconnectedByServer
  <1>3. Messaging' /\ Disk'
    BY <1>a, HasEmpty DEF Inv, Types, Handlers, Messaging, Disk, DisconnectedByServer, Open, Calm
  <1>4. Handshake'
    BY <1>a, HasEmpty DEF Inv, Types, Handlers, Handshake, DisconnectedByServer, Open
  <1> QED
    BY <1>1, <1>2, <1>3, <1>4 DEF Inv

LEMMA DisconnectedReturnsKeeps == Keeps(DisconnectedReturns)
  <1> SUFFICES ASSUME Inv, DisconnectedReturns PROVE Inv'
    BY DEF Keeps
  <1>1. Types' /\ Handshake'
    BY OpenKept DEF Inv, Types, Handshake, DisconnectedReturns
  <1>2. BringUp'
    BY DEF Inv, BringUp, DisconnectedReturns, Untouched
  <1>3. Handlers'
    BY HasEmpty DEF Inv, Types, Handlers, DisconnectedReturns
  <1>4. Messaging' /\ Disk'
    BY OpenKept DEF Inv, Messaging, Disk, DisconnectedReturns, Calm
  <1>5. Disconnection'
    BY DEF Inv, Disconnection, DisconnectedReturns, Calm
  <1> QED
    BY <1>1, <1>2, <1>3, <1>4, <1>5 DEF Inv

LEMMA TimewaitExitKeeps == Keeps(TimewaitExit)
  <1> SUFFICES ASSUME Inv, TimewaitExit PROVE Inv'
    BY DEF Keeps
  <1>1. Types' /\ BringUp' /\ Handlers' /\ Disconnection'
    BY CalmKept, UntouchedKept DEF Inv, Types, BringUp, Handlers, Disconnection, TimewaitExit
  <1>2. Messaging' /\ Disk'
    BY OpenKept DEF Inv, Messaging, Disk, TimewaitExit, Calm
  <1>3. Handshake'
    BY HasEmpty DEF Inv, Types, Messaging, Handshake, TimewaitExit, Open, Calm
  <1> QED
    BY <1>1, <1>2, <1>3 DEF Inv

HIDE DEF States, Caller, IDLE, ADDR_RESOLVED, ROUTE_RESOLVED, CONNECTED, FREE_MEM_RECV, RECEIVED_CHUNKS,
         RECV_EVICT, CM_DISCONNECT, ERROR, cqVars, qpVars, srvVars, colVars, outVars

=============================================================================
