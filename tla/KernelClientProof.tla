------------------------- MODULE KernelClientProof -------------------------
(***************************************************************************)
(* Proofs about KernelClient, for every set of faults, every size the      *)
(* server may announce and every request: the completion handler is called *)
(* only when there is a completion, the one receive buffer is not          *)
(* overwritten, and rmmod frees nothing that the handler still uses.       *)
(***************************************************************************)
EXTENDS KernelClient, TLAPS

Completions == {"SEND", "RECV", "BAD", "FLUSH"}

\* Element x occurs in sequence s.
Has(s, x) == \E i \in 1 .. Len(s) : s[i] = x

\* ... and at one place only.
Once(s, x) == \A i, j \in 1 .. Len(s) : s[i] = x /\ s[j] = x => i = j

\* Only FREE_SIZE is on the wire.
Sizes(s) == \A i \in 1 .. Len(s) : s[i].type = "FREE_SIZE"

-----------------------------------------------------------------------------
(* The inductive invariant                                                 *)

\* The stages of insmod: before the first receive is posted, before the first notification is
\* requested, before the chunks are requested; and those after insmod.
Unposted    == {"start", "wait_route", "create", "buffers", "prepost"}
Unnotified  == Unposted \cup {"connect", "wait_connected", "arm"}
Unrequested == Unnotified \cup {"wait_free", "request"}
Late        == {"returned", "wait_disc", "free_buffers", "free_rdma", "gone"}

Types ==
  /\ net \in Seq(Message) /\ cq \in Seq(Completions)
  /\ armed \in BOOLEAN /\ event \in BOOLEAN

\* Nothing will call the completion handler any more, or ever.
Off == ~armed /\ ~event /\ hpc = "idle"

\* The completion handler runs, is called, or can be called, never two of these; and it is called
\* for a completion that is still there.
Notification ==
  /\ mpc \in Unnotified => Off
  /\ armed => hpc = "idle" /\ ~event
  /\ event => hpc = "idle" /\ cq # <<>>
  /\ hpc = "poll" => cq # <<>>

\* Before rdma_connect there is no connection, and nothing on the wire.
Unconnected ==
  mpc \in Unposted \cup {"connect"} =>
    link \in {"none", "resolving", "routing", "route", "dead", "destroyed"} /\ "rts" \notin made /\ net = <<>>

\* No message is, or can be put, in the receive buffer.
Spent == rx = 0 /\ ~Has(cq, "RECV")

\* Without a signal: one receive or one unread message at a time; FREE_SIZE has used up the
\* first receive when the second is posted.
Buffer ==
  /\ rx \in {0, 1} /\ Once(cq, "RECV")
  /\ rx = 1 => ~Has(cq, "RECV") /\ hpc # "bind"
  /\ hpc = "bind" => ~Has(cq, "RECV")
  /\ mpc \in Unposted => Spent /\ state # FREE_MEM_RECV
  /\ mpc \in Unrequested =>
       /\ srv \notin {"requested", "answered"} /\ Sizes(net) /\ recv_buf.type \in {"none", "FREE_SIZE"}
       /\ hpc # "bind" /\ state # TEST_DONE
  /\ (mpc \in Unrequested /\ state = FREE_MEM_RECV) \/ mpc = "request" => Spent

\* ... and if the request was posted as well: insmod returns only when the handler is done with
\* the messages, or was never to be called.
Finish ==
  /\ \/ mpc \notin Late \cup {"oops"} /\ (net # <<>> \/ Has(cq, "RECV") \/ state = FREE_MEM_RECV)
     \/ mpc = "request"
     => "rts" \in made
  /\ mpc = "wait_done" /\ state = TEST_DONE => Spent /\ hpc \notin {"list", "bind"}
  /\ mpc \in Late => hpc \notin {"list", "bind"} /\ (Off \/ Spent)

IInv ==
  /\ Types /\ Notification /\ Unconnected
  /\ "signal" \notin hit => Buffer
  /\ hit \cap {"request", "signal"} = {} => Finish

-----------------------------------------------------------------------------
(* Queues                                                                  *)

LEMMA Empty == \A x : ~Has(<<>>, x) /\ Once(<<>>, x) /\ Sizes(<<>>)
  BY DEF Has, Once, Sizes

\* The CQ has grown, and has told whoever asked.
Grown ==
  /\ cq' \in Seq(Completions) /\ cq' # <<>>
  /\ armed' \in BOOLEAN /\ event' \in BOOLEAN /\ ~armed' /\ (event' <=> event \/ armed)

\* A completion enters the CQ.
LEMMA Appended ==
  ASSUME Types, NEW c \in Completions, Completion(c)
  PROVE  /\ Grown
         /\ Has(cq', "RECV") <=> Has(cq, "RECV") \/ c = "RECV"
         /\ Once(cq, "RECV") /\ (c = "RECV" => ~Has(cq, "RECV")) => Once(cq', "RECV")
  <1>1. cq \in Seq(Completions) /\ cq' = Append(cq, c) /\ Len(cq) \in Nat
    BY DEF Types, Completion
  <1>2. /\ cq' \in Seq(Completions) /\ Len(cq') = Len(cq) + 1
        /\ \A i \in 1 .. Len(cq) : cq'[i] = cq[i]
        /\ cq'[Len(cq) + 1] = c
    BY <1>1
  <1>3. cq' # <<>>
    BY <1>1, <1>2
  <1>4. Has(cq', "RECV") <=> Has(cq, "RECV") \/ c = "RECV"
    BY <1>1, <1>2 DEF Has
  <1>5. Once(cq, "RECV") /\ (c = "RECV" => ~Has(cq, "RECV")) => Once(cq', "RECV")
    BY <1>1, <1>2 DEF Has, Once
  <1>6. armed' \in BOOLEAN /\ event' \in BOOLEAN /\ ~armed' /\ (event' <=> event \/ armed)
    BY DEF Types, Completion
  <1> QED
    BY <1>2, <1>3, <1>4, <1>5, <1>6 DEF Grown

\* The oldest completion is polled.
LEMMA Popped ==
  ASSUME Types, cq # <<>>, cq' = Tail(cq)
  PROVE  /\ cq' \in Seq(Completions)
         /\ Has(cq', "RECV") => Has(cq, "RECV")
         /\ Once(cq, "RECV") => Once(cq', "RECV")
         /\ Head(cq) = "RECV" => Has(cq, "RECV") /\ (Once(cq, "RECV") => ~Has(cq', "RECV"))
  <1>1. cq \in Seq(Completions) /\ Len(cq) \in Nat /\ Len(cq) >= 1
    BY DEF Types
  <1>2. /\ cq' \in Seq(Completions) /\ Len(cq') = Len(cq) - 1 /\ Head(cq) = cq[1]
        /\ \A i \in 1 .. Len(cq) - 1 : cq'[i] = cq[i + 1]
    BY <1>1
  <1> QED
    BY <1>1, <1>2 DEF Has, Once

\* A message joins those on the wire.
LEMMA Sent ==
  ASSUME Types, NEW m \in Message, net' = Append(net, m)
  PROVE  /\ net' \in Seq(Message) /\ net' # <<>>
         /\ Sizes(net) /\ m.type = "FREE_SIZE" => Sizes(net')
  <1>1. net \in Seq(Message) /\ Len(net) \in Nat
    BY DEF Types
  <1>2. /\ net' \in Seq(Message) /\ Len(net') = Len(net) + 1
        /\ \A i \in 1 .. Len(net) : net'[i] = net[i]
        /\ net'[Len(net) + 1] = m
    BY <1>1
  <1>3. net' # <<>>
    BY <1>1, <1>2
  <1> QED
    BY <1>1, <1>2, <1>3 DEF Sizes

\* The oldest message leaves the wire.
LEMMA Taken ==
  ASSUME Types, net # <<>>, net' = Tail(net)
  PROVE  /\ net' \in Seq(Message) /\ Head(net) \in Message
         /\ Sizes(net) => Sizes(net') /\ Head(net).type = "FREE_SIZE"
  <1>1. net \in Seq(Message) /\ Len(net) \in Nat /\ Len(net) >= 1
    BY DEF Types
  <1>2. /\ net' \in Seq(Message) /\ Len(net') = Len(net) - 1 /\ Head(net) = net[1] /\ Head(net) \in Message
        /\ \A i \in 1 .. Len(net) - 1 : net'[i] = net[i + 1]
    BY <1>1
  <1> QED
    BY <1>1, <1>2 DEF Sizes

-----------------------------------------------------------------------------
(* What the steps that move completions and messages do to the queues      *)

LEMMA RequestEffect ==
  ASSUME Types, RequestChunks
  PROVE  \/ mpc' = "returned" /\ UNCHANGED <<cq, armed, event>>
         \/ /\ mpc' = "wait_done" /\ Grown
            /\ Has(cq', "RECV") <=> Has(cq, "RECV")
            /\ Once(cq, "RECV") => Once(cq', "RECV")
  BY Appended DEF RequestChunks, Completions, cqVars

LEMMA SendEffect ==
  ASSUME Types, Server \/ SendEvict
  PROVE  /\ net' \in Seq(Message) /\ net' # <<>>
         /\ SendFreeSize /\ Sizes(net) => Sizes(net')
  <1>1. CASE SendFreeSize
    <2> PICK n \in FreeSizes : Send("FREE_SIZE", n)
      BY <1>1 DEF SendFreeSize
    <2>1. [type |-> "FREE_SIZE", n |-> n] \in Message
      BY DEF Message
    <2> QED
      BY <2>1, Sent DEF Send
  <1>2. CASE SendChunks
    <2> PICK n \in 0 .. Request : Send("GOT_CHUNKS", n)
      BY <1>2 DEF SendChunks
    <2>1. [type |-> "GOT_CHUNKS", n |-> n] \in Message
      BY DEF Message
    <2> QED
      BY <1>2, <2>1, Sent DEF Send, SendChunks, SendFreeSize
  <1>3. CASE SendEvict
    <2>1. [type |-> "EVICT", n |-> 0] \in Message
      BY DEF Message
    <2> QED
      BY <1>3, <2>1, Sent DEF Send, SendEvict, SendFreeSize
  <1> QED
    BY <1>1, <1>2, <1>3 DEF Server

LEMMA ReceiveEffect ==
  ASSUME Types, Receive
  PROVE  /\ Grown
         /\ Has(cq', "RECV") => Has(cq, "RECV") \/ "mr" \in made
         /\ Once(cq, "RECV") /\ ~Has(cq, "RECV") => Once(cq', "RECV")
         /\ net' \in Seq(Message)
         /\ Sizes(net) => Sizes(net') /\ Head(net).type = "FREE_SIZE"
  <1>1. net' \in Seq(Message) /\ (Sizes(net) => Sizes(net') /\ Head(net).type = "FREE_SIZE")
    BY Taken DEF Receive
  <1> QED
    BY <1>1, Appended DEF Receive, Completions

LEMMA PollEffect ==
  ASSUME Types, PollOne
  PROVE  /\ cq' \in Seq(Completions)
         /\ Has(cq', "RECV") => Has(cq, "RECV")
         /\ Once(cq, "RECV") => Once(cq', "RECV")
         /\ cq # <<>> /\ Head(cq) = "RECV" => Has(cq, "RECV") /\ (Once(cq, "RECV") => ~Has(cq', "RECV"))
  <1>1. CASE cq = <<>>
    BY <1>1 DEF PollOne, Types
  <1>2. CASE cq # <<>>
    BY <1>2, Popped DEF PollOne
  <1> QED
    BY <1>1, <1>2

LEMMA DisconnectEffect ==
  ASSUME Types, Disconnect
  PROVE  \/ UNCHANGED <<cq, armed, event, rx>>
         \/ /\ Grown /\ rx' = 0
            /\ Has(cq', "RECV") <=> Has(cq, "RECV")
            /\ Once(cq, "RECV") => Once(cq', "RECV")
  <1>1. CASE Completion("FLUSH") /\ rx' = 0
    BY <1>1, Appended DEF Completions
  <1>2. CASE UNCHANGED <<cq, armed, event, rx>>
    BY <1>2
  <1> QED
    BY <1>1, <1>2 DEF Disconnect, RdmaDisconnect, qpVars, cqVars

-----------------------------------------------------------------------------
(* Steps                                                                   *)

LEMMA HitGrows == [Next]_vars => hit \subseteq hit'
  BY DEF Next, vars, Insmod, ResolveAddr, WaitRoute, CreateQueues, SetupBuffers, Prepost, Connect,
         WaitConnected, FirstNotify, WaitFreeSize, RequestChunks, WaitDone, Manager, AddrResolved, RouteResolved,
         Reply, Established, Disconnected, CmError, ServerDisconnects, Server, SendFreeSize, SendChunks, SendEvict,
         Receive, Handler, CqEvent, PollOne, InitChunkList, BindChunks, Notify, Disconnect, Rmmod,
         WaitDisconnected, FreeBuffers, FreeRdma, Fault, Waited, ReqNotify, HandlerReturns

LEMMA TypesKept ==
  ASSUME Types, [Next]_vars PROVE Types'
  <1> USE DEF Types, qpVars, cqVars, listVars, Fault
  <1>1. CASE ResolveAddr \/ WaitRoute \/ CreateQueues \/ SetupBuffers
    BY <1>1 DEF ResolveAddr, WaitRoute, CreateQueues, SetupBuffers
  <1>2. CASE Prepost \/ Connect \/ WaitConnected
    BY <1>2 DEF Prepost, Connect, WaitConnected, OnDestroyedId
  <1>3. CASE FirstNotify
    BY <1>3 DEF FirstNotify, ReqNotify
  <1>4. CASE WaitFreeSize \/ WaitDone
    BY <1>4 DEF WaitFreeSize, WaitDone, Waited
  <1>5. CASE RequestChunks
    <2>1. CASE mpc' = "returned"
      BY <1>5, <2>1, RequestEffect DEF RequestChunks
    <2>2. CASE mpc' = "wait_done"
      BY <1>5, <2>2, RequestEffect DEF RequestChunks, Grown
    <2> QED
      BY <1>5, <2>1, <2>2 DEF RequestChunks
  <1>6. CASE Manager \/ CmError \/ ServerDisconnects
    BY <1>6 DEF Manager, AddrResolved, RouteResolved, Reply, Established, Disconnected, CmError, ServerDisconnects, HandlerReturns
  <1>7. CASE Server \/ SendEvict
    BY <1>7, SendEffect DEF Server, SendFreeSize, SendChunks, SendEvict
  <1>8. CASE Receive
    <2>1. CASE "mr" \in made
      BY <1>8, <2>1, ReceiveEffect DEF Receive, Grown
    <2>2. CASE "mr" \notin made
      BY <1>8, <2>2, ReceiveEffect DEF Receive, Grown
    <2> QED
      BY <2>1, <2>2
  <1>9. CASE CqEvent \/ InitChunkList \/ BindChunks
    BY <1>9 DEF CqEvent, InitChunkList, BindChunks
  <1>10. CASE PollOne
    BY <1>10, PollEffect DEF PollOne, HandleRecv
  <1>11. CASE Notify
    BY <1>11 DEF Notify, ReqNotify
  <1>12. CASE Disconnect
    <2>1. net' \in Seq(Message)
      <3>1. CASE net' = net
        BY <3>1
      <3>2. CASE net' = <<>>
        BY <3>2
      <3> QED
        BY <1>12, <3>1, <3>2 DEF Disconnect, RdmaDisconnect
    <2>2. cq' \in Seq(Completions) /\ armed' \in BOOLEAN /\ event' \in BOOLEAN
      <3>1. CASE UNCHANGED <<cq, armed, event, rx>>
        BY <3>1
      <3>2. CASE Grown
        BY <3>2 DEF Grown
      <3> QED
        BY <1>12, <3>1, <3>2, DisconnectEffect
    <2> QED
      BY <2>1, <2>2
  <1>13. CASE WaitDisconnected \/ FreeBuffers
    BY <1>13 DEF WaitDisconnected, FreeBuffers
  <1>14. CASE FreeRdma
    <2>1. CASE UNCHANGED <<cq, armed, event>>
      BY <1>14, <2>1 DEF FreeRdma
    <2>2. CASE cq' = <<>> /\ armed' = FALSE /\ event' = FALSE
      <3>1. armed' \in BOOLEAN /\ event' \in BOOLEAN
        BY <2>2, Zenon
      <3>2. cq' \in Seq(Completions)
        BY <2>2
      <3> QED
        BY <1>14, <3>1, <3>2 DEF FreeRdma
    <2> QED
      BY <1>14, <2>1, <2>2 DEF FreeRdma
  <1>15. CASE UNCHANGED vars
    BY <1>15 DEF vars
  <1> QED
    BY <1>1, <1>2, <1>3, <1>4, <1>5, <1>6, <1>7, <1>8, <1>9, <1>10, <1>11, <1>12, <1>13, <1>14, <1>15 DEF Next, Insmod, Handler, Rmmod

LEMMA NotificationKept ==
  ASSUME Types, Notification, [Next]_vars PROVE Notification'
  <1> USE DEF Notification, Unposted, Unnotified, Off, qpVars, cqVars, listVars, Fault
  <1>1. CASE ResolveAddr \/ WaitRoute \/ CreateQueues \/ SetupBuffers
    BY <1>1 DEF ResolveAddr, WaitRoute, CreateQueues, SetupBuffers
  <1>2. CASE Prepost \/ Connect \/ WaitConnected
    BY <1>2 DEF Prepost, Connect, WaitConnected, OnDestroyedId
  <1>3. CASE FirstNotify
    BY <1>3 DEF FirstNotify, ReqNotify
  <1>4. CASE WaitFreeSize \/ WaitDone
    BY <1>4 DEF WaitFreeSize, WaitDone, Waited
  <1>5. CASE RequestChunks
    <2>1. CASE mpc' = "returned"
      BY <1>5, <2>1, RequestEffect DEF RequestChunks
    <2>2. CASE mpc' = "wait_done"
      BY <1>5, <2>2, RequestEffect DEF RequestChunks, Grown
    <2> QED
      BY <1>5, <2>1, <2>2 DEF RequestChunks
  <1>6. CASE Manager \/ CmError \/ ServerDisconnects
    BY <1>6 DEF Manager, AddrResolved, RouteResolved, Reply, Established, Disconnected, CmError, ServerDisconnects, HandlerReturns
  <1>7. CASE Server \/ SendEvict
    BY <1>7, SendEffect DEF Server, SendFreeSize, SendChunks, SendEvict
  <1>8. CASE Receive
    <2>1. CASE "mr" \in made
      BY <1>8, <2>1, ReceiveEffect DEF Receive, Grown
    <2>2. CASE "mr" \notin made
      BY <1>8, <2>2, ReceiveEffect DEF Receive, Grown
    <2> QED
      BY <2>1, <2>2
  <1>9. CASE CqEvent \/ InitChunkList \/ BindChunks
    BY <1>9 DEF CqEvent, InitChunkList, BindChunks
  <1>10. CASE PollOne
    BY <1>10, PollEffect DEF PollOne, HandleRecv
  <1>11. CASE Notify
    BY <1>11 DEF Notify, ReqNotify
  <1>12. CASE Disconnect
    <2>1. CASE UNCHANGED <<cq, armed, event, rx>>
      BY <1>12, <2>1 DEF Disconnect, RdmaDisconnect, OnDestroyedId
    <2>2. CASE ~UNCHANGED <<cq, armed, event, rx>>
      BY <1>12, <2>2, DisconnectEffect DEF Disconnect, RdmaDisconnect, OnDestroyedId, Grown
    <2> QED
      BY <2>1, <2>2
  <1>13. CASE WaitDisconnected \/ FreeBuffers
    BY <1>13 DEF WaitDisconnected, FreeBuffers
  <1>14. CASE FreeRdma
    BY <1>14 DEF FreeRdma, OnDestroyedId
  <1>15. CASE UNCHANGED vars
    BY <1>15 DEF vars
  <1> QED
    BY <1>1, <1>2, <1>3, <1>4, <1>5, <1>6, <1>7, <1>8, <1>9, <1>10, <1>11, <1>12, <1>13, <1>14, <1>15 DEF Next, Insmod, Handler, Rmmod

LEMMA UnconnectedKept ==
  ASSUME Types, Unconnected, [Next]_vars PROVE Unconnected'
  <1> USE DEF Unconnected, Unposted, qpVars, cqVars, listVars, Fault
  <1>1. CASE ResolveAddr \/ WaitRoute \/ CreateQueues \/ SetupBuffers
    BY <1>1 DEF ResolveAddr, WaitRoute, CreateQueues, SetupBuffers
  <1>2. CASE Prepost \/ Connect \/ WaitConnected
    BY <1>2 DEF Prepost, Connect, WaitConnected, OnDestroyedId
  <1>3. CASE FirstNotify
    BY <1>3 DEF FirstNotify, ReqNotify
  <1>4. CASE WaitFreeSize \/ WaitDone
    BY <1>4 DEF WaitFreeSize, WaitDone, Waited
  <1>5. CASE RequestChunks
    <2>1. CASE mpc' = "returned"
      BY <1>5, <2>1, RequestEffect DEF RequestChunks
    <2>2. CASE mpc' = "wait_done"
      BY <1>5, <2>2, RequestEffect DEF RequestChunks, Grown
    <2> QED
      BY <1>5, <2>1, <2>2 DEF RequestChunks
  <1>6. CASE Manager \/ CmError \/ ServerDisconnects
    BY <1>6 DEF Manager, AddrResolved, RouteResolved, Reply, Established, Disconnected, CmError, ServerDisconnects, HandlerReturns
  <1>7. CASE Server \/ SendEvict
    BY <1>7, SendEffect DEF Server, SendFreeSize, SendChunks, SendEvict
  <1>8. CASE Receive
    <2>1. CASE "mr" \in made
      BY <1>8, <2>1, ReceiveEffect DEF Receive, Grown
    <2>2. CASE "mr" \notin made
      BY <1>8, <2>2, ReceiveEffect DEF Receive, Grown
    <2> QED
      BY <2>1, <2>2
  <1>9. CASE CqEvent \/ InitChunkList \/ BindChunks
    BY <1>9 DEF CqEvent, InitChunkList, BindChunks
  <1>10. CASE PollOne
    BY <1>10, PollEffect DEF PollOne, HandleRecv
  <1>11. CASE Notify
    BY <1>11 DEF Notify, ReqNotify
  <1>12. CASE Disconnect
    <2>1. CASE UNCHANGED <<cq, armed, event, rx>>
      BY <1>12, <2>1 DEF Disconnect, RdmaDisconnect, OnDestroyedId
    <2>2. CASE ~UNCHANGED <<cq, armed, event, rx>>
      BY <1>12, <2>2, DisconnectEffect DEF Disconnect, RdmaDisconnect, OnDestroyedId, Grown
    <2> QED
      BY <2>1, <2>2
  <1>13. CASE WaitDisconnected \/ FreeBuffers
    BY <1>13 DEF WaitDisconnected, FreeBuffers
  <1>14. CASE FreeRdma
    BY <1>14 DEF FreeRdma, OnDestroyedId
  <1>15. CASE UNCHANGED vars
    BY <1>15 DEF vars
  <1> QED
    BY <1>1, <1>2, <1>3, <1>4, <1>5, <1>6, <1>7, <1>8, <1>9, <1>10, <1>11, <1>12, <1>13, <1>14, <1>15 DEF Next, Insmod, Handler, Rmmod

LEMMA BufferKept ==
  ASSUME Types, Notification, Buffer, "signal" \notin hit', [Next]_vars PROVE Buffer'
  <1> USE DEF Buffer, Notification, Unposted, Unnotified, Unrequested, Off, Spent, IDLE, ADDR_RESOLVED, ROUTE_RESOLVED, CONNECTED, FREE_MEM_RECV, RECV_EVICT, CM_DISCONNECT, ERROR, TEST_DONE, qpVars, cqVars, listVars, Fault
  <1>1. CASE ResolveAddr \/ WaitRoute \/ CreateQueues \/ SetupBuffers
    BY <1>1, Empty DEF ResolveAddr, WaitRoute, CreateQueues, SetupBuffers
  <1>2. CASE Prepost \/ Connect \/ WaitConnected
    BY <1>2, Empty DEF Prepost, Connect, WaitConnected, OnDestroyedId
  <1>3. CASE FirstNotify
    BY <1>3, Empty DEF FirstNotify, ReqNotify
  <1>4. CASE WaitFreeSize \/ WaitDone
    BY <1>4, Empty DEF WaitFreeSize, WaitDone, Waited
  <1>5. CASE RequestChunks
    <2>1. CASE mpc' = "returned"
      BY <1>5, <2>1, RequestEffect, Empty DEF RequestChunks
    <2>2. CASE mpc' = "wait_done"
      BY <1>5, <2>2, RequestEffect, Empty DEF RequestChunks, Grown
    <2> QED
      BY <1>5, <2>1, <2>2 DEF RequestChunks
  <1>6. CASE Manager \/ CmError \/ ServerDisconnects
    BY <1>6, Empty DEF Manager, AddrResolved, RouteResolved, Reply, Established, Disconnected, CmError, ServerDisconnects, HandlerReturns
  <1>7. CASE Server \/ SendEvict
    BY <1>7, SendEffect, Empty DEF Server, SendFreeSize, SendChunks, SendEvict
  <1>8. CASE Receive
    <2>1. CASE "mr" \in made
      BY <1>8, <2>1, ReceiveEffect, Empty DEF Receive, Grown
    <2>2. CASE "mr" \notin made
      BY <1>8, <2>2, ReceiveEffect, Empty DEF Receive, Grown
    <2> QED
      BY <2>1, <2>2
  <1>9. CASE CqEvent \/ InitChunkList \/ BindChunks
    BY <1>9, Empty DEF CqEvent, InitChunkList, BindChunks
  <1>10. CASE PollOne
    BY <1>10, PollEffect, Empty DEF PollOne, HandleRecv
  <1>11. CASE Notify
    BY <1>11, Empty DEF Notify, ReqNotify
  <1>12. CASE Disconnect
    <2>1. CASE UNCHANGED <<cq, armed, event, rx>>
      BY <1>12, <2>1, Empty DEF Disconnect, RdmaDisconnect, OnDestroyedId
    <2>2. CASE ~UNCHANGED <<cq, armed, event, rx>>
      BY <1>12, <2>2, DisconnectEffect, Empty DEF Disconnect, RdmaDisconnect, OnDestroyedId, Grown
    <2> QED
      BY <2>1, <2>2
  <1>13. CASE WaitDisconnected \/ FreeBuffers
    BY <1>13, Empty DEF WaitDisconnected, FreeBuffers
  <1>14. CASE FreeRdma
    BY <1>14, Empty DEF FreeRdma, OnDestroyedId
  <1>15. CASE UNCHANGED vars
    BY <1>15 DEF vars
  <1> QED
    BY <1>1, <1>2, <1>3, <1>4, <1>5, <1>6, <1>7, <1>8, <1>9, <1>10, <1>11, <1>12, <1>13, <1>14, <1>15 DEF Next, Insmod, Handler, Rmmod

LEMMA FinishKept ==
  ASSUME Types, Notification, Unconnected, Buffer, Finish, hit' \cap {"request", "signal"} = {}, [Next]_vars PROVE Finish'
  <1> USE DEF Finish, Buffer, Unconnected, Notification, Unposted, Unnotified, Unrequested, Late, Off, Spent, IDLE, ADDR_RESOLVED, ROUTE_RESOLVED, CONNECTED, FREE_MEM_RECV, RECV_EVICT, CM_DISCONNECT, ERROR, TEST_DONE, qpVars, cqVars, listVars, Fault
  <1>1. CASE ResolveAddr \/ WaitRoute \/ CreateQueues \/ SetupBuffers
    BY <1>1, Empty DEF ResolveAddr, WaitRoute, CreateQueues, SetupBuffers
  <1>2. CASE Prepost \/ Connect \/ WaitConnected
    BY <1>2, Empty DEF Prepost, Connect, WaitConnected, OnDestroyedId
  <1>3. CASE FirstNotify
    BY <1>3, Empty DEF FirstNotify, ReqNotify
  <1>4. CASE WaitFreeSize \/ WaitDone
    BY <1>4, Empty DEF WaitFreeSize, WaitDone, Waited
  <1>5. CASE RequestChunks
    <2>1. CASE mpc' = "returned"
      BY <1>5, <2>1, RequestEffect, Empty DEF RequestChunks
    <2>2. CASE mpc' = "wait_done"
      BY <1>5, <2>2, RequestEffect, Empty DEF RequestChunks, Grown
    <2> QED
      BY <1>5, <2>1, <2>2 DEF RequestChunks
  <1>6. CASE Manager \/ CmError \/ ServerDisconnects
    BY <1>6, Empty DEF Manager, AddrResolved, RouteResolved, Reply, Established, Disconnected, CmError, ServerDisconnects, HandlerReturns
  <1>7. CASE Server \/ SendEvict
    BY <1>7, SendEffect, Empty DEF Server, SendFreeSize, SendChunks, SendEvict
  <1>8. CASE Receive
    <2>1. CASE "mr" \in made
      BY <1>8, <2>1, ReceiveEffect, Empty DEF Receive, Grown
    <2>2. CASE "mr" \notin made
      BY <1>8, <2>2, ReceiveEffect, Empty DEF Receive, Grown
    <2> QED
      BY <2>1, <2>2
  <1>9. CASE CqEvent \/ InitChunkList \/ BindChunks
    BY <1>9, Empty DEF CqEvent, InitChunkList, BindChunks
  <1>10. CASE PollOne
    BY <1>10, PollEffect, Empty DEF PollOne, HandleRecv
  <1>11. CASE Notify
    BY <1>11, Empty DEF Notify, ReqNotify
  <1>12. CASE Disconnect
    <2>1. CASE UNCHANGED <<cq, armed, event, rx>>
      BY <1>12, <2>1, Empty DEF Disconnect, RdmaDisconnect, OnDestroyedId
    <2>2. CASE ~UNCHANGED <<cq, armed, event, rx>>
      BY <1>12, <2>2, DisconnectEffect, Empty DEF Disconnect, RdmaDisconnect, OnDestroyedId, Grown
    <2> QED
      BY <2>1, <2>2
  <1>13. CASE WaitDisconnected \/ FreeBuffers
    BY <1>13, Empty DEF WaitDisconnected, FreeBuffers
  <1>14. CASE FreeRdma
    BY <1>14, Empty DEF FreeRdma, OnDestroyedId
  <1>15. CASE UNCHANGED vars
    BY <1>15 DEF vars
  <1> QED
    BY <1>1, <1>2, <1>3, <1>4, <1>5, <1>6, <1>7, <1>8, <1>9, <1>10, <1>11, <1>12, <1>13, <1>14, <1>15 DEF Next, Insmod, Handler, Rmmod

LEMMA StepKeeps == IInv /\ [Next]_vars => IInv'
  <1> SUFFICES ASSUME IInv, [Next]_vars PROVE IInv'
    OBVIOUS
  <1>1. "signal" \notin hit' => "signal" \notin hit
    BY HitGrows
  <1>2. hit' \cap {"request", "signal"} = {} => hit \cap {"request", "signal"} = {} /\ "signal" \notin hit
    BY HitGrows
  <1>3. Types' /\ Notification' /\ Unconnected'
    BY TypesKept, NotificationKept, UnconnectedKept DEF IInv
  <1>4. "signal" \notin hit' => Buffer'
    BY <1>1, BufferKept DEF IInv
  <1>5. hit' \cap {"request", "signal"} = {} => Finish'
    BY <1>2, FinishKept DEF IInv
  <1> QED
    BY <1>3, <1>4, <1>5 DEF IInv

LEMMA InitHolds == Init => IInv
  <1> SUFFICES ASSUME Init PROVE IInv
    OBVIOUS
  <1>1. armed \in BOOLEAN /\ event \in BOOLEAN /\ ~armed /\ ~event
    BY Zenon DEF Init
  <1>2. Types /\ Off /\ Spent
    BY <1>1, Empty DEF Init, Types, Off, Spent
  <1>3. Notification /\ Unconnected
    BY <1>1, <1>2 DEF Init, Notification, Unconnected
  <1>4. Buffer
    BY <1>2, Empty DEF Init, Buffer, FREE_MEM_RECV, TEST_DONE, Spent
  <1>5. Finish
    BY <1>2 DEF Init, Finish, FREE_MEM_RECV, TEST_DONE, Late, Spent
  <1> QED
    BY <1>2, <1>3, <1>4, <1>5 DEF IInv

-----------------------------------------------------------------------------
(* Theorems                                                                *)

\* The queues, the notification and the stages of insmod and rmmod stay in step.
THEOREM Invariance == Spec => []IInv
  <1> QED
    BY InitHolds, StepKeeps, PTL DEF Spec

\* octopus_cq_event_handler is called only for a completion that is still in the CQ: ib_poll_cq never
\* finds nothing, whatever fails.
THEOREM EventSafety == Spec => []NoSpuriousEvent
  <1>1. IInv => NoSpuriousEvent
    BY DEF IInv, Notification, NoSpuriousEvent
  <1> QED
    BY <1>1, Invariance, PTL

\* While recv_buf holds a message that handle_recv_wr has not read, no receive is posted, unless a
\* signal ended a wait of insmod.
THEOREM BufferSafety == Spec => []MessageNotOverwritten
  <1>1. IInv => MessageNotOverwritten
    <2> SUFFICES ASSUME IInv, "RECV" \in {cq[i] : i \in DOMAIN cq} \/ hpc = "bind", "signal" \notin hit
                 PROVE  rx = 0
      BY DEF MessageNotOverwritten
    <2>1. "RECV" \in {cq[i] : i \in DOMAIN cq} => Has(cq, "RECV")
      BY DEF IInv, Types, Has
    <2> QED
      BY <2>1 DEF IInv, Buffer
  <1> QED
    BY <1>1, Invariance, PTL

\* When rmmod has freed recv_buf and the chunk list, the completion handler reads and fills neither,
\* if the request for chunks was posted and no signal ended a wait.
THEOREM FreeSafety == Spec => []HandlerDoneWithBuffers
  <1>1. IInv => HandlerDoneWithBuffers
    <2> SUFFICES ASSUME IInv, mpc \in {"free_rdma", "gone"}, hit \cap {"request", "signal"} = {}
                 PROVE  hpc \notin {"list", "bind"} /\ ~(hpc = "poll" /\ cq # <<>> /\ Head(cq) = "RECV")
      BY DEF HandlerDoneWithBuffers
    <2>1. hpc \notin {"list", "bind"} /\ (hpc = "idle" \/ ~Has(cq, "RECV"))
      BY DEF IInv, Finish, Late, Off, Spent
    <2>2. cq # <<>> /\ Head(cq) = "RECV" => Has(cq, "RECV")
      <3>1. cq \in Seq(Completions)
        BY DEF IInv, Types
      <3>2. cq # <<>> => Len(cq) \in Nat /\ Len(cq) >= 1 /\ Head(cq) = cq[1]
        BY <3>1
      <3> QED
        BY <3>2 DEF Has
    <2> QED
      BY <2>1, <2>2
  <1> QED
    BY <1>1, Invariance, PTL
=============================================================================
