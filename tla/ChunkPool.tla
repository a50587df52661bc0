----------------------------- MODULE ChunkPool -----------------------------
(***************************************************************************)
(* The memory server daemon (Kernel_Level_RDMA_connection/server): a pool  *)
(* of 1 GB chunks that three threads share without a lock.                 *)
(*                                                                         *)
(*   main       connection events: build_connection, rdma_connected,       *)
(*              destroy_connection                                         *)
(*   poll_cq    messages of the clients: handle_cqe, send_chunks_to_client *)
(*   free_mem   rdma_session_init, then grows and shrinks the pool:        *)
(*              evict_mem and the expansion loop                           *)
(*                                                                         *)
(* A step is one turn of a loop over the chunks or what a thread does      *)
(* between two points where it blocks; evict_mem's test of a chunk and the *)
(* free that follows it are two steps.  After die() a behaviour stops, as  *)
(* any may; alive is FALSE after an access that is fatal or undefined.     *)
(* conn_chunk_map is never read and left out, and so is the send buffer's  *)
(* cq_qp_state.  chunk i of the session is always chunk i of the           *)
(* connection, so sess_chunk_map is the set of its indices that are not -1.*)
(***************************************************************************)
EXTENDS Integers, FiniteSets, FiniteSetsExt

CONSTANTS
  Conn,         \* connections that clients open, each once
  MaxChunk,     \* MAX_FREE_MEM_GB
  MaxClient,    \* MAX_CLIENT
  Extra,        \* EXTRA_CHUNK_NUM
  Requests,     \* the sizes a client asks for
  MaxRequests,  \* bound on the requests for chunks
  Start,        \* sizes rdma_session_init may compute from the free memory
  Grow, Shrink, \* expand_size_g and stop_size_g that free_mem may compute from it
  NULL

ASSUME PoolAssumption == MaxChunk \in Nat /\ MaxClient \in Nat \ {0} /\ Extra \in Nat
ASSUME RequestAssumption == Requests \subseteq Nat \ {0} /\ MaxRequests \in Nat
ASSUME SizeAssumption ==
  Start \subseteq 0 .. MaxChunk /\ Grow \subseteq Nat \ {0} /\ Shrink \subseteq Nat \ {0}
ASSUME NullConnAssumption == NULL \notin Conn

Chunk == 0 .. MaxChunk - 1
Slot == 0 .. MaxClient - 1

\* A message about chunks: size_gb and the entries with a non-zero rkey.
Message ==
  [type : {"QUERY", "REQUEST_CHUNKS", "ACTIVITY", "DONE", "EVICT", "STOP"}, size : Int, chunks : SUBSET Chunk]

ASSUME NullMsgAssumption == NULL \notin Message

VARIABLES
  malloc_map, conn_map, size_gb, mapped_size,    \* session.rdma_remote
  conns, conns_state, conn_num,                  \* the rest of session
  stage,                      \* of a connection: "none", "built", "up" (connected = 1), "gone"
  conn_index, sess_chunk_map, mapped_chunk_size, \* struct connection
  recvs,                      \* receives posted on its QP
  net,                        \* the message its client sent and the server has not polled
  notice,                     \* the eviction message its client has to answer
  recv_msg,                   \* the chunks its last ACTIVITY message reports
  rkey,                       \* the chunks with a non-zero rkey in its send_msg
  evict_sem, stop_sem,        \* its semaphores
  requests,                   \* requests the clients made, bounded by MaxRequests
  ppc, pconn, want, left, pi, \* poll_cq: the request it serves and the loop over the chunks
  fpc, fi, goal, count,       \* free_mem: where it is, chunk, size asked and size done
  send_list, todo, fconn,     \* evict_mem: slots it informs, has to wait for; connection it waits for
  evict_list,                 \* evict_mem: the chunks that were reported
  told,                       \* the connections that evict_mem has sent EVICT
  running, alive,             \* the flag of free_mem's loop; the process lives
  wiped,                      \* rdma_session_init reset a connection that already existed
  lost,                       \* chunks that evict_mem freed after they were granted
  mismatch                    \* recv_done printed that size_gb is not the number of its chunks

sessVars == <<malloc_map, conn_map, size_gb, mapped_size>>
slotVars == <<conns, conns_state, conn_num>>
connVars == <<stage, conn_index, sess_chunk_map, mapped_chunk_size>>
semVars  == <<evict_sem, stop_sem>>
msgVars  == <<recvs, net, notice, recv_msg, rkey, semVars, requests>>
pollVars == <<ppc, pconn, want, left, pi>>
evVars   == <<send_list, todo, fconn, evict_list, told>>
freeVars == <<fpc, fi, goal, count, evVars>>
histVars == <<wiped, lost, mismatch>>
flagVars == <<running, alive, histVars>>
vars == <<sessVars, slotVars, connVars, msgVars, pollVars, freeVars, flagVars>>

\* A connection the server holds a struct for.
Live(c) == stage[c] \in {"built", "up"}

\* allocated && unmapped
Grantable(i) == malloc_map[i] = "MALLOCED" /\ conn_map[i] = -1

\* The globals are zero and main has set running and started free_mem.
Init ==
  /\ malloc_map = [i \in Chunk |-> "EMPTY"] /\ conn_map = [i \in Chunk |-> 0]
  /\ size_gb = 0 /\ mapped_size = 0
  /\ conns = [k \in Slot |-> NULL] /\ conns_state = [k \in Slot |-> "IDLE"] /\ conn_num = 0
  /\ stage = [c \in Conn |-> "none"] /\ conn_index = [c \in Conn |-> -1]
  /\ sess_chunk_map = [c \in Conn |-> {}] /\ mapped_chunk_size = [c \in Conn |-> 0]
  /\ recvs = [c \in Conn |-> 0] /\ net = [c \in Conn |-> NULL] /\ notice = [c \in Conn |-> NULL]
  /\ recv_msg = [c \in Conn |-> {}] /\ rkey = [c \in Conn |-> {}]
  /\ evict_sem = [c \in Conn |-> 0] /\ stop_sem = [c \in Conn |-> 0]
  /\ requests = 0
  /\ ppc = "idle" /\ pconn = NULL /\ want = 0 /\ left = 0 /\ pi = 0
  /\ fpc = "init_maps" /\ fi = 0 /\ goal = 0 /\ count = 0 /\ send_list = {} /\ todo = {}
  /\ fconn = NULL /\ evict_list = {} /\ told = {}
  /\ running = TRUE /\ alive = TRUE /\ wiped = FALSE /\ lost = {} /\ mismatch = FALSE

-----------------------------------------------------------------------------
(* main: connection events                                                 *)

\* build_connection and rdma_accept; the first receive is posted before the accept.
Build(c) ==
  /\ alive
  /\ stage[c] = "none"
  /\ conn_num' = conn_num + 1
  /\ stage' = [stage EXCEPT ![c] = "built"]
  /\ recvs' = [recvs EXCEPT ![c] = 1]
  /\ UNCHANGED <<sessVars, sess_chunk_map, mapped_chunk_size, net, notice, recv_msg, rkey,
                 semVars, requests, pollVars, freeVars, flagVars>>

IdleSlots == {k \in Slot : conns_state[k] = "IDLE"}

\* The connection takes the first CONN_IDLE slot.
ConnectRequest(c) ==
  /\ IdleSlots # {}
  /\ LET k == Min(IdleSlots) IN
       /\ conns' = [conns EXCEPT ![k] = c]
       /\ conns_state' = [conns_state EXCEPT ![k] = "CONNECTED"]
       /\ conn_index' = [conn_index EXCEPT ![c] = k]
  /\ Build(c)

\* Without a CONN_IDLE slot conn_index keeps what malloc left in it.
ConnectNoSlot(c) ==
  /\ IdleSlots = {}
  /\ \E garbage \in Slot \cup {-1} : conn_index' = [conn_index EXCEPT ![c] = garbage]
  /\ Build(c)
  /\ UNCHANGED <<conns, conns_state>>

\* on_connect, then send_free_mem_size.
Established(c) ==
  /\ alive
  /\ stage[c] = "built"
  /\ stage' = [stage EXCEPT ![c] = "up"]
  /\ UNCHANGED <<sessVars, slotVars, conn_index, sess_chunk_map, mapped_chunk_size, msgVars,
                 pollVars, freeVars, flagVars>>

\* Mutant of Disconnected: mapped_size keeps what the connection was charged.
DisconnectedKeepsCharge(c) ==
  /\ alive
  /\ stage[c] = "up"
  /\ conn_map' = [i \in Chunk |-> IF i \in sess_chunk_map[c] THEN -1 ELSE conn_map[i]]
  /\ conns' = [k \in Slot |-> IF k = conn_index[c] THEN NULL ELSE conns[k]]
  /\ conns_state' = [k \in Slot |-> IF k = conn_index[c] THEN "IDLE" ELSE conns_state[k]]
  /\ conn_num' = conn_num - 1
  /\ stage' = [stage EXCEPT ![c] = "gone"]
  /\ UNCHANGED <<malloc_map, size_gb, mapped_size, conn_index, sess_chunk_map, mapped_chunk_size,
                 msgVars, pollVars, freeVars, flagVars>>

\* destroy_connection: its chunks go back to the pool, still allocated; messages on the
\* way to or from its QP are lost.
Disconnected(c) ==
  /\ alive
  /\ stage[c] = "up"
  /\ IF mapped_chunk_size[c] > 0
     THEN /\ conn_map' = [i \in Chunk |-> IF i \in sess_chunk_map[c] THEN -1 ELSE conn_map[i]]
          /\ mapped_size' = mapped_size - mapped_chunk_size[c]
     ELSE UNCHANGED <<conn_map, mapped_size>>
  /\ conns' = [k \in Slot |-> IF k = conn_index[c] THEN NULL ELSE conns[k]]
  /\ conns_state' = [k \in Slot |-> IF k = conn_index[c] THEN "IDLE" ELSE conns_state[k]]
  /\ conn_num' = conn_num - 1
  /\ running' = (running /\ conn_num' # 0)
  /\ stage' = [stage EXCEPT ![c] = "gone"]
  /\ net' = [net EXCEPT ![c] = NULL] /\ notice' = [notice EXCEPT ![c] = NULL]
  /\ UNCHANGED <<malloc_map, size_gb, conn_index, sess_chunk_map, mapped_chunk_size, recvs,
                 recv_msg, rkey, semVars, requests, pollVars, freeVars, alive, histVars>>

-----------------------------------------------------------------------------
(* The clients, as the messages they may send                              *)

ClientSend(c, m) ==
  /\ alive
  /\ Live(c) /\ net[c] = NULL
  /\ net' = [net EXCEPT ![c] = m]
  /\ UNCHANGED <<sessVars, slotVars, connVars, recvs, recv_msg, rkey, semVars, pollVars,
                 freeVars, flagVars>>

ClientQuery(c) ==
  /\ ClientSend(c, [type |-> "QUERY", size |-> 0, chunks |-> {}])
  /\ UNCHANGED <<notice, requests>>

ClientRequest(c, n) ==
  /\ requests < MaxRequests
  /\ ClientSend(c, [type |-> "REQUEST_CHUNKS", size |-> n, chunks |-> {}])
  /\ requests' = requests + 1
  /\ UNCHANGED notice

\* The answer to EVICT reports every chunk the client has, to STOP the stopped ones.
ClientAnswer(c) ==
  /\ notice[c] # NULL
  /\ ClientSend(c, IF notice[c].type = "EVICT"
                   THEN [type |-> "ACTIVITY", size |-> 0, chunks |-> sess_chunk_map[c]]
                   ELSE [type |-> "DONE", size |-> notice[c].size, chunks |-> notice[c].chunks])
  /\ notice' = [notice EXCEPT ![c] = NULL]
  /\ UNCHANGED requests

-----------------------------------------------------------------------------
(* poll_cq: handle_cqe                                                     *)

\* A message lands in a posted receive and is polled.
Receive(c, type) ==
  /\ alive
  /\ ppc = "idle"
  /\ Live(c) /\ recvs[c] > 0 /\ net[c] # NULL /\ net[c].type = type
  /\ net' = [net EXCEPT ![c] = NULL]

\* QUERY: send_free_mem_size (which spins until connected), post_receives.
Query(c) ==
  /\ stage[c] = "up"
  /\ Receive(c, "QUERY")
  /\ UNCHANGED <<sessVars, slotVars, connVars, recvs, notice, recv_msg, rkey, semVars,
                 requests, pollVars, freeVars, flagVars>>

\* Mutant of Activity: the receive is posted again at once, as for other messages.
ActivityPosts(c) ==
  /\ Receive(c, "ACTIVITY")
  /\ recv_msg' = [recv_msg EXCEPT ![c] = net[c].chunks]
  /\ evict_sem' = [evict_sem EXCEPT ![c] = @ + 1]
  /\ UNCHANGED <<sessVars, slotVars, connVars, recvs, notice, rkey, stop_sem, requests, pollVars,
                 freeVars, flagVars>>

\* Mutant of Activity: the semaphore is not posted.
ActivityNoPost(c) ==
  /\ Receive(c, "ACTIVITY")
  /\ recvs' = [recvs EXCEPT ![c] = @ - 1]
  /\ recv_msg' = [recv_msg EXCEPT ![c] = net[c].chunks]
  /\ UNCHANGED <<sessVars, slotVars, connVars, notice, rkey, semVars, requests, pollVars, freeVars,
                 flagVars>>

\* ACTIVITY: sem_post; evict_mem posts the next receive.
Activity(c) ==
  /\ Receive(c, "ACTIVITY")
  /\ recvs' = [recvs EXCEPT ![c] = @ - 1]
  /\ recv_msg' = [recv_msg EXCEPT ![c] = net[c].chunks]
  /\ evict_sem' = [evict_sem EXCEPT ![c] = @ + 1]
  /\ UNCHANGED <<sessVars, slotVars, connVars, notice, rkey, stop_sem, requests, pollVars, freeVars,
                 flagVars>>

\* Mutant of RecvDone: the entries of sess_chunk_map are not reset.
RecvDoneKeepsMap(c) ==
  LET m == net[c] IN
  /\ Receive(c, "DONE")
  /\ conn_map' = [i \in Chunk |-> IF i \in m.chunks THEN -1 ELSE conn_map[i]]
  /\ malloc_map' = [i \in Chunk |-> IF i \in m.chunks THEN "EMPTY" ELSE malloc_map[i]]
  /\ size_gb' = size_gb - m.size
  /\ mapped_size' = mapped_size - m.size
  /\ mapped_chunk_size' = [mapped_chunk_size EXCEPT ![c] = @ - m.size]
  /\ mismatch' = (mismatch \/ m.size # Cardinality(m.chunks))
  /\ stop_sem' = [stop_sem EXCEPT ![c] = @ + 1]
  /\ conns_state' = IF mapped_chunk_size'[c] = 0
                    THEN [k \in Slot |-> IF k = conn_index[c] THEN "CONNECTED" ELSE conns_state[k]]
                    ELSE conns_state
  /\ UNCHANGED <<sess_chunk_map, conns, conn_num, stage, conn_index, recvs, notice, recv_msg, rkey, evict_sem,
                 requests, pollVars, freeVars, running, alive, wiped, lost>>

\* DONE: recv_done frees the stopped chunks.
RecvDone(c) ==
  LET m == net[c] IN
  /\ Receive(c, "DONE")
  /\ sess_chunk_map' = [sess_chunk_map EXCEPT ![c] = @ \ m.chunks]
  /\ conn_map' = [i \in Chunk |-> IF i \in m.chunks THEN -1 ELSE conn_map[i]]
  /\ malloc_map' = [i \in Chunk |-> IF i \in m.chunks THEN "EMPTY" ELSE malloc_map[i]]
  /\ size_gb' = size_gb - m.size
  /\ mapped_size' = mapped_size - m.size
  /\ mapped_chunk_size' = [mapped_chunk_size EXCEPT ![c] = @ - m.size]
  /\ mismatch' = (mismatch \/ m.size # Cardinality(m.chunks))
  /\ stop_sem' = [stop_sem EXCEPT ![c] = @ + 1]
  /\ conns_state' = IF mapped_chunk_size'[c] = 0
                    THEN [k \in Slot |-> IF k = conn_index[c] THEN "CONNECTED" ELSE conns_state[k]]
                    ELSE conns_state
  /\ UNCHANGED <<conns, conn_num, stage, conn_index, recvs, notice, recv_msg, rkey, evict_sem,
                 requests, pollVars, freeVars, running, alive, wiped, lost>>

\* Mutant of Request: the rkeys of the last message in the send buffer stay.
RequestKeepsRkeys(c) ==
  /\ Receive(c, "REQUEST_CHUNKS")
  /\ recvs' = [recvs EXCEPT ![c] = @ - 1]
  /\ ppc' = "grant" /\ pconn' = c /\ pi' = 0
  /\ want' = net[c].size /\ left' = net[c].size
  /\ UNCHANGED <<sessVars, slotVars, connVars, notice, recv_msg, rkey, semVars, requests,
                 freeVars, flagVars>>

\* REQUEST_CHUNKS, or REQUEST_SINGLE_CHUNK for one: the loop over the chunks begins.
Request(c) ==
  /\ Receive(c, "REQUEST_CHUNKS")
  /\ recvs' = [recvs EXCEPT ![c] = @ - 1]
  /\ ppc' = "grant" /\ pconn' = c /\ pi' = 0
  /\ want' = net[c].size /\ left' = net[c].size
  /\ rkey' = [rkey EXCEPT ![c] = {}]
  /\ UNCHANGED <<sessVars, slotVars, connVars, notice, recv_msg, semVars, requests,
                 freeVars, flagVars>>

\* One turn of the loop of send_chunks_to_client: register chunk pi for the client.
GrantChunk ==
  /\ alive
  /\ ppc = "grant" /\ pi < MaxChunk /\ left > 0
  /\ pi' = pi + 1
  /\ IF Grantable(pi)
     THEN /\ sess_chunk_map' = [sess_chunk_map EXCEPT ![pconn] = @ \cup {pi}]
          /\ conn_map' = [conn_map EXCEPT ![pi] = conn_index[pconn]]
          /\ rkey' = [rkey EXCEPT ![pconn] = @ \cup {pi}]
          /\ left' = left - 1
     ELSE UNCHANGED <<sess_chunk_map, conn_map, rkey, left>>
  /\ UNCHANGED <<malloc_map, size_gb, mapped_size, slotVars, stage, conn_index,
                 mapped_chunk_size, recvs, net, notice, recv_msg, semVars, requests, ppc, pconn, want,
                 freeVars, flagVars>>

\* The loop is over: the size that was asked for is added to both counters.
GrantCount ==
  /\ alive
  /\ ppc = "grant" /\ (pi = MaxChunk \/ left = 0)
  /\ ppc' = "send"
  /\ mapped_size' = mapped_size + want
  /\ mapped_chunk_size' = [mapped_chunk_size EXCEPT ![pconn] = @ + want]
  /\ UNCHANGED <<malloc_map, conn_map, size_gb, slotVars, stage, conn_index, sess_chunk_map,
                 msgVars, pconn, want, left, pi, freeVars, flagVars>>

\* send_message once connected, CONN_MAPPED, post_receives; a destroyed QP is fatal.
GrantSend ==
  /\ alive
  /\ ppc = "send" /\ stage[pconn] # "built"
  /\ alive' = (stage[pconn] = "up")
  /\ conns_state' = [k \in Slot |-> IF k = conn_index[pconn] THEN "MAPPED" ELSE conns_state[k]]
  /\ recvs' = [recvs EXCEPT ![pconn] = @ + 1]
  /\ ppc' = "idle" /\ pconn' = NULL /\ want' = 0 /\ left' = 0 /\ pi' = 0
  /\ UNCHANGED <<sessVars, conns, conn_num, connVars, net, notice, recv_msg, rkey, semVars,
                 requests, freeVars, running, histVars>>

-----------------------------------------------------------------------------
(* free_mem: rdma_session_init                                             *)

\* A function of free_mem is left, or blocks for good: its locals are not read again.
Leave(to) ==
  /\ fpc' = to
  /\ fi' = 0 /\ goal' = 0 /\ count' = 0
  /\ send_list' = {} /\ todo' = {} /\ fconn' = NULL /\ evict_list' = {} /\ told' = {}

\* Unmap every chunk; the free memory read decides how many to allocate.
InitMaps(g) ==
  /\ alive
  /\ fpc = "init_maps"
  /\ conn_map' = [i \in Chunk |-> -1]
  /\ malloc_map' = [i \in Chunk |-> "EMPTY"]
  /\ fpc' = "init_chunks" /\ goal' = g /\ fi' = 0
  /\ UNCHANGED <<size_gb, mapped_size, slotVars, connVars, msgVars, pollVars, count, evVars, flagVars>>

InitChunk ==
  /\ alive
  /\ fpc = "init_chunks" /\ fi < goal
  /\ malloc_map' = [malloc_map EXCEPT ![fi] = "MALLOCED"]
  /\ fi' = fi + 1
  /\ UNCHANGED <<conn_map, size_gb, mapped_size, slotVars, connVars, msgVars, pollVars, fpc, goal,
                 count, evVars, flagVars>>

\* The counters and the connection slots are reset last.
InitConns ==
  /\ alive
  /\ fpc = "init_chunks" /\ fi = goal
  /\ size_gb' = goal /\ mapped_size' = 0
  /\ conns' = [k \in Slot |-> NULL] /\ conns_state' = [k \in Slot |-> "IDLE"] /\ conn_num' = 0
  /\ Leave("idle")
  /\ wiped' = (\E c \in Conn : Live(c))
  /\ UNCHANGED <<malloc_map, conn_map, connVars, msgVars, pollVars, running, alive, lost, mismatch>>

(* free_mem: the loop                                                      *)

\* while (running) ends after the last disconnect.
FreeMemStops ==
  /\ alive
  /\ fpc = "idle" /\ ~running
  /\ fpc' = "done"
  /\ UNCHANGED <<sessVars, slotVars, connVars, msgVars, pollVars, fi, goal, count, evVars, flagVars>>

\* Expansion by expand_size_g, capped so that size_gb stays within MAX_FREE_MEM_GB.
ExpandBegin(g) ==
  /\ alive
  /\ fpc = "idle" /\ running
  /\ goal' = IF g + size_gb > MaxChunk THEN MaxChunk - size_gb ELSE g
  /\ fpc' = "expand" /\ fi' = 0 /\ count' = 0
  /\ UNCHANGED <<sessVars, slotVars, connVars, msgVars, pollVars, evVars, flagVars>>

\* One turn of its loop over the chunks; a chunk that is EMPTY is allocated.
ExpandChunk ==
  /\ alive
  /\ fpc = "expand" /\ fi < MaxChunk /\ ~(count > 0 /\ count = goal)
  /\ fi' = fi + 1
  /\ IF malloc_map[fi] = "EMPTY"
     THEN malloc_map' = [malloc_map EXCEPT ![fi] = "MALLOCED"] /\ count' = count + 1
     ELSE UNCHANGED <<malloc_map, count>>
  /\ UNCHANGED <<conn_map, size_gb, mapped_size, slotVars, connVars, msgVars, pollVars, fpc, goal,
                 evVars, flagVars>>

ExpandEnd ==
  /\ alive
  /\ fpc = "expand" /\ (fi = MaxChunk \/ (count > 0 /\ count = goal))
  /\ size_gb' = size_gb + goal
  /\ Leave("idle")
  /\ UNCHANGED <<malloc_map, conn_map, mapped_size, slotVars, connVars, msgVars, pollVars, flagVars>>

\* evict_mem(stop_size_g): at most size_gb, and only if that is positive.
EvictBegin(g) ==
  /\ alive
  /\ fpc = "idle" /\ running
  /\ size_gb > 0
  /\ goal' = IF size_gb < g THEN size_gb ELSE g
  /\ fpc' = "evict" /\ fi' = 0 /\ count' = 0
  /\ UNCHANGED <<sessVars, slotVars, connVars, msgVars, pollVars, evVars, flagVars>>

\* One turn of the loop over the chunks: the test for allocated && unmapped.
EvictChunk ==
  /\ alive
  /\ fpc = "evict" /\ fi < MaxChunk
  /\ IF Grantable(fi) THEN fpc' = "free" /\ UNCHANGED fi
                      ELSE fi' = fi + 1 /\ UNCHANGED fpc
  /\ UNCHANGED <<sessVars, slotVars, connVars, msgVars, pollVars, goal, count, evVars, flagVars>>

\* free(region_list[fi]), which poll_cq may have granted since the test; with enough
\* chunks freed evict_mem returns.
EvictFree ==
  /\ alive
  /\ fpc = "free"
  /\ malloc_map' = [malloc_map EXCEPT ![fi] = "EMPTY"]
  /\ lost' = IF conn_map[fi] = -1 THEN lost ELSE lost \cup {fi}
  /\ IF count + 1 = goal
     THEN size_gb' = size_gb - goal /\ Leave("idle")
     ELSE /\ fpc' = "evict" /\ fi' = fi + 1 /\ count' = count + 1
          /\ UNCHANGED <<size_gb, goal, evVars>>
  /\ UNCHANGED <<conn_map, mapped_size, slotVars, connVars, msgVars, pollVars, running, alive,
                 wiped, mismatch>>

\* The sum of mapped_chunk_size over connections.
Charged(C) == MapThenSumSet(LAMBDA c : mapped_chunk_size[c], C)

\* The connections in slots are sent EVICT, with their rkeys cleared, and evict_mem waits
\* for the first of them.
Inform(slots, evict_g) ==
  /\ goal' = evict_g
  /\ send_list' = slots /\ todo' = slots /\ evict_list' = {}
  /\ fpc' = "activity" /\ fi' = 0
  /\ alive' = (\A k \in slots : k \in Slot /\ conns[k] # NULL)
  /\ IF alive'
     THEN LET to == {conns[k] : k \in slots} IN
          /\ count' = Charged(to)
          /\ rkey' = [c \in Conn |-> IF c \in to THEN {} ELSE rkey[c]]
          /\ notice' = [c \in Conn |-> IF c \in to THEN [type |-> "EVICT", size |-> evict_g, chunks |-> {}]
                                                   ELSE notice[c]]
          /\ fconn' = (IF slots = {} THEN NULL ELSE conns[Min(slots)]) /\ told' = to
     ELSE UNCHANGED <<count, rkey, notice, fconn, told>>

\* Unmapped chunks were not enough: choose the connections to evict from.  With
\* mapped_size < evict_g + EXTRA_CHUNK_NUM all of them, else the owners of
\* evict_g + EXTRA_CHUNK_NUM random mapped chunks, a choice that never ends when
\* fewer chunks are mapped.
EvictPick ==
  LET g == goal - count
      mapped == {i \in Chunk : conn_map[i] # -1}
  IN
  /\ alive
  /\ fpc = "evict" /\ fi = MaxChunk
  /\ size_gb' = size_gb - count
  /\ \/ /\ mapped_size < g + Extra
        /\ Inform({k \in Slot : conns_state[k] = "MAPPED"}, IF mapped_size < g THEN mapped_size ELSE g)
     \/ /\ mapped_size >= g + Extra /\ Cardinality(mapped) >= g + Extra
        /\ \E chosen \in kSubset(g + Extra, mapped) : Inform({conn_map[i] : i \in chosen}, g)
     \/ /\ mapped_size >= g + Extra /\ Cardinality(mapped) < g + Extra
        /\ Leave("stuck")
        /\ UNCHANGED <<rkey, notice, alive>>
  /\ UNCHANGED <<malloc_map, conn_map, mapped_size, slotVars, connVars, recvs, net, recv_msg,
                 semVars, requests, pollVars, running, histVars>>

\* sem_wait(evict_sem), the copy of the reported activity, post_receives, and
\* the pointer to the next connection.
WaitActivity ==
  /\ alive
  /\ fpc = "activity" /\ todo # {} /\ Live(fconn) /\ evict_sem[fconn] > 0
  /\ evict_sem' = [evict_sem EXCEPT ![fconn] = @ - 1]
  /\ recvs' = [recvs EXCEPT ![fconn] = @ + 1]
  /\ rkey' = [rkey EXCEPT ![fconn] = {}]
  /\ evict_list' = evict_list \cup recv_msg[fconn]
  /\ todo' = todo \ {Min(todo)}
  /\ fconn' = IF todo' = {} THEN fconn ELSE conns[Min(todo')]
  /\ alive' = (fconn' # NULL)
  /\ UNCHANGED <<sessVars, slotVars, connVars, net, notice, recv_msg, stop_sem, requests, pollVars,
                 fpc, fi, goal, count, send_list, told, running, histVars>>

\* send_stop for the first slot of slots, with the rkeys in the connection's
\* send_msg; it waits for DONE.  slots are
\* those with marked chunks (send_list = 2); the others are sent 0, which asks for nothing.
Stop(slots, n, rk) ==
  LET k == Min(slots) IN
  IF slots = {}
  THEN Leave("idle") /\ UNCHANGED <<notice, alive>>
  ELSE /\ fpc' = "stop" /\ count' = n
       /\ goal' = 0 /\ send_list' = {} /\ evict_list' = {} /\ UNCHANGED <<fi, told>>
       /\ todo' = slots \ {k}
       /\ fconn' = conns[k]
       /\ alive' = (conns[k] # NULL)
       /\ notice' = [c \in Conn |-> IF c = conns[k] THEN [type |-> "STOP", size |-> n, chunks |-> rk[c]]
                                    ELSE notice[c]]

\* The goal least active reported chunks are marked in the send_msg of their
\* connections, and the first STOP is sent; its size is the count of the
\* connection of the last marked chunk.  The list has room for count entries;
\* entries that no report filled are garbage and may be fatal.
EvictSelect ==
  /\ alive
  /\ fpc = "activity" /\ todo = {}
  /\ \/ /\ Cardinality(evict_list) < count \/ Cardinality(evict_list) < goal
        /\ alive' = FALSE
        /\ UNCHANGED <<fpc, goal, count, fi, evVars, rkey, notice>>
     \/ \E v \in kSubset(Max({goal, 0}), evict_list) :
          LET owner(i) == IF conn_map[i] = -1 THEN NULL ELSE conns[conn_map[i]]
              of(k) == {i \in v : conn_map[i] = k}
          IN
          IF \E i \in v : owner(i) = NULL
          THEN alive' = FALSE /\ UNCHANGED <<fpc, goal, count, fi, evVars, rkey, notice>>
          ELSE /\ rkey' = [c \in Conn |-> rkey[c] \cup {i \in v : owner(i) = c}]
               /\ \E n \in IF v = {} THEN {0} ELSE {Cardinality(of(conn_map[i])) : i \in v} :
                    Stop({k \in send_list : of(k) # {}}, n, rkey')
  /\ UNCHANGED <<sessVars, slotVars, connVars, recvs, net, recv_msg, semVars, requests, pollVars,
                 running, histVars>>

\* sem_wait(stop_sem), then the next STOP.
WaitStop ==
  /\ alive
  /\ fpc = "stop" /\ Live(fconn) /\ stop_sem[fconn] > 0
  /\ stop_sem' = [stop_sem EXCEPT ![fconn] = @ - 1]
  /\ Stop(todo, count, rkey)
  /\ UNCHANGED <<sessVars, slotVars, connVars, recvs, net, recv_msg, rkey, evict_sem, requests,
                 pollVars, running, histVars>>

\* The connection evict_mem waits for was destroyed: nobody posts its semaphore.
WaitLost ==
  /\ alive
  /\ \/ fpc = "activity" /\ todo # {}
     \/ fpc = "stop"
  /\ ~Live(fconn)
  /\ Leave("stuck")
  /\ UNCHANGED <<sessVars, slotVars, connVars, msgVars, pollVars, flagVars>>

-----------------------------------------------------------------------------
Main == \E c \in Conn : ConnectRequest(c) \/ Established(c) \/ Disconnected(c)

Clients ==
  \E c \in Conn : ClientQuery(c) \/ ClientAnswer(c) \/ \E n \in Requests : ClientRequest(c, n)

Poll ==
  \/ \E c \in Conn : Query(c) \/ Activity(c) \/ RecvDone(c) \/ Request(c)
  \/ GrantChunk \/ GrantCount \/ GrantSend

FreeMem ==
  \/ \E g \in Start : InitMaps(g)
  \/ InitChunk \/ InitConns \/ FreeMemStops
  \/ \E g \in Grow : ExpandBegin(g)
  \/ \E g \in Shrink : EvictBegin(g)
  \/ ExpandChunk \/ ExpandEnd \/ EvictChunk \/ EvictFree \/ EvictPick
  \/ WaitActivity \/ WaitLost \/ EvictSelect \/ WaitStop

Next == Main \/ Clients \/ Poll \/ FreeMem

Spec == Init /\ [][Next]_vars

\* With more clients than MAX_CLIENT.
ExcessSpec == Init /\ [][Next \/ \E c \in Conn : ConnectNoSlot(c)]_vars

-----------------------------------------------------------------------------
(* Properties                                                              *)

MsgTypes == {"QUERY", "REQUEST_CHUNKS", "ACTIVITY", "DONE"}

\* The loops over the chunks stay in their arrays and a connection has at most one
\* receive posted (send_chunks_to_client, evict_mem, post_receives).
TypeOK ==
  /\ malloc_map \in [Chunk -> {"EMPTY", "MALLOCED"}]
  /\ conn_map \in [Chunk -> Slot \cup {-1}]
  /\ size_gb \in Int /\ mapped_size \in Int /\ conn_num \in Int
  /\ conns \in [Slot -> Conn \cup {NULL}]
  /\ conns_state \in [Slot -> {"IDLE", "CONNECTED", "MAPPED"}]
  /\ stage \in [Conn -> {"none", "built", "up", "gone"}]
  /\ conn_index \in [Conn -> Slot \cup {-1}]
  /\ sess_chunk_map \in [Conn -> SUBSET Chunk]
  /\ mapped_chunk_size \in [Conn -> Int]
  /\ recvs \in [Conn -> {0, 1}]
  /\ \A c \in Conn : net[c] # NULL => net[c].type \in MsgTypes /\ net[c].chunks \subseteq Chunk
  /\ recv_msg \in [Conn -> SUBSET Chunk] /\ rkey \in [Conn -> SUBSET Chunk]
  /\ evict_sem \in [Conn -> Nat] /\ stop_sem \in [Conn -> Nat] /\ requests \in Nat
  /\ ppc \in {"idle", "grant", "send"} /\ pconn \in Conn \cup {NULL}
  /\ pi \in 0 .. MaxChunk /\ fi \in 0 .. MaxChunk
  /\ send_list \subseteq Slot \cup {-1} /\ todo \subseteq Slot \cup {-1}
  /\ fconn \in Conn \cup {NULL} /\ evict_list \subseteq Chunk /\ told \subseteq Conn /\ lost \subseteq Chunk
  /\ fpc \in {"init_maps", "init_chunks", "idle", "expand", "evict", "free", "activity", "stop",
             "stuck", "done"}

(***************************************************************************)
(* A client's memory is its own and stays: every chunk a live connection   *)
(* was granted is allocated, is marked as taken in conn_map (so that       *)
(* neither send_chunks_to_client gives it to somebody else nor evict_mem   *)
(* frees it as unmapped), and no two live connections hold the same chunk. *)
(* Only the client's own DONE, or its disconnect, takes the chunk back;    *)
(* excepted are a chunk granted between evict_mem's test and its free, and *)
(* a session whose slots were reset over a connection (its STOP may go to  *)
(* another connection).                                                    *)
(***************************************************************************)
GrantedIsAllocated ==
  ~wiped => \A c \in Conn : Live(c) =>
    \A i \in sess_chunk_map[c] :
      /\ malloc_map[i] = "MALLOCED" \/ i \in lost
      /\ conn_map[i] = conn_index[c]
      /\ \A d \in Conn : Live(d) /\ i \in sess_chunk_map[d] => c = d

(***************************************************************************)
(* "The memory chunk is already allocated": evict_mem frees no chunk that  *)
(* poll_cq has granted.                                                    *)
(***************************************************************************)
FreesOnlyUnmapped == lost = {}

(***************************************************************************)
(* size_gb counts the allocated chunks, whichever of the three threads     *)
(* allocated or freed them; during an eviction or an expansion it lags by  *)
(* the chunks of the current loop.  It holds until recv_done reports that  *)
(* a client stopped another number of chunks (see DoneMatches), or a chunk *)
(* is freed that was granted.                                              *)
(***************************************************************************)
SizeIsAllocated ==
  alive /\ ~mismatch /\ lost = {} /\ fpc \notin {"init_maps", "init_chunks"} =>
    Cardinality({i \in Chunk : malloc_map[i] = "MALLOCED"}) =
      size_gb + (IF fpc = "expand" THEN count ELSE 0) - (IF fpc \in {"evict", "free"} THEN count ELSE 0)

(***************************************************************************)
(* mapped_size is the sum of the sizes charged to the live connections, so *)
(* that a disconnect returns what was charged, unless rdma_session_init    *)
(* reset the counters over a connection or recv_done reported an error (a  *)
(* STOP that reached a new connection in the slot of the one it was for).  *)
(***************************************************************************)
MappedIsCharged ==
  alive /\ ~wiped /\ ~mismatch /\ fpc \notin {"init_maps", "init_chunks"} /\ (ppc = "send" => Live(pconn)) =>
    mapped_size = Charged({c \in Conn : Live(c)})

(***************************************************************************)
(* The receive buffer of a connection has one reader or one receive: while *)
(* evict_mem has still to copy the ACTIVITY of a connection, or poll_cq    *)
(* serves its request, no receive is posted that would let the next        *)
(* message overwrite recv_msg.                                             *)
(***************************************************************************)
ReceiveBufferStable ==
  \A c \in Conn : Live(c) =>
    recvs[c] + evict_sem[c] + (IF ppc # "idle" /\ pconn = c THEN 1 ELSE 0) = 1

(***************************************************************************)
(* "conn index in sess->conns": a live connection is found in the session  *)
(* under its conn_index, so that evict_mem reaches the client whose chunk  *)
(* it is, unless rdma_session_init reset the slots over a connection.      *)
(***************************************************************************)
ConnIndexed ==
  ~wiped => \A c \in Conn : Live(c) => conn_index[c] \in Slot /\ conns[conn_index[c]] = c

(***************************************************************************)
(* build_connection adds the connection to the session ("add to session"): *)
(* until it is destroyed it stays in session.conns.                        *)
(***************************************************************************)
ConnRegistered == \A c \in Conn : Live(c) => \E k \in Slot : conns[k] = c

(***************************************************************************)
(* evict_mem compares the chunks it finds mapped with mapped_size and      *)
(* reports a difference.                                                   *)
(***************************************************************************)
AvailIsMapped ==
  alive /\ ~wiped /\ fpc = "evict" /\ fi = MaxChunk /\ ppc = "idle" =>
    Cardinality({i \in Chunk : conn_map[i] # -1}) = mapped_size

(***************************************************************************)
(* recv_done compares the number of chunks a client stopped with the size  *)
(* it reports, and calls a difference an error.                            *)
(***************************************************************************)
DoneMatches == ~mismatch

(***************************************************************************)
(* "Reset the rkey[] to 0, to let client recognize the sent chunks by      *)
(* checking rkey[]": the message that answers a request lists every chunk  *)
(* that send_chunks_to_client took for it.                                 *)
(***************************************************************************)
RkeysListGrant ==
  alive /\ ppc = "send" /\ Live(pconn) => Cardinality(rkey[pconn]) = want - left

(***************************************************************************)
(* What is left of RkeysListGrant: whatever evict_mem does to the send     *)
(* buffer of the connection while send_chunks_to_client fills it, every    *)
(* chunk the message lists is the client's own, and, unless an eviction    *)
(* still waits for the activity of this client or has blocked, it lists at *)
(* least the chunks that were taken for the request.  It may list more: an *)
(* eviction that was told of a chunk by its last owner marks it for the    *)
(* client that has it since.                                               *)
(***************************************************************************)
GrantListed ==
  alive /\ ~wiped /\ ppc = "send" /\ Live(pconn) =>
    /\ \A i \in rkey[pconn] : conn_map[i] = conn_index[pconn]
    /\ fpc \notin {"activity", "stuck"} => Cardinality(rkey[pconn]) >= want - left

(***************************************************************************)
(* evict_mem waits without a timeout, but not for nothing: while it waits  *)
(* for a connection that lives and that it has sent EVICT, the client      *)
(* still has the message to answer, or its answer is on the way, or the    *)
(* semaphore is posted.                                                    *)
(***************************************************************************)
WaitAnswered ==
  LET expects(message, answer, sem) ==
        \/ notice[fconn] # NULL /\ notice[fconn].type = message
        \/ net[fconn] # NULL /\ net[fconn].type = answer
        \/ sem[fconn] > 0
  IN  alive /\ fconn \in told /\ Live(fconn) =>
        /\ fpc = "activity" /\ todo # {} => expects("EVICT", "ACTIVITY", evict_sem)
        /\ fpc = "stop" => expects("STOP", "DONE", stop_sem)

(***************************************************************************)
(* evict_mem waits only for connections that it has sent EVICT.  It reads  *)
(* conns[] again for each wait, and with two slots a new connection can be *)
(* in the place of one that was told and has gone.                         *)
(***************************************************************************)
WaitsForTold == alive /\ fpc = "activity" /\ todo # {} => fconn \in told

=============================================================================
