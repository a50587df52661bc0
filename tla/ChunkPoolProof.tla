--------------------------- MODULE ChunkPoolProof ---------------------------
(***************************************************************************)
(* Proofs about ChunkPool, for every number of clients, slots and chunks:  *)
(* a client's chunks stay its own, evict_mem never waits for nothing, the  *)
(* receive buffer of a connection has one user, and a grant lists chunks   *)
(* of its client.                                                          *)
(***************************************************************************)
EXTENDS ChunkPool, FiniteSetTheorems, TLAPS

-----------------------------------------------------------------------------
(* The inductive invariant                                                 *)

PoolTypes ==
  /\ malloc_map \in [Chunk -> {"EMPTY", "MALLOCED"}] /\ conn_map \in [Chunk -> Slot \cup {-1}]
  /\ size_gb \in Int /\ mapped_size \in Int

ConnTypes ==
  /\ conns \in [Slot -> Conn \cup {NULL}] /\ conns_state \in [Slot -> {"IDLE", "CONNECTED", "MAPPED"}]
  /\ stage \in [Conn -> {"none", "built", "up", "gone"}] /\ conn_index \in [Conn -> Slot \cup {-1}]
  /\ sess_chunk_map \in [Conn -> SUBSET Chunk] /\ mapped_chunk_size \in [Conn -> Int]

NetTypes ==
  /\ net \in [Conn -> Message \cup {NULL}] /\ notice \in [Conn -> Message \cup {NULL}]
  /\ \A c \in Conn : notice[c] # NULL => notice[c].type \in {"EVICT", "STOP"}
  /\ \A c \in Conn : net[c] # NULL /\ net[c].type = "REQUEST_CHUNKS" => net[c].size >= 0

BufferTypes ==
  /\ recvs \in [Conn -> Nat] /\ evict_sem \in [Conn -> Nat] /\ stop_sem \in [Conn -> Nat]
  /\ recv_msg \in [Conn -> SUBSET Chunk] /\ rkey \in [Conn -> SUBSET Chunk]

PollTypes ==
  /\ ppc \in {"idle", "grant", "send"} /\ (ppc # "idle" => pconn \in Conn)
  /\ pi \in Nat /\ want \in Nat /\ left \in Nat

FreeTypes ==
  /\ fpc \in {"init_maps", "init_chunks", "idle", "expand", "evict", "free", "activity", "stop",
             "stuck", "done"}
  /\ fi \in Nat /\ goal \in Int /\ (fpc # "activity" => count \in Int)
  /\ evict_list \subseteq Chunk

\* A connection that was not made yet has left no trace.
Unborn ==
  \A c \in Conn : stage[c] = "none" =>
    /\ recvs[c] = 0 /\ evict_sem[c] = 0 /\ stop_sem[c] = 0
    /\ net[c] = NULL /\ notice[c] = NULL /\ rkey[c] = {} /\ sess_chunk_map[c] = {}
    /\ (ppc # "idle" => pconn # c) /\ fconn # c /\ c \notin told

\* A slot that is taken is the one its connection knows, and is not CONN_IDLE.
Slots == \A k \in Slot : conns[k] \in Conn =>
           conn_index[conns[k]] = k /\ conns_state[k] # "IDLE" /\ stage[conns[k]] # "none"

\* Nothing was granted before rdma_session_init resets the maps.
Starting ==
  fpc = "init_maps" =>
    (\A i \in Chunk : malloc_map[i] = "EMPTY") /\ \A c \in Conn : sess_chunk_map[c] = {} /\ rkey[c] = {}

\* A message of this type is on the way to the server; the client has one to answer.
Sent(c, type) == net[c] # NULL /\ net[c].type = type
Asked(c, type) == notice[c] # NULL /\ notice[c].type = type

\* evict_mem waits for the connection in the first slot of todo, and each one that it
\* has told and waits for will answer.
Waits ==
  alive /\ fpc = "activity" =>
    /\ send_list \subseteq Slot /\ todo \subseteq send_list /\ told \subseteq Conn
    /\ todo # {} => fconn \in Conn /\ conn_index[fconn] = Min(todo)
    /\ \A c \in told : Live(c) /\ conn_index[c] \in todo =>
         Asked(c, "EVICT") \/ Sent(c, "ACTIVITY") \/ evict_sem[c] > 0

\* The client of the connection has no STOP to answer; or it has, or its DONE is on the
\* way, or it has arrived, and only one of these.
Settled(c) == ~Asked(c, "STOP") /\ ~Sent(c, "DONE") /\ stop_sem[c] = 0
Pending(c) ==
  \/ Asked(c, "STOP") /\ ~Sent(c, "DONE") /\ stop_sem[c] = 0
  \/ ~Asked(c, "STOP") /\ Sent(c, "DONE") /\ stop_sem[c] = 0
  \/ ~Asked(c, "STOP") /\ ~Sent(c, "DONE") /\ stop_sem[c] = 1

\* One STOP at a time is not answered: that of the connection evict_mem waits for.
Stops ==
  alive =>
    /\ fpc = "stop" =>
         /\ todo \subseteq Slot /\ fconn \in Conn /\ conn_index[fconn] \notin todo
         /\ Live(fconn) => Pending(fconn)
    /\ \A c \in Conn : Live(c) /\ ~(fpc = "stop" /\ fconn = c) => Settled(c)

\* The chunks S are marked with the slot of the connection.
Own(c, S) == \A i \in S : conn_map[i] = conn_index[c]

\* The rkeys in the send buffer name chunks of the client: of one whose STOP is still to
\* be sent, and of the one that poll_cq serves.  So do the chunks of a STOP and of its DONE.
Marks ==
  alive /\ ~wiped => \A c \in Conn : Live(c) =>
    /\ fpc = "activity" /\ conn_index[c] \in send_list => Own(c, rkey[c])
    /\ fpc = "stop" /\ conn_index[c] \in todo => Own(c, rkey[c])
    /\ ppc # "idle" /\ pconn = c => Own(c, rkey[c])
    /\ Asked(c, "STOP") => Own(c, notice[c].chunks)
    /\ Sent(c, "DONE") => Own(c, net[c].chunks)

\* The rkeys of a grant are only cleared by an eviction that cannot go on before it.
Listed ==
  alive /\ ~wiped /\ ppc # "idle" /\ Live(pconn) =>
    \/ Cardinality(rkey[pconn]) >= want - left
    \/ fpc = "stuck"
    \/ fpc = "activity" /\ conn_index[pconn] \in todo

Inv ==
  /\ PoolTypes /\ ConnTypes /\ NetTypes /\ BufferTypes /\ PollTypes /\ FreeTypes
  /\ Unborn /\ Slots /\ ConnIndexed /\ ReceiveBufferStable /\ Starting
  /\ Waits /\ Stops /\ Marks /\ GrantedIsAllocated /\ Listed

-----------------------------------------------------------------------------
(* The smallest slot, and what a step keeps that does not touch it         *)

\* Most steps reason about sets and functions, which Zenon does; one that counts names SMT.
USE ZenonT(30)

\* The arithmetic of the counters: 0 is one, and a step up or down of one leaves it a counter.
LEMMA Zero == 0 \in Nat /\ 0 \in Int /\ 1 > 0
  BY SMT

\* What a counter is after a post (+ 1) or a wait (- 1), and that taking an answer and posting
\* the receive again keep their sum.
LEMMA Counter == \A a, b \in Nat : /\ a + 1 \in Nat /\ (b > 0 => b - 1 \in Nat)
                                   /\ (a + 1) + (b - 1) = a + b
                                   /\ (b > 0 => a + b + 1 # 1)
  BY SMT

\* send_stop's message is one.
LEMMA StopMessage ==
  ASSUME NEW n \in Int, NEW x \in SUBSET Chunk
  PROVE  /\ [type |-> "STOP", size |-> n, chunks |-> x] \in Message
         /\ [type |-> "STOP", size |-> n, chunks |-> x] # NULL
  BY SMT, NullMsgAssumption DEF Message

LEMMA MinIn == ASSUME NEW S \in SUBSET Slot, S # {} PROVE Min(S) \in S
  <1>1. S \subseteq Nat
    BY SMT, PoolAssumption DEF Slot
  <1>2. PICK x \in S : \A y \in S : <<y, x>> \notin {p \in Nat \X Nat : p[1] < p[2]}
    BY <1>1, WFMin, NatLessThanWellFounded DEF OpToRel
  <1>3. ASSUME NEW y \in S PROVE x <= y
    <2>1. x \in Nat /\ y \in Nat /\ <<y, x>> \in Nat \X Nat
      BY <1>1
    <2>2. ~(<<y, x>>[1] < <<y, x>>[2])
      BY <1>2, <2>1
    <2> QED
      BY SMT, <2>1, <2>2
  <1> QED
    BY <1>3 DEF Min

LEMMA ChunksFinite ==
  /\ \A S \in SUBSET Chunk : IsFiniteSet(S) /\ Cardinality(S) \in Nat
  /\ \A S, T \in SUBSET Chunk : S \subseteq T => Cardinality(S) <= Cardinality(T)
  /\ \A S \in SUBSET Chunk, i \in Chunk : i \notin S => Cardinality(S \cup {i}) = Cardinality(S) + 1
  <1>1. IsFiniteSet(Chunk)
    BY SMT, FS_Interval, PoolAssumption DEF Chunk
  <1>2. \A S \in SUBSET Chunk : IsFiniteSet(S)
    BY <1>1, FS_Subset
  <1>3. \A S \in SUBSET Chunk : Cardinality(S) \in Nat
    BY <1>2, FS_CardinalityType
  <1>4. \A S, T \in SUBSET Chunk : S \subseteq T => Cardinality(S) <= Cardinality(T)
    BY <1>2, FS_Subset
  <1>5. \A S \in SUBSET Chunk, i \in Chunk : i \notin S => Cardinality(S \cup {i}) = Cardinality(S) + 1
    BY <1>2, FS_AddElement
  <1> QED
    BY <1>2, <1>3, <1>4, <1>5

LEMMA PoolTypesKept ==
  PoolTypes /\ UNCHANGED <<malloc_map, conn_map, size_gb, mapped_size>> => PoolTypes'
  BY DEF PoolTypes

LEMMA ConnTypesKept ==
  /\ ConnTypes
  /\ UNCHANGED <<conns, conns_state, stage, conn_index,
                 sess_chunk_map, mapped_chunk_size>>
  => ConnTypes'
  BY DEF ConnTypes

LEMMA NetTypesKept == NetTypes /\ UNCHANGED <<net, notice>> => NetTypes'
  BY DEF NetTypes, Message

LEMMA BufferTypesKept ==
  BufferTypes /\ UNCHANGED <<recvs, evict_sem, stop_sem, recv_msg, rkey>> => BufferTypes'
  BY DEF BufferTypes

LEMMA PollTypesKept == PollTypes /\ UNCHANGED <<ppc, pconn, pi, want, left>> => PollTypes'
  BY DEF PollTypes

LEMMA FreeTypesKept == FreeTypes /\ UNCHANGED <<fpc, fi, goal, count, evict_list>> => FreeTypes'
  BY DEF FreeTypes

LEMMA UnbornKept ==
  /\ Unborn
  /\ UNCHANGED <<stage, recvs, evict_sem, stop_sem, net, notice, rkey, sess_chunk_map,
                 ppc, pconn, fconn, told>>
  => Unborn'
  BY DEF Unborn

LEMMA SlotsKept == Slots /\ UNCHANGED <<conns, conns_state, conn_index, stage>> => Slots'
  BY DEF Slots

LEMMA ConnIndexedKept ==
  ConnIndexed /\ UNCHANGED <<wiped, stage, conn_index, conns>> => ConnIndexed'
  BY SMT DEF ConnIndexed, Live

LEMMA ReceiveBufferStableKept ==
  ReceiveBufferStable /\ UNCHANGED <<stage, recvs, evict_sem, ppc, pconn>> => ReceiveBufferStable'
  BY DEF ReceiveBufferStable, Live

LEMMA StartingKept == Starting /\ UNCHANGED <<fpc, malloc_map, sess_chunk_map, rkey>> => Starting'
  BY DEF Starting

LEMMA WaitsKept ==
  /\ Waits
  /\ UNCHANGED <<alive, fpc, send_list, todo, told, fconn, conn_index,
                 stage, net, notice, evict_sem>>
  => Waits'
  BY DEF Waits, Live, Asked, Sent

LEMMA StopsKept ==
  Stops /\ UNCHANGED <<alive, fpc, todo, fconn, conn_index, stage, net, notice, stop_sem>> => Stops'
  BY DEF Stops, Live, Asked, Sent, Settled, Pending

LEMMA MarksKept ==
  /\ Marks
  /\ UNCHANGED <<alive, wiped, fpc, send_list, todo, conn_index, stage, net,
                 notice, rkey, conn_map, ppc, pconn>>
  => Marks'
  BY SMT DEF Marks, Live, Asked, Sent, Own

LEMMA GrantedIsAllocatedKept ==
  /\ GrantedIsAllocated
  /\ UNCHANGED <<wiped, stage, sess_chunk_map, malloc_map,
                 lost, conn_map, conn_index>>
  => GrantedIsAllocated'
  BY SMT DEF GrantedIsAllocated, Live

LEMMA ListedKept ==
  /\ Listed
  /\ UNCHANGED <<alive, wiped, ppc, pconn, want, left, stage,
                 rkey, fpc, conn_index, todo>>
  => Listed'
  BY SMT DEF Listed, Live

-----------------------------------------------------------------------------
(* main                                                                    *)

USE DEF sessVars, slotVars, connVars, semVars, msgVars, pollVars, evVars, freeVars, histVars, flagVars

\* A new connection has left no trace, so nothing is said of it but that it has its slot.
LEMMA ConnectRequestKeeps == ASSUME Inv, NEW c \in Conn, ConnectRequest(c) PROVE Inv'
  <1> DEFINE k == Min(IdleSlots)
  <1>1. k \in Slot /\ conns_state[k] = "IDLE"
    BY MinIn DEF ConnectRequest, IdleSlots
  <1> HIDE DEF k
  <1>2. conns[k] \notin Conn
    BY <1>1 DEF Inv, Slots
  <1>3. /\ stage[c] = "none" /\ stage' = [stage EXCEPT ![c] = "built"]
        /\ conns' = [conns EXCEPT ![k] = c] /\ conns_state' = [conns_state EXCEPT ![k] = "CONNECTED"]
        /\ conn_index' = [conn_index EXCEPT ![c] = k] /\ recvs' = [recvs EXCEPT ![c] = 1]
    BY DEF ConnectRequest, Build, k
  <1>4. UNCHANGED <<sessVars, sess_chunk_map, mapped_chunk_size, net, notice, recv_msg, rkey, semVars,
                    pollVars, freeVars, flagVars>>
    BY DEF ConnectRequest, Build
  <1>5. ConnTypes' /\ BufferTypes'
    BY <1>1, <1>3, <1>4 DEF Inv, ConnTypes, BufferTypes
  <1>6. /\ stage'[c] = "built" /\ conn_index'[c] = k /\ recvs'[c] = 1
        /\ conns'[k] = c /\ conns_state'[k] = "CONNECTED"
        /\ \A d \in Conn \ {c} : stage'[d] = stage[d] /\ conn_index'[d] = conn_index[d] /\ recvs'[d] = recvs[d]
        /\ \A j \in Slot \ {k} : conns'[j] = conns[j] /\ conns_state'[j] = conns_state[j]
    BY <1>1, <1>3 DEF Inv, ConnTypes, BufferTypes
  <1>7. /\ evict_sem[c] = 0 /\ stop_sem[c] = 0 /\ net[c] = NULL /\ notice[c] = NULL /\ rkey[c] = {}
        /\ sess_chunk_map[c] = {} /\ (ppc # "idle" => pconn # c) /\ fconn # c /\ c \notin told
    BY <1>3 DEF Inv, Unborn
  <1>8. Unborn'
    BY <1>4, <1>6 DEF Inv, Unborn
  <1>9. Slots'
    BY SMT, <1>1, <1>3, <1>6 DEF Inv, Slots, ConnTypes
  <1>10. ConnIndexed'
    <2> SUFFICES ASSUME ~wiped, NEW d \in Conn, Live(d)'
                 PROVE  conn_index'[d] \in Slot /\ conns'[conn_index'[d]] = d
      BY <1>4 DEF ConnIndexed
    <2>1. d # c => conn_index[d] \in Slot /\ conns[conn_index[d]] = d
      BY <1>6 DEF Inv, ConnIndexed, Live
    <2> QED
      BY SMT, <1>1, <1>2, <1>6, <2>1
  <1>11. ReceiveBufferStable'
    BY SMT, <1>4, <1>6, <1>7 DEF Inv, ReceiveBufferStable, Live
  <1>12. Waits'
    BY <1>4, <1>6, <1>7 DEF Inv, Waits, Live, Asked, Sent
  <1>13. Stops'
    BY <1>4, <1>6, <1>7 DEF Inv, Stops, Live, Asked, Sent, Settled, Pending
  <1>14. Marks'
    BY SMT, <1>4, <1>6, <1>7 DEF Inv, Marks, Live, Asked, Sent, Own
  <1>15. GrantedIsAllocated'
    BY SMT, <1>4, <1>6, <1>7 DEF Inv, GrantedIsAllocated, Live
  <1>16. Listed'
    BY <1>4, <1>6, <1>7 DEF Inv, Listed, Live, PollTypes
  <1> QED
    BY <1>4, <1>5, <1>8, <1>9, <1>10, <1>11, <1>12, <1>13, <1>14, <1>15, <1>16, PoolTypesKept,
       NetTypesKept, PollTypesKept, FreeTypesKept, StartingKept DEF Inv

LEMMA EstablishedKeeps == ASSUME Inv, NEW c \in Conn, Established(c) PROVE Inv'
  <1>1. /\ stage \in [Conn -> {"none", "built", "up", "gone"}] /\ stage[c] = "built"
        /\ stage' = [stage EXCEPT ![c] = "up"]
    BY DEF Inv, ConnTypes, Established
  <1>2. UNCHANGED <<sessVars, slotVars, conn_index, sess_chunk_map, mapped_chunk_size, msgVars, pollVars,
                    freeVars, flagVars>>
    BY DEF Established
  <1>3. \A d \in Conn : (Live(d)' <=> Live(d)) /\ (stage'[d] = "none" <=> stage[d] = "none")
    BY <1>1 DEF Live
  <1>4. ConnTypes' /\ Unborn' /\ Slots'
    BY <1>1, <1>2, <1>3 DEF Inv, ConnTypes, Unborn, Slots
  <1>5. ConnIndexed' /\ ReceiveBufferStable' /\ GrantedIsAllocated'
    BY <1>2, <1>3 DEF Inv, ConnIndexed, ReceiveBufferStable, GrantedIsAllocated
  <1>6. Waits' /\ Listed'
    BY <1>2, <1>3 DEF Inv, Waits, Listed, PollTypes, Asked, Sent
  <1>7. Stops'
    BY <1>2, <1>3 DEF Inv, Stops, Asked, Sent, Settled, Pending
  <1>8. Marks'
    BY <1>2, <1>3 DEF Inv, Marks, Asked, Sent, Own
  <1> QED
    BY <1>2, <1>4, <1>5, <1>6, <1>7, <1>8, PoolTypesKept, NetTypesKept, BufferTypesKept,
       PollTypesKept, FreeTypesKept, StartingKept DEF Inv

\* Only chunks of the connection itself go back, since no other has its slot.
LEMMA DisconnectedKeeps == ASSUME Inv, NEW c \in Conn, Disconnected(c) PROVE Inv'
  <1>1. /\ stage[c] = "up" /\ stage' = [stage EXCEPT ![c] = "gone"]
        /\ conns' = [k \in Slot |-> IF k = conn_index[c] THEN NULL ELSE conns[k]]
        /\ conns_state' = [k \in Slot |-> IF k = conn_index[c] THEN "IDLE" ELSE conns_state[k]]
        /\ net' = [net EXCEPT ![c] = NULL] /\ notice' = [notice EXCEPT ![c] = NULL]
    BY DEF Disconnected
  <1>2. UNCHANGED <<malloc_map, size_gb, conn_index, sess_chunk_map, mapped_chunk_size, recvs,
                    recv_msg, rkey, semVars, pollVars, freeVars, alive, histVars>>
    BY DEF Disconnected
  <1>3. /\ conn_map' \in [Chunk -> Slot \cup {-1}] /\ mapped_size' \in Int
        /\ \A i \in Chunk : conn_map'[i] = conn_map[i] \/ (conn_map'[i] = -1 /\ i \in sess_chunk_map[c])
    <2>1. mapped_chunk_size[c] \in Int /\ mapped_size \in Int /\ conn_map \in [Chunk -> Slot \cup {-1}]
      BY DEF Inv, PoolTypes, ConnTypes
    <2>2. CASE /\ conn_map' = [i \in Chunk |-> IF i \in sess_chunk_map[c] THEN -1 ELSE conn_map[i]]
               /\ mapped_size' = mapped_size - mapped_chunk_size[c]
      BY SMT, <2>1, <2>2
    <2>3. CASE UNCHANGED <<conn_map, mapped_size>>
      BY <2>1, <2>3
    <2> QED
      BY <2>2, <2>3 DEF Disconnected
  <1>4. PoolTypes' /\ ConnTypes' /\ NetTypes'
    <2>1. PoolTypes'
      BY <1>2, <1>3 DEF Inv, PoolTypes
    <2>2. ConnTypes'
      BY <1>1, <1>2 DEF Inv, ConnTypes
    <2>3. NetTypes'
      BY <1>1, <1>2 DEF Inv, NetTypes
    <2> QED
      BY <2>1, <2>2, <2>3
  <1>5. /\ \A d \in Conn : (Live(d)' <=> Live(d) /\ d # c) /\ (stage'[d] = "none" <=> stage[d] = "none")
        /\ \A d \in Conn \ {c} : net'[d] = net[d] /\ notice'[d] = notice[d]
        /\ net'[c] = NULL /\ notice'[c] = NULL /\ Live(c)
    BY <1>1 DEF Inv, ConnTypes, NetTypes, Live
  <1>6. Unborn'
    BY <1>2, <1>5 DEF Inv, Unborn
  <1>7. Slots'
    BY <1>1, <1>2, <1>5, NullConnAssumption DEF Inv, Slots, ConnTypes
  <1>8. ConnIndexed' /\ ReceiveBufferStable'
    BY SMT, <1>1, <1>2, <1>5 DEF Inv, ConnIndexed, ReceiveBufferStable
  <1>9. ~wiped => \A d \in Conn : Live(d)' => conn_index[d] # conn_index[c] /\ conn_index[d] # -1
    BY SMT, <1>5, PoolAssumption DEF Inv, ConnIndexed, Slot
  <1>10. ~wiped => \A d \in Conn, i \in Chunk : Live(d)' /\ conn_map[i] = conn_index[d] => conn_map'[i] = conn_map[i]
    BY <1>3, <1>5, <1>9 DEF Inv, GrantedIsAllocated
  <1>11. GrantedIsAllocated'
    BY <1>2, <1>5, <1>10 DEF Inv, GrantedIsAllocated, ConnTypes
  <1>12. Waits' /\ Listed'
    BY <1>2, <1>5 DEF Inv, Waits, Listed, PollTypes, Asked, Sent
  <1>13. Stops'
    BY <1>2, <1>5 DEF Inv, Stops, Asked, Sent, Settled, Pending
  <1>14. Marks'
    <2> SUFFICES ASSUME alive, ~wiped, NEW d \in Conn, Live(d)'
                 PROVE  /\ fpc = "activity" /\ conn_index[d] \in send_list => Own(d, rkey[d])'
                        /\ fpc = "stop" /\ conn_index[d] \in todo => Own(d, rkey[d])'
                        /\ ppc # "idle" /\ pconn = d => Own(d, rkey[d])'
                        /\ Asked(d, "STOP")' => Own(d, notice[d].chunks)'
                        /\ Sent(d, "DONE")' => Own(d, net[d].chunks)'
      BY <1>2 DEF Marks
    <2>1. \A S \in SUBSET Chunk : Own(d, S) => Own(d, S)'
      BY <1>2, <1>10 DEF Own
    <2>2. rkey[d] \in SUBSET Chunk /\ (net[d] # NULL => net[d].chunks \in SUBSET Chunk)
          /\ (notice[d] # NULL => notice[d].chunks \in SUBSET Chunk)
      BY DEF Inv, BufferTypes, NetTypes, Message
    <2>3. d # c /\ Live(d)
      BY <1>5
    <2>4. net'[d] = net[d] /\ notice'[d] = notice[d] /\ rkey'[d] = rkey[d]
      BY <1>2, <1>5, <2>3
    <2>5. (Asked(d, "STOP")' <=> Asked(d, "STOP")) /\ (Sent(d, "DONE")' <=> Sent(d, "DONE"))
      BY <2>4 DEF Asked, Sent
    <2>6. /\ fpc = "activity" /\ conn_index[d] \in send_list => Own(d, rkey[d])
          /\ fpc = "stop" /\ conn_index[d] \in todo => Own(d, rkey[d])
          /\ ppc # "idle" /\ pconn = d => Own(d, rkey[d])
          /\ Asked(d, "STOP") => notice[d] # NULL /\ Own(d, notice[d].chunks)
          /\ Sent(d, "DONE") => net[d] # NULL /\ Own(d, net[d].chunks)
      BY <2>3 DEF Inv, Marks, Asked, Sent
    <2> QED
      BY <2>1, <2>2, <2>4, <2>5, <2>6 DEF Own
  <1> QED
    BY <1>2, <1>4, <1>6, <1>7, <1>8, <1>11, <1>12, <1>13, <1>14, BufferTypesKept, PollTypesKept,
       FreeTypesKept, StartingKept DEF Inv

-----------------------------------------------------------------------------
(* The clients                                                             *)

\* A query or a request says nothing about an eviction.
LEMMA ClientSendKeeps ==
  ASSUME Inv, NEW c \in Conn, NEW m \in Message, m.type \in {"QUERY", "REQUEST_CHUNKS"}, m.size >= 0,
         ClientSend(c, m), UNCHANGED notice
  PROVE  Inv'
  <1>1. net[c] = NULL /\ net' = [net EXCEPT ![c] = m] /\ net \in [Conn -> Message \cup {NULL}] /\ Live(c)
    BY DEF Inv, NetTypes, ClientSend
  <1>2. UNCHANGED <<sessVars, slotVars, connVars, recvs, recv_msg, rkey, semVars, pollVars, freeVars, flagVars>>
    BY DEF ClientSend
  <1>3. NetTypes'
    BY <1>1 DEF Inv, NetTypes
  <1>4. \A d \in Conn : /\ Sent(d, "ACTIVITY")' <=> Sent(d, "ACTIVITY")
                        /\ Sent(d, "DONE")' <=> Sent(d, "DONE")
                        /\ Sent(d, "DONE") => net'[d] = net[d]
    BY <1>1 DEF Sent
  <1>5. Unborn'
    BY <1>1, <1>2 DEF Inv, Unborn, Live
  <1>6. Waits'
    BY <1>2, <1>4 DEF Inv, Waits, Live, Asked
  <1>7. Stops'
    BY <1>2, <1>4 DEF Inv, Stops, Live, Asked, Settled, Pending
  <1>8. Marks'
    BY <1>2, <1>4 DEF Inv, Marks, Live, Asked, Own
  <1> QED
    BY <1>2, <1>3, <1>5, <1>6, <1>7, <1>8, PoolTypesKept, ConnTypesKept, BufferTypesKept,
       PollTypesKept, FreeTypesKept, SlotsKept, ConnIndexedKept, ReceiveBufferStableKept,
       StartingKept, GrantedIsAllocatedKept, ListedKept DEF Inv

LEMMA ClientQueryKeeps == ASSUME Inv, NEW c \in Conn, ClientQuery(c) PROVE Inv'
  <1>1. [type |-> "QUERY", size |-> 0, chunks |-> {}] \in Message
    BY SMT DEF Message
  <1> QED
    BY SMT, <1>1, ClientSendKeeps DEF ClientQuery

LEMMA ClientRequestKeeps == ASSUME Inv, NEW c \in Conn, NEW n \in Requests, ClientRequest(c, n) PROVE Inv'
  <1>1. [type |-> "REQUEST_CHUNKS", size |-> n, chunks |-> {}] \in Message /\ n >= 0
    BY SMT, RequestAssumption DEF Message
  <1> QED
    BY <1>1, ClientSendKeeps DEF ClientRequest

\* The answer takes the place of the message that is answered.
LEMMA ClientAnswerKeeps == ASSUME Inv, NEW c \in Conn, ClientAnswer(c) PROVE Inv'
  <1> DEFINE m == IF notice[c].type = "EVICT"
                  THEN [type |-> "ACTIVITY", size |-> 0, chunks |-> sess_chunk_map[c]]
                  ELSE [type |-> "DONE", size |-> notice[c].size, chunks |-> notice[c].chunks]
  <1>1. /\ notice[c] \in Message /\ notice[c] # NULL /\ notice[c].type \in {"EVICT", "STOP"}
        /\ net[c] = NULL /\ sess_chunk_map[c] \in SUBSET Chunk
        /\ net \in [Conn -> Message \cup {NULL}] /\ notice \in [Conn -> Message \cup {NULL}]
    BY DEF Inv, NetTypes, ConnTypes, ClientAnswer, ClientSend
  <1>2. /\ m \in Message
        /\ notice[c].type = "EVICT" => m.type = "ACTIVITY"
        /\ notice[c].type = "STOP" => m.type = "DONE" /\ m.chunks = notice[c].chunks
    BY SMT, <1>1 DEF Message
  <1>3. Live(c) /\ net' = [net EXCEPT ![c] = m] /\ notice' = [notice EXCEPT ![c] = NULL]
    BY DEF ClientAnswer, ClientSend
  <1>4. UNCHANGED <<sessVars, slotVars, connVars, recvs, recv_msg, rkey, semVars, pollVars, freeVars, flagVars>>
    BY DEF ClientAnswer, ClientSend
  <1>5. m # NULL
    BY <1>2, NullMsgAssumption DEF Message
  <1> HIDE DEF m
  <1>6. NetTypes'
    BY <1>1, <1>2, <1>3 DEF Inv, NetTypes
  <1>7. /\ \A d \in Conn \ {c} : net'[d] = net[d] /\ notice'[d] = notice[d]
        /\ net'[c] = m /\ notice'[c] = NULL
    BY <1>1, <1>3
  <1>8. Unborn'
    BY <1>3, <1>4, <1>7 DEF Inv, Unborn, Live
  <1>9. \A d \in Conn \ {c} :
          /\ (Asked(d, "STOP")' <=> Asked(d, "STOP")) /\ (Sent(d, "DONE")' <=> Sent(d, "DONE"))
          /\ (Asked(d, "EVICT")' <=> Asked(d, "EVICT")) /\ (Sent(d, "ACTIVITY")' <=> Sent(d, "ACTIVITY"))
    BY <1>7 DEF Asked, Sent
  <1>10. /\ ~Sent(c, "DONE") /\ ~Sent(c, "ACTIVITY") /\ ~Asked(c, "STOP")' /\ ~Asked(c, "EVICT")'
         /\ Sent(c, "ACTIVITY")' <=> Asked(c, "EVICT")
         /\ Sent(c, "DONE")' <=> Asked(c, "STOP")
         /\ Asked(c, "STOP") => net'[c].chunks = notice[c].chunks
    BY <1>1, <1>2, <1>5, <1>7 DEF Asked, Sent
  <1>11. Waits'
    BY <1>4, <1>9, <1>10 DEF Inv, Waits, Live
  <1>12. Stops'
    BY <1>4, <1>9, <1>10 DEF Inv, Stops, Live, Settled, Pending
  <1>13. Marks'
    <2>1. \A d \in Conn \ {c} : Asked(d, "STOP")' => Asked(d, "STOP") /\ notice'[d].chunks = notice[d].chunks
      BY <1>7, <1>9
    <2>2. \A d \in Conn \ {c} : Sent(d, "DONE")' => Sent(d, "DONE") /\ net'[d].chunks = net[d].chunks
      BY <1>7, <1>9
    <2>3. ~Asked(c, "STOP")' /\ (Sent(c, "DONE")' => Asked(c, "STOP") /\ net'[c].chunks = notice[c].chunks)
      BY <1>10
    <2>4. \A d \in Conn : /\ Asked(d, "STOP")' => Asked(d, "STOP") /\ notice'[d].chunks = notice[d].chunks
                          /\ Sent(d, "DONE")' => \/ Sent(d, "DONE") /\ net'[d].chunks = net[d].chunks
                                                 \/ Asked(d, "STOP") /\ net'[d].chunks = notice[d].chunks
      BY <2>1, <2>2, <2>3
    <2> SUFFICES ASSUME alive, ~wiped, NEW d \in Conn, Live(d)
                 PROVE  /\ fpc = "activity" /\ conn_index[d] \in send_list => Own(d, rkey[d])
                        /\ fpc = "stop" /\ conn_index[d] \in todo => Own(d, rkey[d])
                        /\ ppc # "idle" /\ pconn = d => Own(d, rkey[d])
                        /\ Asked(d, "STOP")' => Own(d, notice'[d].chunks)
                        /\ Sent(d, "DONE")' => Own(d, net'[d].chunks)
      BY <1>4 DEF Marks, Live, Own
    <2>5. /\ fpc = "activity" /\ conn_index[d] \in send_list => Own(d, rkey[d])
          /\ fpc = "stop" /\ conn_index[d] \in todo => Own(d, rkey[d])
          /\ ppc # "idle" /\ pconn = d => Own(d, rkey[d])
          /\ Asked(d, "STOP") => Own(d, notice[d].chunks)
          /\ Sent(d, "DONE") => Own(d, net[d].chunks)
      BY DEF Inv, Marks
    <2>6. Asked(d, "STOP")' => Own(d, notice'[d].chunks)
      BY <2>4, <2>5 DEF Own
    <2>7. ASSUME Sent(d, "DONE")' PROVE Own(d, net'[d].chunks)
      <3>1. CASE Sent(d, "DONE") /\ net'[d].chunks = net[d].chunks
        BY <2>5, <3>1 DEF Own
      <3>2. CASE Asked(d, "STOP") /\ net'[d].chunks = notice[d].chunks
        BY <2>5, <3>2 DEF Own
      <3> QED
        BY <2>4, <2>7, <3>1, <3>2
    <2> QED
      BY <2>5, <2>6, <2>7
  <1> QED
    BY <1>4, <1>6, <1>8, <1>11, <1>12, <1>13, PoolTypesKept, ConnTypesKept, BufferTypesKept,
       PollTypesKept, FreeTypesKept, SlotsKept, ConnIndexedKept, ReceiveBufferStableKept,
       StartingKept, GrantedIsAllocatedKept, ListedKept DEF Inv

-----------------------------------------------------------------------------
(* poll_cq                                                                 *)

LEMMA QueryKeeps == ASSUME Inv, NEW c \in Conn, Query(c) PROVE Inv'
  <1>1. /\ net[c] # NULL /\ net[c].type = "QUERY" /\ net' = [net EXCEPT ![c] = NULL]
        /\ net \in [Conn -> Message \cup {NULL}]
    BY DEF Inv, NetTypes, Query, Receive
  <1>2. UNCHANGED <<sessVars, slotVars, connVars, recvs, notice, recv_msg, rkey, semVars, pollVars,
                    freeVars, flagVars>>
    BY DEF Query
  <1>3. NetTypes' /\ Unborn'
    BY <1>1, <1>2 DEF Inv, NetTypes, Unborn
  <1>4. \A d \in Conn : /\ Sent(d, "ACTIVITY")' <=> Sent(d, "ACTIVITY")
                        /\ Sent(d, "DONE")' <=> Sent(d, "DONE")
                        /\ Sent(d, "DONE") => net'[d] = net[d]
    BY <1>1 DEF Sent
  <1>6. Waits'
    BY <1>2, <1>4 DEF Inv, Waits, Live, Asked
  <1>7. Stops'
    BY <1>2, <1>4 DEF Inv, Stops, Live, Asked, Settled, Pending
  <1>8. Marks'
    BY <1>2, <1>4 DEF Inv, Marks, Live, Asked, Own
  <1> QED
    BY <1>2, <1>3, <1>6, <1>7, <1>8, PoolTypesKept, ConnTypesKept, BufferTypesKept, PollTypesKept,
       FreeTypesKept, SlotsKept, ConnIndexedKept, ReceiveBufferStableKept, StartingKept,
       GrantedIsAllocatedKept, ListedKept DEF Inv

\* The receive is used up by the message that evict_mem still has to copy.
LEMMA ActivityKeeps == ASSUME Inv, NEW c \in Conn, Activity(c) PROVE Inv'
  <1>1. /\ net[c] \in Message /\ net[c] # NULL /\ net[c].type = "ACTIVITY" /\ net' = [net EXCEPT ![c] = NULL]
        /\ net \in [Conn -> Message \cup {NULL}] /\ Live(c) /\ recvs[c] > 0
        /\ recvs' = [recvs EXCEPT ![c] = @ - 1] /\ evict_sem' = [evict_sem EXCEPT ![c] = @ + 1]
        /\ recv_msg' = [recv_msg EXCEPT ![c] = net[c].chunks]
    BY DEF Inv, NetTypes, Activity, Receive
  <1>2. UNCHANGED <<sessVars, slotVars, connVars, notice, rkey, stop_sem, pollVars, freeVars, flagVars>>
    BY DEF Activity
  <1>3. /\ recvs \in [Conn -> Nat] /\ evict_sem \in [Conn -> Nat]
        /\ \A d \in Conn \ {c} : recvs'[d] = recvs[d] /\ evict_sem'[d] = evict_sem[d] /\ net'[d] = net[d]
        /\ recvs'[c] = recvs[c] - 1 /\ evict_sem'[c] = evict_sem[c] + 1 /\ net'[c] = NULL
    BY <1>1 DEF Inv, BufferTypes
  <1>4. NetTypes' /\ BufferTypes'
    <2>1. NetTypes'
      BY <1>1, <1>2 DEF Inv, NetTypes
    <2>2. net[c].chunks \in SUBSET Chunk
      BY <1>1 DEF Message
    <2>3. BufferTypes'
      BY SMT, <1>1, <1>2, <2>2 DEF Inv, BufferTypes
    <2> QED
      BY <2>1, <2>3
  <1>5. Unborn'
    BY <1>1, <1>2, <1>3 DEF Inv, Unborn, Live
  <1>6. ReceiveBufferStable'
    BY SMT, <1>2, <1>3 DEF Inv, ReceiveBufferStable, Live
  <1>7. \A d \in Conn : /\ Sent(d, "ACTIVITY")' \/ evict_sem'[d] > 0 <=> Sent(d, "ACTIVITY") \/ evict_sem[d] > 0
                        /\ Sent(d, "DONE")' <=> Sent(d, "DONE")
                        /\ Sent(d, "DONE") => net'[d] = net[d]
    BY SMT, <1>1, <1>3 DEF Sent
  <1>8. Waits'
    BY <1>2, <1>7 DEF Inv, Waits, Live, Asked
  <1>9. Stops'
    BY <1>2, <1>7 DEF Inv, Stops, Live, Asked, Settled, Pending
  <1>10. Marks'
    BY <1>2, <1>7 DEF Inv, Marks, Live, Asked, Own
  <1> QED
    BY <1>2, <1>4, <1>5, <1>6, <1>8, <1>9, <1>10, PoolTypesKept, ConnTypesKept, PollTypesKept,
       FreeTypesKept, SlotsKept, ConnIndexedKept, StartingKept, GrantedIsAllocatedKept, ListedKept
       DEF Inv

\* DONE answers the STOP of the connection evict_mem waits for, and names chunks of this
\* connection only.
LEMMA RecvDoneKeeps == ASSUME Inv, NEW c \in Conn, RecvDone(c) PROVE Inv'
  <1> DEFINE m == net[c]
             S == m.chunks
  <1>1. /\ m \in Message /\ m # NULL /\ m.type = "DONE" /\ net' = [net EXCEPT ![c] = NULL] /\ Live(c) /\ alive
        /\ net \in [Conn -> Message \cup {NULL}] /\ ppc = "idle"
    BY DEF Inv, NetTypes, RecvDone, Receive
  <1>2. /\ sess_chunk_map' = [sess_chunk_map EXCEPT ![c] = @ \ S]
        /\ conn_map' = [i \in Chunk |-> IF i \in S THEN -1 ELSE conn_map[i]]
        /\ malloc_map' = [i \in Chunk |-> IF i \in S THEN "EMPTY" ELSE malloc_map[i]]
        /\ stop_sem' = [stop_sem EXCEPT ![c] = @ + 1]
    BY DEF RecvDone
  <1>3. /\ size_gb' = size_gb - m.size /\ mapped_size' = mapped_size - m.size
        /\ mapped_chunk_size' = [mapped_chunk_size EXCEPT ![c] = @ - m.size]
        /\ \/ conns_state' = [k \in Slot |-> IF k = conn_index[c] THEN "CONNECTED" ELSE conns_state[k]]
           \/ conns_state' = conns_state
    BY DEF RecvDone
  <1>4. UNCHANGED <<conns, conn_num, stage, conn_index, recvs, notice, recv_msg, rkey, evict_sem, pollVars,
                    freeVars, running, alive, wiped, lost>>
    BY DEF RecvDone
  <1>5. S \in SUBSET Chunk /\ m.size \in Int /\ Sent(c, "DONE")
    BY <1>1 DEF Message, Sent
  <1> HIDE DEF m, S
  <1>6. PoolTypes' /\ ConnTypes' /\ NetTypes' /\ BufferTypes'
    <2>1. PoolTypes'
      BY SMT, <1>2, <1>3, <1>5 DEF Inv, PoolTypes
    <2>2. ConnTypes'
      <3>1. mapped_chunk_size[c] - m.size \in Int
        BY SMT, <1>5 DEF Inv, ConnTypes
      <3> QED
        BY <1>2, <1>3, <1>4, <1>5, <3>1 DEF Inv, ConnTypes
    <2>3. NetTypes'
      BY <1>1, <1>4 DEF Inv, NetTypes
    <2>4. stop_sem' \in [Conn -> Nat]
      BY SMT, <1>2 DEF Inv, BufferTypes
    <2>5. BufferTypes'
      BY <1>4, <2>4 DEF Inv, BufferTypes
    <2> QED
      BY <2>1, <2>2, <2>3, <2>5
  <1>7. fpc = "stop" /\ fconn = c /\ conn_index[c] \notin todo /\ stop_sem[c] = 0 /\ ~Asked(c, "STOP")
    BY <1>1, <1>5 DEF Inv, Stops, Settled, Pending
  <1>8. /\ \A d \in Conn \ {c} :
             net'[d] = net[d] /\ stop_sem'[d] = stop_sem[d] /\ sess_chunk_map'[d] = sess_chunk_map[d]
        /\ net'[c] = NULL /\ stop_sem'[c] = 1 /\ sess_chunk_map'[c] = sess_chunk_map[c] \ S
        /\ \A i \in S : malloc_map'[i] = "EMPTY" /\ conn_map'[i] = -1
        /\ \A i \in Chunk \ S : malloc_map'[i] = malloc_map[i] /\ conn_map'[i] = conn_map[i]
    BY SMT, <1>1, <1>2, <1>5, <1>7 DEF Inv, BufferTypes, ConnTypes
  <1>9. Unborn' /\ Slots'
    <2>1. Unborn'
      <3>1. \A d \in Conn : stage[d] = "none" => d \in Conn \ {c}
        BY <1>1 DEF Live
      <3>2. \A d \in Conn : stage[d] = "none" =>
              net'[d] = net[d] /\ stop_sem'[d] = stop_sem[d] /\ sess_chunk_map'[d] = sess_chunk_map[d]
        BY <1>8, <3>1
      <3> QED
        BY <1>4, <3>2 DEF Inv, Unborn
    <2>2. Slots'
      BY <1>3, <1>4 DEF Inv, Slots
    <2> QED
      BY <2>1, <2>2
  <1>10. ~wiped => \A d \in Conn \ {c}, i \in Chunk : Live(d) /\ conn_map[i] = conn_index[d] => i \notin S
    <2>1. ~wiped => \A i \in S : conn_map[i] = conn_index[c]
      BY <1>1, <1>5 DEF Inv, Marks, Own, m, S
    <2>2. ~wiped => \A d \in Conn \ {c} : Live(d) => conn_index[d] # conn_index[c]
      BY SMT, <1>1 DEF Inv, ConnIndexed
    <2> QED
      BY <2>1, <2>2
  <1>11. GrantedIsAllocated'
    <2>1. \A d \in Conn : sess_chunk_map'[d] \subseteq sess_chunk_map[d] /\ sess_chunk_map[d] \subseteq Chunk
      BY <1>8 DEF Inv, ConnTypes
    <2>2. ~wiped => \A d \in Conn : Live(d) => \A i \in sess_chunk_map'[d] : i \in Chunk \ S
      BY <1>8, <1>10, <2>1 DEF Inv, GrantedIsAllocated
    <2> QED
      BY <1>4, <1>8, <2>1, <2>2 DEF Inv, GrantedIsAllocated, Live
  <1>12. \A d \in Conn \ {c} : (Sent(d, "DONE")' <=> Sent(d, "DONE")) /\ (Asked(d, "STOP")' <=> Asked(d, "STOP"))
    BY <1>4, <1>8 DEF Asked, Sent
  <1>13. ~Sent(c, "DONE")' /\ ~Asked(c, "STOP")'
    BY <1>4, <1>7, <1>8 DEF Asked, Sent
  <1>14. Waits' /\ Starting' /\ Listed'
    <2>1. Waits' /\ Starting'
      BY <1>4, <1>7 DEF Waits, Starting
    <2>2. Listed'
      BY <1>4, <1>1 DEF Listed
    <2> QED
      BY <2>1, <2>2
  <1>15. Stops'
    BY <1>1, <1>4, <1>7, <1>8, <1>12, <1>13 DEF Inv, Stops, Live, Settled, Pending
  <1>16. Marks'
    <2> SUFFICES ASSUME ~wiped, NEW d \in Conn, Live(d), d # c
                 PROVE  /\ conn_index[d] \in todo => Own(d, rkey[d])'
                        /\ Asked(d, "STOP")' => Own(d, notice[d].chunks)'
                        /\ Sent(d, "DONE")' => Own(d, net[d].chunks)'
      BY <1>1, <1>4, <1>7, <1>13 DEF Marks, Live
    <2>1. \A T \in SUBSET Chunk : Own(d, T) => \A i \in T : conn_map'[i] = conn_index'[d]
      BY <1>4, <1>8, <1>10 DEF Own
    <2>2. /\ rkey[d] \in SUBSET Chunk /\ (net[d] # NULL => net[d].chunks \in SUBSET Chunk)
          /\ (notice[d] # NULL => notice[d].chunks \in SUBSET Chunk)
      BY DEF Inv, BufferTypes, NetTypes, Message
    <2>3. net'[d] = net[d] /\ notice'[d] = notice[d] /\ rkey'[d] = rkey[d]
      BY <1>4, <1>8
    <2>4. /\ conn_index[d] \in todo => Own(d, rkey[d])
          /\ Asked(d, "STOP") => notice[d] # NULL /\ Own(d, notice[d].chunks)
          /\ Sent(d, "DONE") => net[d] # NULL /\ Own(d, net[d].chunks)
      BY <1>1, <1>7 DEF Inv, Marks, Asked, Sent
    <2> QED
      BY <1>12, <2>1, <2>2, <2>3, <2>4 DEF Own
  <1> QED
    BY <1>4, <1>6, <1>9, <1>11, <1>14, <1>15, <1>16, PollTypesKept, FreeTypesKept, ConnIndexedKept,
       ReceiveBufferStableKept DEF Inv

LEMMA RequestKeeps == ASSUME Inv, NEW c \in Conn, Request(c) PROVE Inv'
  <1>1. /\ net[c] \in Message /\ net[c] # NULL /\ net[c].type = "REQUEST_CHUNKS" /\ net[c].size >= 0
        /\ net' = [net EXCEPT ![c] = NULL] /\ Live(c) /\ alive /\ net \in [Conn -> Message \cup {NULL}]
        /\ ppc = "idle" /\ recvs[c] > 0
    BY DEF Inv, NetTypes, Request, Receive
  <1>2. /\ ppc' = "grant" /\ pconn' = c /\ pi' = 0 /\ want' = net[c].size /\ left' = net[c].size
        /\ recvs' = [recvs EXCEPT ![c] = @ - 1] /\ rkey' = [rkey EXCEPT ![c] = {}]
    BY DEF Request
  <1>3. UNCHANGED <<sessVars, slotVars, connVars, notice, recv_msg, semVars, freeVars, flagVars>>
    BY DEF Request
  <1>4. net[c].size \in Nat
    BY SMT, <1>1 DEF Message
  <1>5. NetTypes' /\ BufferTypes' /\ PollTypes'
    <2>1. NetTypes'
      BY <1>1, <1>3 DEF Inv, NetTypes
    <2>2. BufferTypes'
      BY SMT, <1>1, <1>2, <1>3 DEF Inv, BufferTypes
    <2>3. PollTypes'
      BY <1>2, <1>4 DEF PollTypes
    <2> QED
      BY <2>1, <2>2, <2>3
  <1>6. /\ \A d \in Conn \ {c} : net'[d] = net[d] /\ recvs'[d] = recvs[d] /\ rkey'[d] = rkey[d]
        /\ net'[c] = NULL /\ recvs'[c] = recvs[c] - 1 /\ rkey'[c] = {} /\ recvs[c] \in Nat /\ evict_sem[c] \in Nat
    BY <1>1, <1>2 DEF Inv, BufferTypes
  <1>7. Unborn' /\ Starting'
    BY <1>1, <1>2, <1>3, <1>6 DEF Inv, Unborn, Starting, Live
  <1>8. ReceiveBufferStable'
    <2>1. \A d \in Conn \ {c} : Live(d) => recvs[d] + evict_sem[d] = 1
      BY SMT, <1>1 DEF Inv, ReceiveBufferStable, BufferTypes
    <2>2. recvs[c] + evict_sem[c] = 1
      BY SMT, <1>1 DEF Inv, ReceiveBufferStable, BufferTypes
    <2>3. \A d \in Conn \ {c} : Live(d)' => recvs'[d] + evict_sem'[d] = 1
      BY <1>3, <1>6, <2>1 DEF Live
    <2>4. recvs'[c] + evict_sem'[c] = 0
      BY SMT, <1>3, <1>6, <2>2
    <2> QED
      BY SMT, <1>2, <1>5, <2>3, <2>4 DEF ReceiveBufferStable, BufferTypes
  <1>9. \A d \in Conn : /\ Sent(d, "ACTIVITY")' <=> Sent(d, "ACTIVITY")
                        /\ Sent(d, "DONE")' <=> Sent(d, "DONE")
                        /\ Sent(d, "DONE") => net'[d] = net[d]
    BY <1>1, <1>6 DEF Sent
  <1>10. Waits'
    BY <1>3, <1>9 DEF Inv, Waits, Live, Asked
  <1>11. Stops'
    BY <1>3, <1>9 DEF Inv, Stops, Live, Asked, Settled, Pending
  <1>12. Marks'
    <2> SUFFICES ASSUME alive, ~wiped, NEW d \in Conn, Live(d)
                 PROVE  /\ fpc = "activity" /\ conn_index[d] \in send_list => Own(d, rkey[d])'
                        /\ fpc = "stop" /\ conn_index[d] \in todo => Own(d, rkey[d])'
                        /\ pconn' = d => Own(d, rkey[d])'
                        /\ Asked(d, "STOP") => Own(d, notice[d].chunks)
                        /\ Sent(d, "DONE") => Own(d, net[d].chunks)
      BY <1>3, <1>9 DEF Marks, Live, Asked, Own
    <2>1. Own(c, rkey[c])'
      BY <1>6 DEF Own
    <2>2. d # c => (Own(d, rkey[d]) <=> Own(d, rkey[d])')
      BY <1>3, <1>6 DEF Own
    <2> QED
      BY <1>2, <2>1, <2>2 DEF Inv, Marks
  <1>13. Listed'
    <2>1. want' - left' = 0
      BY SMT, <1>2, <1>4
    <2>2. Cardinality(rkey[pconn])' = 0
      BY <1>2, <1>6, FS_EmptySet
    <2> QED
      BY SMT, <2>1, <2>2 DEF Listed
  <1> QED
    BY <1>3, <1>5, <1>7, <1>8, <1>10, <1>11, <1>12, <1>13, PoolTypesKept, ConnTypesKept,
       FreeTypesKept, SlotsKept, ConnIndexedKept, GrantedIsAllocatedKept DEF Inv

\* The chunk that is granted was nobody's, so nobody else's chunks change.
LEMMA GrantChunkKeeps == ASSUME Inv, GrantChunk PROVE Inv'
  <1>1. UNCHANGED <<malloc_map, size_gb, mapped_size, slotVars, stage, conn_index, mapped_chunk_size, recvs,
                    net, notice, recv_msg, semVars, ppc, pconn, want, freeVars, flagVars>>
    BY DEF GrantChunk
  <1>2. /\ alive /\ ppc = "grant" /\ pconn \in Conn /\ pi \in Chunk /\ pi' = pi + 1 /\ left > 0
        /\ pi \in Nat /\ want \in Nat /\ left \in Nat
    BY SMT, PoolAssumption DEF Inv, GrantChunk, PollTypes, Chunk
  <1>3. Unborn' <=> \A c \in Conn : stage[c] = "none" => rkey'[c] = {} /\ sess_chunk_map'[c] = {}
    BY <1>1 DEF Inv, Unborn
  <1>4. stage[pconn] # "none"
    BY <1>2 DEF Inv, Unborn
  <1>5. CASE ~Grantable(pi)
    <2>1. UNCHANGED <<sess_chunk_map, conn_map, rkey, left>>
      BY <1>5 DEF GrantChunk
    <2>2. PollTypes'
      BY SMT, <1>1, <1>2, <2>1 DEF PollTypes
    <2>3. Unborn'
      BY <1>3, <2>1 DEF Inv, Unborn
    <2> QED
      BY <1>1, <2>1, <2>2, <2>3, PoolTypesKept, ConnTypesKept, NetTypesKept, BufferTypesKept,
         FreeTypesKept, SlotsKept, ConnIndexedKept, ReceiveBufferStableKept, StartingKept,
         WaitsKept, StopsKept, MarksKept, GrantedIsAllocatedKept, ListedKept DEF Inv
  <1>6. CASE Grantable(pi)
    <2>1. /\ sess_chunk_map' = [sess_chunk_map EXCEPT ![pconn] = @ \cup {pi}]
          /\ conn_map' = [conn_map EXCEPT ![pi] = conn_index[pconn]]
          /\ rkey' = [rkey EXCEPT ![pconn] = @ \cup {pi}] /\ left' = left - 1
      BY <1>6 DEF GrantChunk
    <2>2. malloc_map[pi] = "MALLOCED" /\ conn_map[pi] = -1
      BY <1>6 DEF Grantable
    <2>3. PoolTypes' /\ ConnTypes'
      BY <1>1, <1>2, <2>1 DEF Inv, PoolTypes, ConnTypes
    <2>4. BufferTypes' /\ PollTypes'
      <3>1. left' \in Nat /\ pi' \in Nat
        BY <1>2, <2>1, Counter
      <3>2. BufferTypes'
        BY <1>1, <1>2, <2>1 DEF Inv, BufferTypes
      <3> QED
        BY <1>1, <1>2, <3>1, <3>2 DEF Inv, PollTypes
    <2>5. /\ \A d \in Conn \ {pconn} : sess_chunk_map'[d] = sess_chunk_map[d] /\ rkey'[d] = rkey[d]
          /\ sess_chunk_map'[pconn] = sess_chunk_map[pconn] \cup {pi} /\ rkey'[pconn] = rkey[pconn] \cup {pi}
          /\ \A i \in Chunk \ {pi} : conn_map'[i] = conn_map[i]
          /\ conn_map'[pi] = conn_index[pconn]
      BY <1>2, <2>1 DEF Inv, PoolTypes, ConnTypes, BufferTypes
    <2>6. Unborn'
      BY <1>3, <1>4, <2>5 DEF Inv, Unborn
    <2>7. Starting'
      BY <1>1, <1>2, <2>2 DEF Inv, Starting
    <2>8. ~wiped => \A d \in Conn : Live(d) => conn_index[d] # -1
      BY SMT, PoolAssumption DEF Inv, ConnIndexed, Slot
    <2>9. GrantedIsAllocated'
      <3> SUFFICES ASSUME ~wiped, NEW d \in Conn, Live(d), NEW i \in sess_chunk_map'[d]
                   PROVE  /\ malloc_map[i] = "MALLOCED" \/ i \in lost
                          /\ conn_map'[i] = conn_index[d]
                          /\ \A e \in Conn : Live(e) /\ i \in sess_chunk_map'[e] => d = e
        BY <1>1 DEF GrantedIsAllocated, Live
      <3>1. \A e \in Conn : Live(e) => pi \notin sess_chunk_map[e]
        BY <2>2, <2>8 DEF Inv, GrantedIsAllocated
      <3>2. CASE i = pi
        BY <2>2, <2>5, <3>1, <3>2
      <3>3. CASE i # pi
        <4>1. i \in sess_chunk_map[d] /\ i \in Chunk /\ conn_map'[i] = conn_map[i]
          BY <2>5, <3>3 DEF Inv, ConnTypes
        <4>2. \A e \in Conn : i \in sess_chunk_map'[e] => i \in sess_chunk_map[e]
          BY <2>5, <3>3
        <4> QED
          BY <4>1, <4>2 DEF Inv, GrantedIsAllocated
      <3> QED
        BY <3>2, <3>3
    <2>10. Marks'
      <3> SUFFICES ASSUME alive, ~wiped, NEW d \in Conn, Live(d)
                   PROVE  /\ fpc = "activity" /\ conn_index[d] \in send_list => Own(d, rkey[d])'
                          /\ fpc = "stop" /\ conn_index[d] \in todo => Own(d, rkey[d])'
                          /\ pconn = d => Own(d, rkey[d])'
                          /\ Asked(d, "STOP") => Own(d, notice[d].chunks)'
                          /\ Sent(d, "DONE") => Own(d, net[d].chunks)'
        BY <1>1, <1>2 DEF Marks, Live, Asked, Sent
      <3>1. \A T \in SUBSET Chunk : Own(d, T) => \A i \in T : conn_map'[i] = conn_index'[d]
        BY <1>1, <2>2, <2>5, <2>8 DEF Own
      <3>2. /\ rkey[d] \in SUBSET Chunk /\ (net[d] # NULL => net[d].chunks \in SUBSET Chunk)
            /\ (notice[d] # NULL => notice[d].chunks \in SUBSET Chunk)
        BY DEF Inv, BufferTypes, NetTypes, Message
      <3>3. /\ fpc = "activity" /\ conn_index[d] \in send_list => Own(d, rkey[d])
            /\ fpc = "stop" /\ conn_index[d] \in todo => Own(d, rkey[d])
            /\ pconn = d => Own(d, rkey[d])
            /\ Asked(d, "STOP") => notice[d] # NULL /\ Own(d, notice[d].chunks)
            /\ Sent(d, "DONE") => net[d] # NULL /\ Own(d, net[d].chunks)
        BY <1>2 DEF Inv, Marks, Asked, Sent
      <3>4. Own(d, rkey[d]) => Own(d, rkey[d])'
        BY SMT, <1>1, <2>5, <3>1, <3>2 DEF Own
      <3> QED
        BY <1>1, <3>1, <3>2, <3>3, <3>4 DEF Own
    <2>11. Listed'
      <3> SUFFICES ASSUME alive, ~wiped, Live(pconn)
                   PROVE  \/ Cardinality(rkey'[pconn]) >= want - left'
                          \/ fpc = "stuck"
                          \/ fpc = "activity" /\ conn_index[pconn] \in todo
        BY <1>1 DEF Listed, Live
      <3>1. pi \notin rkey[pconn] /\ rkey[pconn] \in SUBSET Chunk
        BY <1>2, <2>2, <2>8 DEF Inv, Marks, Own, BufferTypes
      <3>2. Cardinality(rkey'[pconn]) = Cardinality(rkey[pconn]) + 1 /\ Cardinality(rkey[pconn]) \in Nat
        BY <1>2, <2>5, <3>1, ChunksFinite
      <3> QED
        BY SMT, <1>2, <2>1, <3>2 DEF Inv, Listed
    <2> QED
      BY <1>1, <2>3, <2>4, <2>6, <2>7, <2>9, <2>10, <2>11, NetTypesKept, FreeTypesKept, SlotsKept,
         ConnIndexedKept, ReceiveBufferStableKept, WaitsKept, StopsKept DEF Inv
  <1> QED
    BY <1>5, <1>6

LEMMA GrantCountKeeps == ASSUME Inv, GrantCount PROVE Inv'
  <1>1. /\ ppc = "grant" /\ ppc' = "send" /\ mapped_size' = mapped_size + want
        /\ mapped_chunk_size' = [mapped_chunk_size EXCEPT ![pconn] = @ + want]
    BY DEF GrantCount
  <1>2. UNCHANGED <<malloc_map, conn_map, size_gb, slotVars, stage, conn_index, sess_chunk_map,
                    msgVars, pconn, want, left, pi, freeVars, flagVars>>
    BY DEF GrantCount
  <1>3. PoolTypes' /\ PollTypes' /\ ConnTypes'
    <2>1. PollTypes' /\ want \in Int /\ pconn \in Conn
      BY SMT, <1>1, <1>2 DEF Inv, PollTypes
    <2>2. PoolTypes'
      BY SMT, <1>1, <1>2, <2>1 DEF Inv, PoolTypes
    <2>3. ConnTypes'
      BY SMT, <1>1, <1>2, <2>1 DEF Inv, ConnTypes
    <2> QED
      BY <2>1, <2>2, <2>3
  <1>4. Unborn' /\ ReceiveBufferStable'
    BY <1>1, <1>2 DEF Inv, Unborn, ReceiveBufferStable, Live
  <1>5. Marks' /\ Listed'
    BY <1>1, <1>2 DEF Inv, Marks, Listed, Live, Asked, Sent, Own
  <1> QED
    BY <1>1, <1>2, <1>3, <1>4, <1>5, NetTypesKept, BufferTypesKept, FreeTypesKept, SlotsKept,
       ConnIndexedKept, StartingKept, WaitsKept, StopsKept, GrantedIsAllocatedKept DEF Inv

LEMMA GrantSendKeeps == ASSUME Inv, GrantSend PROVE Inv'
  <1>1. /\ alive /\ ppc = "send" /\ ppc' = "idle" /\ want' = 0 /\ left' = 0 /\ pi' = 0
        /\ conns_state' = [k \in Slot |-> IF k = conn_index[pconn] THEN "MAPPED" ELSE conns_state[k]]
        /\ recvs' = [recvs EXCEPT ![pconn] = @ + 1]
    BY DEF GrantSend
  <1>2. UNCHANGED <<sessVars, conns, conn_num, connVars, net, notice, recv_msg, rkey, semVars,
                    requests, freeVars, running, histVars>>
    BY DEF GrantSend
  <1>3. ConnTypes' /\ Slots'
    BY <1>1, <1>2 DEF Inv, ConnTypes, Slots
  <1>4. BufferTypes' /\ PollTypes' /\ pconn \in Conn
    BY SMT, <1>1, <1>2 DEF Inv, BufferTypes, PollTypes
  <1>5. (\A d \in Conn \ {pconn} : recvs'[d] = recvs[d]) /\ recvs'[pconn] = recvs[pconn] + 1
    BY <1>1, <1>4 DEF Inv, BufferTypes
  <1>6. Unborn'
    BY <1>1, <1>2, <1>4, <1>5 DEF Inv, Unborn
  <1>7. ReceiveBufferStable'
    <2>1. \A d \in Conn : evict_sem[d] \in Nat /\ recvs[d] \in Nat
      BY DEF Inv, BufferTypes
    <2> QED
      BY SMT, <1>1, <1>2, <1>4, <1>5, <2>1 DEF Inv, ReceiveBufferStable, Live
  <1>8. Waits' /\ Stops'
    BY <1>1, <1>2 DEF Inv, Waits, Stops, Live, Asked, Sent, Settled, Pending
  <1>9. Marks' /\ Listed'
    BY <1>1, <1>2 DEF Inv, Marks, Listed, Live, Asked, Sent, Own
  <1> QED
    BY <1>2, <1>3, <1>4, <1>6, <1>7, <1>8, <1>9, PoolTypesKept, NetTypesKept, FreeTypesKept,
       ConnIndexedKept, StartingKept, GrantedIsAllocatedKept DEF Inv

-----------------------------------------------------------------------------
(* free_mem: rdma_session_init, expansion, and eviction of unmapped chunks *)

\* A step of free_mem outside the exchange of messages with the clients.
LEMMA Quiet ==
  ASSUME Inv, fpc \notin {"activity", "stop", "stuck"}, fpc' \notin {"activity", "stop", "init_maps"},
         UNCHANGED <<conn_map, connVars, net, notice, rkey, semVars, pollVars, alive, wiped>>
  PROVE  Starting' /\ Waits' /\ Stops' /\ Marks' /\ Listed'
  <1>1. Starting' /\ Waits'
    BY DEF Starting, Waits
  <1>2. Stops'
    BY DEF Inv, Stops, Live, Asked, Sent, Settled
  <1>3. Marks'
    BY DEF Inv, Marks, Live, Asked, Sent, Own
  <1>4. Listed'
    BY DEF Inv, Listed, Live
  <1> QED
    BY <1>1, <1>2, <1>3, <1>4

\* The locals of a function that is left name no connection.
LEMMA LeaveUnborn ==
  ASSUME Inv, NEW to, Leave(to), UNCHANGED <<connVars, recvs, net, notice, rkey, semVars, pollVars>>
  PROVE  Unborn'
  BY NullConnAssumption DEF Inv, Unborn, Leave

LEMMA InitMapsKeeps == ASSUME Inv, NEW g \in Start, InitMaps(g) PROVE Inv'
  <1>1. /\ fpc = "init_maps" /\ fpc' = "init_chunks" /\ goal' = g /\ fi' = 0
        /\ conn_map' = [i \in Chunk |-> -1] /\ malloc_map' = [i \in Chunk |-> "EMPTY"]
    BY DEF InitMaps
  <1>2. UNCHANGED <<size_gb, mapped_size, slotVars, connVars, msgVars, pollVars, count, evVars, flagVars>>
    BY DEF InitMaps
  <1>3. PoolTypes'
    BY <1>1, <1>2 DEF Inv, PoolTypes
  <1>4. FreeTypes'
    BY SMT, <1>1, <1>2, SizeAssumption, PoolAssumption DEF Inv, FreeTypes
  <1>5. \A c \in Conn : sess_chunk_map[c] = {} /\ rkey[c] = {}
    BY <1>1 DEF Inv, Starting
  <1>6. GrantedIsAllocated'
    BY <1>2, <1>5 DEF GrantedIsAllocated
  <1>7. Starting' /\ Waits'
    BY <1>1 DEF Starting, Waits
  <1>8. Stops'
    BY <1>1, <1>2 DEF Inv, Stops, Live, Asked, Sent, Settled
  <1>9. Marks'
    <2>1. alive' => \A c \in Conn : Live(c)' => ~Asked(c, "STOP")' /\ ~Sent(c, "DONE")'
      BY <1>1, <1>8 DEF Stops, Settled
    <2>2. \A c \in Conn : Own(c, rkey[c])'
      BY <1>2, <1>5 DEF Own
    <2> QED
      BY <2>1, <2>2 DEF Marks
  <1>10. Listed'
    BY <1>1, <1>2 DEF Inv, Listed, Live
  <1> QED
    BY <1>2, <1>3, <1>4, <1>6, <1>7, <1>8, <1>9, <1>10, ConnTypesKept, NetTypesKept,
       BufferTypesKept, PollTypesKept, UnbornKept, SlotsKept, ConnIndexedKept,
       ReceiveBufferStableKept DEF Inv

LEMMA InitChunkKeeps == ASSUME Inv, InitChunk PROVE Inv'
  <1>1. fpc = "init_chunks" /\ fi' = fi + 1 /\ malloc_map' = [malloc_map EXCEPT ![fi] = "MALLOCED"]
    BY DEF InitChunk
  <1>2. UNCHANGED <<conn_map, size_gb, mapped_size, slotVars, connVars, msgVars, pollVars, fpc, goal,
                    count, evVars, flagVars>>
    BY DEF InitChunk
  <1>3. PoolTypes'
    BY <1>1, <1>2 DEF Inv, PoolTypes
  <1>4. \A i \in Chunk : malloc_map[i] = "MALLOCED" => malloc_map'[i] = "MALLOCED"
    BY <1>1 DEF Inv, PoolTypes
  <1>5. GrantedIsAllocated'
    BY <1>2, <1>4 DEF Inv, GrantedIsAllocated, Live, ConnTypes
  <1>6. FreeTypes' /\ Starting'
    <2>1. fi' \in Nat
      BY SMT, <1>1 DEF Inv, FreeTypes
    <2> QED
      BY <1>1, <1>2, <2>1 DEF Inv, FreeTypes, Starting
  <1> QED
    BY <1>2, <1>3, <1>5, <1>6, ConnTypesKept, NetTypesKept, BufferTypesKept, PollTypesKept,
       UnbornKept, SlotsKept, ConnIndexedKept, ReceiveBufferStableKept, WaitsKept, StopsKept,
       MarksKept, ListedKept DEF Inv

\* The slots are reset: if a connection exists, wiped excepts all that follows.
LEMMA InitConnsKeeps == ASSUME Inv, InitConns PROVE Inv'
  <1>1. /\ fpc = "init_chunks" /\ fi = goal /\ size_gb' = goal /\ mapped_size' = 0 /\ Leave("idle")
        /\ conns' = [k \in Slot |-> NULL] /\ conns_state' = [k \in Slot |-> "IDLE"]
    BY DEF InitConns
  <1>2. UNCHANGED <<malloc_map, conn_map, connVars, msgVars, pollVars, running, alive, lost, mismatch>>
    BY DEF InitConns
  <1>3. ~wiped' => \A c \in Conn : ~Live(c)'
    <2>1. wiped' <=> \E c \in Conn : Live(c)
      BY DEF InitConns
    <2>2. \A c \in Conn : Live(c)' <=> Live(c)
      BY <1>2 DEF Live
    <2> QED
      BY <2>1, <2>2
  <1>4. PoolTypes' /\ FreeTypes' /\ Starting' /\ Waits'
    BY Zero, <1>1, <1>2 DEF Inv, PoolTypes, FreeTypes, Leave, Starting, Waits
  <1>5. ConnTypes' /\ Slots'
    BY <1>1, <1>2, NullConnAssumption DEF Inv, ConnTypes, Slots
  <1>6. ConnIndexed' /\ Marks' /\ GrantedIsAllocated'
    BY <1>3 DEF ConnIndexed, Marks, GrantedIsAllocated
  <1>7. Stops'
    BY <1>1, <1>2 DEF Inv, Stops, Live, Asked, Sent, Settled, Leave
  <1>8. Unborn'
    BY <1>1, <1>2, LeaveUnborn
  <1>9. Listed'
    <2>1. ppc' # "idle" => pconn' \in Conn
      BY <1>2 DEF Inv, PollTypes
    <2> QED
      BY <1>3, <2>1 DEF Listed
  <1> QED
    BY <1>2, <1>4, <1>5, <1>6, <1>7, <1>8, <1>9, NetTypesKept, BufferTypesKept, PollTypesKept,
       ReceiveBufferStableKept DEF Inv

\* The steps that only move free_mem.
LEMMA FreeMemMovesKeep ==
  ASSUME Inv, fpc \notin {"activity", "stop", "stuck"}, fpc' \notin {"activity", "stop", "init_maps"},
         FreeTypes', Unborn',
         UNCHANGED <<malloc_map, conn_map, mapped_size, slotVars, connVars, msgVars, pollVars, flagVars>>,
         size_gb' \in Int
  PROVE  Inv'
  <1>1. PoolTypes'
    BY DEF Inv, PoolTypes
  <1>2. Starting' /\ Waits' /\ Stops' /\ Marks' /\ Listed'
    BY Quiet
  <1> QED
    BY <1>1, <1>2, ConnTypesKept, NetTypesKept, BufferTypesKept, PollTypesKept, SlotsKept,
       ConnIndexedKept, ReceiveBufferStableKept, GrantedIsAllocatedKept DEF Inv

LEMMA FreeMemStopsKeeps == ASSUME Inv, FreeMemStops PROVE Inv'
  <1>1. FreeTypes' /\ Unborn' /\ size_gb' \in Int
    BY UnbornKept DEF Inv, FreeMemStops, FreeTypes, PoolTypes
  <1> QED
    BY <1>1, FreeMemMovesKeep DEF FreeMemStops

LEMMA ExpandBeginKeeps == ASSUME Inv, NEW g \in Grow, ExpandBegin(g) PROVE Inv'
  <1>1. FreeTypes' /\ Unborn' /\ size_gb' \in Int
    BY SMT, UnbornKept, SizeAssumption, PoolAssumption DEF Inv, ExpandBegin, FreeTypes, PoolTypes
  <1> QED
    BY <1>1, FreeMemMovesKeep DEF ExpandBegin

LEMMA EvictBeginKeeps == ASSUME Inv, NEW g \in Shrink, EvictBegin(g) PROVE Inv'
  <1>1. FreeTypes' /\ Unborn' /\ size_gb' \in Int
    BY SMT, UnbornKept, SizeAssumption, PoolAssumption DEF Inv, EvictBegin, FreeTypes, PoolTypes
  <1> QED
    BY <1>1, FreeMemMovesKeep DEF EvictBegin

LEMMA ExpandEndKeeps == ASSUME Inv, ExpandEnd PROVE Inv'
  <1>1. FreeTypes' /\ size_gb' \in Int
    BY SMT DEF Inv, ExpandEnd, Leave, FreeTypes, PoolTypes
  <1>2. Unborn'
    BY LeaveUnborn DEF ExpandEnd
  <1> QED
    BY <1>1, <1>2, FreeMemMovesKeep DEF ExpandEnd, Leave

LEMMA EvictChunkKeeps == ASSUME Inv, EvictChunk PROVE Inv'
  <1>1. FreeTypes' /\ Unborn' /\ size_gb' \in Int
    BY SMT, UnbornKept DEF Inv, EvictChunk, FreeTypes, PoolTypes
  <1> QED
    BY <1>1, FreeMemMovesKeep DEF EvictChunk

LEMMA ExpandChunkKeeps == ASSUME Inv, ExpandChunk PROVE Inv'
  <1>1. /\ fpc = "expand" /\ fi' = fi + 1
        /\ \/ malloc_map' = [malloc_map EXCEPT ![fi] = "MALLOCED"] /\ count' = count + 1
           \/ UNCHANGED <<malloc_map, count>>
    BY DEF ExpandChunk
  <1>2. UNCHANGED <<conn_map, size_gb, mapped_size, slotVars, connVars, msgVars, pollVars, fpc, goal,
                    evVars, flagVars>>
    BY DEF ExpandChunk
  <1>3. PoolTypes'
    BY <1>1, <1>2 DEF Inv, PoolTypes
  <1>4. \A i \in Chunk : malloc_map[i] = "MALLOCED" => malloc_map'[i] = "MALLOCED"
    BY <1>1 DEF Inv, PoolTypes
  <1>5. GrantedIsAllocated'
    BY <1>2, <1>4 DEF Inv, GrantedIsAllocated, Live, ConnTypes
  <1>6. FreeTypes' /\ Starting'
    <2>1. fi' \in Nat /\ count' \in Int
      BY SMT, <1>1 DEF Inv, FreeTypes
    <2> QED
      BY <1>1, <1>2, <2>1 DEF Inv, FreeTypes, Starting
  <1> QED
    BY <1>2, <1>3, <1>5, <1>6, ConnTypesKept, NetTypesKept, BufferTypesKept, PollTypesKept,
       UnbornKept, SlotsKept, ConnIndexedKept, ReceiveBufferStableKept, WaitsKept, StopsKept,
       MarksKept, ListedKept DEF Inv

\* A chunk that is freed is unmapped, or was granted since the test and is now in lost.
LEMMA EvictFreeKeeps == ASSUME Inv, EvictFree PROVE Inv'
  <1>1. /\ fpc = "free" /\ malloc_map' = [malloc_map EXCEPT ![fi] = "EMPTY"]
        /\ lost' = IF conn_map[fi] = -1 THEN lost ELSE lost \cup {fi}
        /\ \/ size_gb' = size_gb - goal /\ Leave("idle")
           \/ /\ fpc' = "evict" /\ fi' = fi + 1 /\ count' = count + 1
              /\ UNCHANGED <<size_gb, goal, evVars>>
    BY DEF EvictFree
  <1>2. UNCHANGED <<conn_map, mapped_size, slotVars, connVars, msgVars, pollVars, running, alive, wiped, mismatch>>
    BY DEF EvictFree
  <1>3. PoolTypes' /\ FreeTypes' /\ fpc' \in {"idle", "evict"}
    <2>1. goal \in Int /\ count \in Int /\ size_gb \in Int
      BY <1>1 DEF Inv, FreeTypes, PoolTypes
    <2>2. PoolTypes'
      <3>1. size_gb' \in Int
        BY SMT, <1>1, <2>1
      <3>2. malloc_map' \in [Chunk -> {"EMPTY", "MALLOCED"}]
        BY <1>1 DEF Inv, PoolTypes
      <3> QED
        BY <1>2, <3>1, <3>2 DEF Inv, PoolTypes
    <2>3. FreeTypes' /\ fpc' \in {"idle", "evict"}
      BY SMT, <1>1, <2>1 DEF Inv, FreeTypes, Leave
    <2> QED
      BY <2>2, <2>3
  <1>4. Unborn'
    <2>1. CASE Leave("idle")
      BY <1>2, <2>1, LeaveUnborn
    <2>2. CASE UNCHANGED evVars
      BY <1>2, <2>2, UnbornKept DEF Inv
    <2> QED
      BY <1>1, <2>1, <2>2
  <1>5. GrantedIsAllocated'
    <2>1. \A i \in Chunk : malloc_map[i] = "MALLOCED" /\ conn_map[i] # -1 => malloc_map'[i] = "MALLOCED" \/ i \in lost'
      BY <1>1 DEF Inv, PoolTypes
    <2>2. lost \subseteq lost'
      BY <1>1
    <2>3. ~wiped => \A c \in Conn : Live(c) => conn_index[c] # -1
      BY SMT, PoolAssumption DEF Inv, ConnIndexed, Slot
    <2> QED
      BY SMT, <1>2, <2>1, <2>2, <2>3 DEF Inv, GrantedIsAllocated, Live, ConnTypes
  <1>6. Starting' /\ Waits' /\ Stops' /\ Marks' /\ Listed'
    BY <1>1, <1>2, <1>3, Quiet
  <1> QED
    BY <1>2, <1>3, <1>4, <1>5, <1>6, ConnTypesKept, NetTypesKept, BufferTypesKept, PollTypesKept,
       SlotsKept, ConnIndexedKept, ReceiveBufferStableKept DEF Inv

-----------------------------------------------------------------------------
(* free_mem: the exchange of messages with the clients                     *)

\* Every client that is told is in a slot, and loses the rkeys of a grant under way; it
\* then has a message to answer.
LEMMA InformKeeps ==
  ASSUME Inv, NEW slots, NEW n \in Int, Inform(slots, n), fpc = "evict", alive, size_gb' \in Int,
         UNCHANGED <<malloc_map, conn_map, mapped_size, slotVars, connVars, recvs, net, recv_msg,
                     semVars, pollVars, histVars>>
  PROVE  Inv'
  <1>1. goal' = n /\ send_list' = slots /\ todo' = slots /\ evict_list' = {} /\ fpc' = "activity" /\ fi' = 0
    BY DEF Inform
  <1>2. PoolTypes' /\ FreeTypes' /\ Starting'
    BY <1>1 DEF Inv, PoolTypes, FreeTypes, Starting
  <1>3. ConnTypes' /\ PollTypes' /\ Slots' /\ ConnIndexed' /\ ReceiveBufferStable' /\ GrantedIsAllocated'
    BY ConnTypesKept, PollTypesKept, SlotsKept, ConnIndexedKept, ReceiveBufferStableKept,
       GrantedIsAllocatedKept DEF Inv
  <1>4. CASE ~alive'
    <2>1. UNCHANGED <<count, rkey, notice, fconn, told>>
      BY <1>4 DEF Inform
    <2>2. Waits' /\ Stops' /\ Marks' /\ Listed'
      BY <1>4 DEF Waits, Stops, Marks, Listed
    <2> QED
      BY <1>2, <1>3, <2>1, <2>2, NetTypesKept, BufferTypesKept, UnbornKept DEF Inv
  <1>5. CASE alive'
    <2> DEFINE to == {conns[k] : k \in slots}
               m == [type |-> "EVICT", size |-> n, chunks |-> {}]
    <2>1. /\ rkey' = [c \in Conn |-> IF c \in to THEN {} ELSE rkey[c]]
          /\ notice' = [c \in Conn |-> IF c \in to THEN m ELSE notice[c]]
          /\ fconn' = (IF slots = {} THEN NULL ELSE conns[Min(slots)]) /\ told' = to
      BY <1>5 DEF Inform
    <2>2. \A k \in slots : k \in Slot /\ conns[k] # NULL
      <3>1. alive' <=> \A k \in slots : k \in Slot /\ conns[k] # NULL
        BY DEF Inform
      <3> QED
        BY <1>5, <3>1
    <2>3. /\ slots \in SUBSET Slot
          /\ \A k \in slots : conns[k] \in Conn /\ conn_index[conns[k]] = k /\ stage[conns[k]] # "none"
      BY <2>2 DEF Inv, ConnTypes, Slots
    <2>4. \A c \in Conn : c \in to => conn_index[c] \in slots /\ stage[c] # "none"
      BY <2>3
    <2>5. slots # {} => fconn' \in Conn /\ conn_index[fconn'] = Min(slots) /\ stage[fconn'] # "none"
      BY <2>1, <2>3, MinIn
    <2>6. m \in Message /\ m # NULL /\ m.type = "EVICT"
      BY SMT, NullMsgAssumption DEF Message
    <2>7. to \subseteq Conn
      BY <2>3
    <2>8. ~wiped => \A c \in Conn : Live(c) /\ conn_index[c] \in slots => c \in to
      BY DEF Inv, ConnIndexed
    <2> HIDE DEF to, m
    <2>9. NetTypes' /\ BufferTypes'
      <3>1. NetTypes'
        BY <2>1, <2>6 DEF Inv, NetTypes
      <3>2. BufferTypes'
        BY <2>1 DEF Inv, BufferTypes
      <3> QED
        BY <3>1, <3>2
    <2>10. \A c \in Conn : /\ c \in to => rkey'[c] = {} /\ notice'[c] = m
                           /\ c \notin to => rkey'[c] = rkey[c] /\ notice'[c] = notice[c]
      BY <2>1
    <2>11. Unborn'
      BY <2>1, <2>4, <2>5, <2>10, NullConnAssumption DEF Inv, Unborn
    <2>12. Waits'
      BY <1>1, <2>1, <2>3, <2>5, <2>6, <2>7, <2>10 DEF Waits, Asked
    <2>13. Stops'
      BY <1>1, <2>6, <2>10 DEF Inv, Stops, Settled, Live, Asked, Sent
    <2>14. Marks'
      <3>1. \A c \in Conn : Live(c)' => ~Asked(c, "STOP")' /\ ~Sent(c, "DONE")'
        BY <1>1, <1>5, <2>13 DEF Stops, Settled
      <3>2. ~wiped => \A c \in Conn : Live(c) /\ (conn_index[c] \in slots \/ (ppc # "idle" /\ pconn = c)) =>
                        Own(c, rkey[c])'
        BY <2>8, <2>10 DEF Inv, Marks, Own
      <3> QED
        BY <1>1, <3>1, <3>2 DEF Marks, Live
    <2>15. Listed'
      BY <1>1, <2>4, <2>10 DEF Inv, Listed, Live, PollTypes
    <2> QED
      BY <1>2, <1>3, <2>9, <2>11, <2>12, <2>13, <2>14, <2>15 DEF Inv
  <1> QED
    BY <1>4, <1>5

LEMMA EvictPickKeeps == ASSUME Inv, EvictPick PROVE Inv'
  <1>1. /\ alive /\ fpc = "evict" /\ size_gb' = size_gb - count
        /\ UNCHANGED <<malloc_map, conn_map, mapped_size, slotVars, connVars, recvs, net, recv_msg,
                       semVars, requests, pollVars, running, histVars>>
    BY DEF EvictPick
  <1>2. count \in Int /\ goal \in Int /\ mapped_size \in Int /\ size_gb' \in Int
    BY SMT, <1>1 DEF Inv, FreeTypes, PoolTypes
  <1>3. ASSUME NEW slots, NEW n \in Int, Inform(slots, n) PROVE Inv'
    BY <1>1, <1>2, <1>3, InformKeeps
  <1>4. CASE Leave("stuck") /\ UNCHANGED <<rkey, notice, alive>>
    <2>1. FreeTypes'
      BY SMT, <1>4 DEF Inv, FreeTypes, Leave
    <2>2. Unborn'
      BY <1>1, <1>4, LeaveUnborn
    <2> QED
      BY <1>1, <1>2, <1>4, <2>1, <2>2, FreeMemMovesKeep DEF Leave
  <1>5. CASE Inform({k \in Slot : conns_state[k] = "MAPPED"},
                    IF mapped_size < goal - count THEN mapped_size ELSE goal - count)
    <2>1. (IF mapped_size < goal - count THEN mapped_size ELSE goal - count) \in Int
      BY SMT, <1>2
    <2> QED
      BY <1>3, <1>5, <2>1
  <1>6. ASSUME NEW chosen, Inform({conn_map[i] : i \in chosen}, goal - count) PROVE Inv'
    <2>1. goal - count \in Int
      BY SMT, <1>2
    <2> QED
      BY <1>3, <1>6, <2>1
  <1> QED
    BY <1>4, <1>5, <1>6 DEF EvictPick

\* The connection waited for has answered; the others that were told are still to.
LEMMA WaitActivityKeeps == ASSUME Inv, WaitActivity PROVE Inv'
  <1>1. /\ alive /\ fpc = "activity" /\ todo # {} /\ Live(fconn) /\ evict_sem[fconn] > 0
        /\ evict_sem' = [evict_sem EXCEPT ![fconn] = @ - 1] /\ recvs' = [recvs EXCEPT ![fconn] = @ + 1]
        /\ rkey' = [rkey EXCEPT ![fconn] = {}] /\ evict_list' = evict_list \cup recv_msg[fconn]
        /\ todo' = todo \ {Min(todo)} /\ fconn' = (IF todo' = {} THEN fconn ELSE conns[Min(todo')])
    BY DEF WaitActivity
  <1>2. UNCHANGED <<sessVars, slotVars, connVars, net, notice, recv_msg, stop_sem, requests, pollVars,
                    fpc, fi, goal, count, send_list, told, running, histVars>>
    BY DEF WaitActivity
  <1>3. alive' <=> fconn' # NULL
    BY DEF WaitActivity
  <1>4. /\ send_list \subseteq Slot /\ todo \subseteq send_list /\ told \subseteq Conn
        /\ fconn \in Conn /\ conn_index[fconn] = Min(todo)
    BY <1>1 DEF Inv, Waits
  <1>5. todo' \in SUBSET Slot /\ todo' \subseteq send_list /\ conn_index[fconn] \notin todo'
    BY <1>1, <1>4
  <1>6. BufferTypes' /\ FreeTypes' /\ Starting'
    <2>1. BufferTypes'
      <3>1. evict_sem[fconn] - 1 \in Nat /\ recvs[fconn] + 1 \in Nat
        BY <1>1, <1>4, Counter DEF Inv, BufferTypes
      <3> QED
        BY <1>1, <1>2, <1>4, <3>1 DEF Inv, BufferTypes
    <2>2. FreeTypes' /\ Starting'
      BY <1>1, <1>2, <1>4 DEF Inv, BufferTypes, FreeTypes, Starting
    <2> QED
      BY <2>1, <2>2
  <1>7. /\ \A d \in Conn \ {fconn} : evict_sem'[d] = evict_sem[d] /\ recvs'[d] = recvs[d] /\ rkey'[d] = rkey[d]
        /\ evict_sem'[fconn] = evict_sem[fconn] - 1 /\ recvs'[fconn] = recvs[fconn] + 1 /\ rkey'[fconn] = {}
        /\ evict_sem[fconn] \in Nat /\ recvs[fconn] \in Nat
    BY <1>1, <1>4 DEF Inv, BufferTypes
  <1>8. todo' # {} /\ alive' => /\ fconn' \in Conn /\ conn_index[fconn'] = Min(todo')
                                /\ stage[fconn'] # "none"
    <2>1. todo' # {} => Min(todo') \in Slot /\ fconn' = conns[Min(todo')]
      BY <1>1, <1>5, MinIn
    <2> QED
      BY SMT, <1>3, <2>1 DEF Inv, ConnTypes, Slots
  <1>9. Unborn'
    <2>1. \A c \in Conn : stage[c] = "none" => fconn' # c
      <3>1. CASE todo' = {}
        BY <1>1, <3>1 DEF Inv, Unborn
      <3>2. CASE todo' # {}
        BY <1>3, <1>8, <3>2, NullConnAssumption
      <3> QED
        BY <3>1, <3>2
    <2>2. stage[fconn] # "none"
      BY <1>1, <1>4 DEF Live
    <2> QED
      BY <1>2, <1>4, <1>7, <2>1, <2>2 DEF Inv, Unborn
  <1>10. ReceiveBufferStable'
    <2>1. \A d \in Conn : evict_sem[d] \in Nat /\ recvs[d] \in Nat
      BY DEF Inv, BufferTypes
    <2>2. \A d \in Conn : recvs'[d] + evict_sem'[d] = recvs[d] + evict_sem[d]
      <3>1. (recvs[fconn] + 1) + (evict_sem[fconn] - 1) = recvs[fconn] + evict_sem[fconn]
        BY <1>7, Counter
      <3> QED
        BY <1>4, <1>7, <3>1
    <2>3. \A d \in Conn : Live(d)' <=> Live(d)
      BY <1>2 DEF Live
    <2>4. BufferTypes'
      BY <1>6
    <2> QED
      BY <1>2, <2>1, <2>2, <2>3, <2>4 DEF Inv, ReceiveBufferStable, BufferTypes
  <1>11. Waits'
    BY <1>1, <1>2, <1>4, <1>5, <1>7, <1>8 DEF Inv, Waits, Live, Asked, Sent
  <1>12. Stops'
    BY <1>1, <1>2 DEF Inv, Stops, Settled, Live, Asked, Sent
  <1>13. Marks'
    <2>1. \A c \in Conn : Own(c, rkey[c]) => Own(c, rkey[c])'
      BY <1>2, <1>7 DEF Own
    <2> QED
      BY <1>1, <1>2, <2>1 DEF Inv, Marks, Live, Asked, Sent, Own
  <1>14. Listed'
    <2> SUFFICES ASSUME ~wiped, ppc # "idle", Live(pconn)
                 PROVE  Cardinality(rkey'[pconn]) >= want - left \/ conn_index[pconn] \in todo'
      BY <1>1, <1>2 DEF Listed, Live
    <2>1. pconn \in Conn
      BY DEF Inv, PollTypes
    <2>2. pconn # fconn
      BY <1>1, <1>4, <1>7, Counter DEF Inv, ReceiveBufferStable
    <2>3. conn_index[pconn] # conn_index[fconn]
      BY <1>1, <1>4, <2>1, <2>2 DEF Inv, ConnIndexed
    <2>4. Cardinality(rkey[pconn]) >= want - left \/ conn_index[pconn] \in todo
      BY <1>1 DEF Inv, Listed
    <2> QED
      BY <1>1, <1>4, <1>7, <2>1, <2>2, <2>3, <2>4
  <1> QED
    BY <1>2, <1>6, <1>9, <1>10, <1>11, <1>12, <1>13, <1>14, PoolTypesKept, ConnTypesKept,
       NetTypesKept, PollTypesKept, SlotsKept, ConnIndexedKept, GrantedIsAllocatedKept DEF Inv

\* send_stop: all STOPs sent before are answered, and the rkeys of the next connection name
\* chunks of this connection.
LEMMA StopKeeps ==
  ASSUME Inv, alive, fpc \in {"activity", "stop"}, NEW slots \in SUBSET Slot, NEW n \in Int, Stop(slots, n, rkey'),
         UNCHANGED <<sessVars, slotVars, connVars, recvs, net, recv_msg, evict_sem, pollVars, histVars>>,
         rkey' \in [Conn -> SUBSET Chunk], stop_sem' \in [Conn -> Nat],
         \A c \in Conn : stage[c] = "none" => rkey'[c] = {} /\ stop_sem'[c] = 0,
         \A c \in Conn : Live(c) => ~Asked(c, "STOP") /\ ~Sent(c, "DONE") /\ stop_sem'[c] = 0,
         ~wiped => \A c \in Conn : Live(c) /\ (conn_index[c] \in slots \/ (ppc # "idle" /\ pconn = c)) =>
                     \A i \in rkey'[c] : conn_map[i] = conn_index[c],
         ~wiped /\ ppc # "idle" /\ Live(pconn) => Cardinality(rkey'[pconn]) >= want - left
  PROVE  Inv'
  <1>1. PoolTypes' /\ ConnTypes' /\ PollTypes' /\ Slots' /\ ConnIndexed' /\ ReceiveBufferStable' /\ GrantedIsAllocated'
    BY PoolTypesKept, ConnTypesKept, PollTypesKept, SlotsKept, ConnIndexedKept,
       ReceiveBufferStableKept, GrantedIsAllocatedKept DEF Inv
  <1>2. BufferTypes'
    BY DEF Inv, BufferTypes
  <1>3. Listed'
    BY DEF Listed, Live
  <1>4. CASE slots = {}
    <2>1. Leave("idle") /\ UNCHANGED <<notice, alive>>
      BY <1>4 DEF Stop
    <2>2. FreeTypes' /\ NetTypes' /\ Starting' /\ Waits'
      <3>1. FreeTypes'
        BY Zero, <2>1 DEF FreeTypes, Leave
      <3>2. NetTypes'
        BY <2>1, NetTypesKept DEF Inv
      <3>3. Starting' /\ Waits'
        BY <2>1 DEF Leave, Starting, Waits
      <3> QED
        BY <3>1, <3>2, <3>3
    <2>3. Unborn'
      BY <2>1, NullConnAssumption DEF Inv, Unborn, Leave
    <2>4. Stops'
      BY <2>1 DEF Stops, Settled, Live, Asked, Sent, Leave
    <2>5. Marks'
      BY <2>1 DEF Marks, Live, Asked, Sent, Own, Leave
    <2> QED
      BY <1>1, <1>2, <1>3, <2>2, <2>3, <2>4, <2>5 DEF Inv
  <1>5. CASE slots # {}
    <2> DEFINE k == Min(slots)
    <2>1. k \in slots /\ k \in Slot
      BY <1>5, MinIn
    <2>2. /\ fpc' = "stop" /\ count' = n /\ goal' = 0 /\ evict_list' = {} /\ fi' = fi /\ told' = told
          /\ todo' = slots \ {k} /\ fconn' = conns[k]
          /\ notice' = [c \in Conn |-> IF c = conns[k] THEN [type |-> "STOP", size |-> n, chunks |-> rkey'[c]]
                                       ELSE notice[c]]
      BY <1>5 DEF Stop
    <2>3. alive' <=> conns[k] # NULL
      BY <1>5 DEF Stop
    <2> HIDE DEF k
    <2>4. FreeTypes' /\ Starting' /\ Waits'
      <3>1. fi \in Nat
        BY DEF Inv, FreeTypes
      <3>2. FreeTypes'
        BY Zero, <2>2, <3>1 DEF FreeTypes
      <3>3. Starting' /\ Waits'
        BY <2>2 DEF Starting, Waits
      <3> QED
        BY <3>2, <3>3
    <2>5. \A c \in Conn : /\ [type |-> "STOP", size |-> n, chunks |-> rkey'[c]] \in Message
                          /\ [type |-> "STOP", size |-> n, chunks |-> rkey'[c]] # NULL
      BY StopMessage
    <2>6. NetTypes'
      BY <2>2, <2>5 DEF Inv, NetTypes
    <2>7. \A c \in Conn : /\ c = conns[k] => /\ conn_index[c] = k /\ stage[c] # "none"
                                             /\ notice'[c] # NULL /\ notice'[c].type = "STOP" /\ notice'[c].chunks = rkey'[c]
                          /\ c # conns[k] => notice'[c] = notice[c]
      BY <2>1, <2>2, <2>5 DEF Inv, Slots
    <2>8. Unborn'
      BY <2>2, <2>7 DEF Inv, Unborn
    <2>9. Stops'
      <3> SUFFICES ASSUME conns[k] # NULL
                   PROVE  Stops'
        BY <2>3 DEF Stops
      <3>1. conns[k] \in Conn
        BY <2>1 DEF Inv, ConnTypes
      <3>2. Live(conns[k])' => Pending(conns[k])'
        BY <2>7, <3>1 DEF Pending, Live, Asked, Sent
      <3>3. \A c \in Conn : Live(c)' /\ c # conns[k] => Settled(c)'
        BY <2>7 DEF Settled, Live, Asked, Sent
      <3>4. UNCHANGED conns
        OBVIOUS
      <3> QED
        BY <2>1, <2>2, <2>7, <3>1, <3>2, <3>3, <3>4 DEF Stops
    <2>10. Marks'
      <3> SUFFICES ASSUME ~wiped, NEW c \in Conn, Live(c)
                   PROVE  /\ conn_index[c] \in slots => Own(c, rkey[c])'
                          /\ ppc # "idle" /\ pconn = c => Own(c, rkey[c])'
                          /\ Asked(c, "STOP")' => Own(c, notice[c].chunks)'
                          /\ ~Sent(c, "DONE")'
        BY <2>2 DEF Marks, Live
      <3>1. conn_index[c] \in slots \/ (ppc # "idle" /\ pconn = c) => Own(c, rkey[c])'
        BY DEF Own
      <3>2. ~Sent(c, "DONE")'
        BY DEF Sent
      <3>3. Asked(c, "STOP")' => c = conns[k]
        BY <2>7 DEF Asked
      <3> QED
        BY <2>1, <2>7, <3>1, <3>2, <3>3
    <2> QED
      BY <1>1, <1>2, <1>3, <2>4, <2>6, <2>8, <2>9, <2>10 DEF Inv
  <1> QED
    BY <1>4, <1>5

\* A chunk is marked for the connection in the slot that conn_map names.
LEMMA EvictSelectKeeps == ASSUME Inv, EvictSelect PROVE Inv'
  <1>1. /\ alive /\ fpc = "activity" /\ todo = {}
        /\ UNCHANGED <<sessVars, slotVars, connVars, recvs, net, recv_msg, semVars, requests, pollVars,
                       running, histVars>>
    BY DEF EvictSelect
  <1>2. CASE alive' = FALSE /\ UNCHANGED <<fpc, goal, count, fi, evVars, rkey, notice>>
    <2>1. Waits' /\ Stops' /\ Marks' /\ Listed'
      BY <1>2 DEF Waits, Stops, Marks, Listed
    <2> QED
      BY <1>1, <1>2, <2>1, PoolTypesKept, ConnTypesKept, NetTypesKept, BufferTypesKept,
         PollTypesKept, FreeTypesKept, UnbornKept, SlotsKept, ConnIndexedKept,
         ReceiveBufferStableKept, StartingKept, GrantedIsAllocatedKept DEF Inv
  <1> DEFINE owner(i) == IF conn_map[i] = -1 THEN NULL ELSE conns[conn_map[i]]
  <1>3. ASSUME NEW v \in SUBSET evict_list, NEW n,
               n \in (IF v = {} THEN {0} ELSE {Cardinality({j \in v : conn_map[j] = conn_map[i]}) : i \in v}),
               rkey' = [c \in Conn |-> rkey[c] \cup {i \in v : owner(i) = c}],
               Stop({k \in send_list : {i \in v : conn_map[i] = k} # {}}, n, rkey')
        PROVE  Inv'
    <2> DEFINE slots == {k \in send_list : {i \in v : conn_map[i] = k} # {}}
    <2>1. v \in SUBSET Chunk
      BY <1>3 DEF Inv, FreeTypes
    <2>2. slots \in SUBSET Slot /\ slots \subseteq send_list
      BY <1>1 DEF Inv, Waits
    <2>3. n \in Int
      <3>1. \A i \in v : Cardinality({j \in v : conn_map[j] = conn_map[i]}) \in Nat
        BY <2>1, ChunksFinite
      <3>2. CASE v = {}
        <4>1. n = 0
          BY <1>3, <3>2
        <4> QED
          BY SMT, <4>1
      <3>3. CASE v # {}
        <4>1. PICK i \in v : n = Cardinality({j \in v : conn_map[j] = conn_map[i]})
          BY <1>3, <3>3
        <4> QED
          BY SMT, <3>1, <4>1
      <3> QED
        BY <3>2, <3>3
    <2>4. \A c \in Conn : \A i \in v : owner(i) = c => conn_map[i] = conn_index[c] /\ stage[c] # "none"
      <3> SUFFICES ASSUME NEW c \in Conn, NEW i \in v, owner(i) = c
                   PROVE  conn_map[i] = conn_index[c] /\ stage[c] # "none"
        OBVIOUS
      <3>1. conn_map[i] # -1 /\ conns[conn_map[i]] = c
        BY NullConnAssumption
      <3>2. conn_map[i] \in Slot
        BY <2>1, <3>1 DEF Inv, PoolTypes
      <3> QED
        BY <3>1, <3>2 DEF Inv, Slots
    <2> HIDE DEF owner
    <2>5. \A c \in Conn : rkey'[c] = rkey[c] \cup {i \in v : owner(i) = c} /\ rkey[c] \in SUBSET Chunk
      BY <1>3 DEF Inv, BufferTypes
    <2>6. rkey' \in [Conn -> SUBSET Chunk] /\ stop_sem' \in [Conn -> Nat]
      BY <1>1, <1>3, <2>1, <2>5 DEF Inv, BufferTypes
    <2>7. \A c \in Conn : stage[c] = "none" => rkey'[c] = {} /\ stop_sem'[c] = 0
      BY <1>1, <2>4, <2>5 DEF Inv, Unborn
    <2>8. \A c \in Conn : Live(c) => ~Asked(c, "STOP") /\ ~Sent(c, "DONE") /\ stop_sem'[c] = 0
      BY <1>1 DEF Inv, Stops, Settled
    <2>9. ~wiped => \A c \in Conn : Live(c) /\ (conn_index[c] \in slots \/ (ppc # "idle" /\ pconn = c)) =>
                      \A i \in rkey'[c] : conn_map[i] = conn_index[c]
      <3>1. ~wiped => \A c \in Conn : Live(c) /\ (conn_index[c] \in slots \/ (ppc # "idle" /\ pconn = c)) =>
                        \A i \in rkey[c] : conn_map[i] = conn_index[c]
        BY <1>1, <2>2 DEF Inv, Marks, Own
      <3> QED
        BY SMT, <2>4, <2>5, <3>1
    <2>10. ~wiped /\ ppc # "idle" /\ Live(pconn) => Cardinality(rkey'[pconn]) >= want - left
      <3> SUFFICES ASSUME ~wiped, ppc # "idle", Live(pconn) PROVE Cardinality(rkey'[pconn]) >= want - left
        OBVIOUS
      <3>1. pconn \in Conn /\ want \in Nat /\ left \in Nat
        BY DEF Inv, PollTypes
      <3>2. Cardinality(rkey[pconn]) >= want - left
        BY <1>1 DEF Inv, Listed
      <3>3. rkey[pconn] \subseteq rkey'[pconn] /\ rkey[pconn] \in SUBSET Chunk /\ rkey'[pconn] \in SUBSET Chunk
        BY <2>5, <2>6, <3>1
      <3>4. /\ Cardinality(rkey[pconn]) <= Cardinality(rkey'[pconn])
            /\ Cardinality(rkey[pconn]) \in Nat /\ Cardinality(rkey'[pconn]) \in Nat
        BY <3>3, ChunksFinite
      <3> QED
        BY SMT, <3>1, <3>2, <3>4
    <2>11. Stop(slots, n, rkey')
      BY <1>3
    <2> HIDE DEF slots
    <2> QED
      BY <1>1, <2>2, <2>3, <2>6, <2>7, <2>8, <2>9, <2>10, <2>11, StopKeeps
  <1> QED
    BY <1>2, <1>3 DEF EvictSelect, kSubset

\* The client stopped has answered; the next one has a slot still to be served.
LEMMA WaitStopKeeps == ASSUME Inv, WaitStop PROVE Inv'
  <1>1. /\ alive /\ fpc = "stop" /\ Live(fconn) /\ stop_sem[fconn] > 0 /\ Stop(todo, count, rkey)
        /\ stop_sem' = [stop_sem EXCEPT ![fconn] = @ - 1]
    BY DEF WaitStop
  <1>2. UNCHANGED <<sessVars, slotVars, connVars, recvs, net, recv_msg, rkey, evict_sem, requests,
                    pollVars, running, histVars>>
    BY DEF WaitStop
  <1>3. todo \in SUBSET Slot /\ fconn \in Conn /\ Pending(fconn)
    BY <1>1 DEF Inv, Stops
  <1>4. ~Asked(fconn, "STOP") /\ ~Sent(fconn, "DONE") /\ stop_sem[fconn] = 1
    BY SMT, <1>1, <1>3 DEF Pending
  <1>5. /\ \A d \in Conn \ {fconn} : stop_sem'[d] = stop_sem[d]
        /\ stop_sem'[fconn] = 0 /\ stop_sem' \in [Conn -> Nat]
    BY SMT, <1>1, <1>3, <1>4 DEF Inv, BufferTypes
  <1>6. count \in Int /\ rkey' \in [Conn -> SUBSET Chunk]
    BY <1>1, <1>2 DEF Inv, FreeTypes, BufferTypes
  <1>7. \A c \in Conn : stage[c] = "none" => rkey'[c] = {} /\ stop_sem'[c] = 0
    BY <1>2, <1>5 DEF Inv, Unborn
  <1>8. \A c \in Conn : Live(c) => ~Asked(c, "STOP") /\ ~Sent(c, "DONE") /\ stop_sem'[c] = 0
    BY <1>1, <1>4, <1>5 DEF Inv, Stops, Settled
  <1>9. ~wiped => \A c \in Conn : Live(c) /\ (conn_index[c] \in todo \/ (ppc # "idle" /\ pconn = c)) =>
                    \A i \in rkey'[c] : conn_map[i] = conn_index[c]
    BY <1>1, <1>2 DEF Inv, Marks, Own
  <1>10. ~wiped /\ ppc # "idle" /\ Live(pconn) => Cardinality(rkey'[pconn]) >= want - left
    BY <1>1, <1>2 DEF Inv, Listed
  <1>11. Stop(todo, count, rkey')
    BY <1>1, <1>2
  <1> QED
    BY <1>1, <1>2, <1>3, <1>5, <1>6, <1>7, <1>8, <1>9, <1>10, <1>11, StopKeeps

\* Nobody who lives has a STOP to answer.
LEMMA WaitLostKeeps == ASSUME Inv, WaitLost PROVE Inv'
  <1>1. /\ alive /\ ~Live(fconn) /\ Leave("stuck") /\ fpc \in {"activity", "stop"}
        /\ UNCHANGED <<sessVars, slotVars, connVars, msgVars, pollVars, flagVars>>
    BY DEF WaitLost
  <1>2. FreeTypes'
    BY SMT, <1>1 DEF FreeTypes, Leave
  <1>3. Unborn'
    BY <1>1, LeaveUnborn
  <1>4. Starting' /\ Waits' /\ Listed'
    BY <1>1 DEF Starting, Waits, Listed, Leave
  <1>5. Stops'
    BY <1>1 DEF Inv, Stops, Settled, Live, Asked, Sent, Leave
  <1>6. Marks'
    BY <1>1 DEF Inv, Marks, Own, Live, Asked, Sent, Leave
  <1> QED
    BY <1>1, <1>2, <1>3, <1>4, <1>5, <1>6, PoolTypesKept, ConnTypesKept, NetTypesKept,
       BufferTypesKept, PollTypesKept, SlotsKept, ConnIndexedKept, ReceiveBufferStableKept,
       GrantedIsAllocatedKept DEF Inv

-----------------------------------------------------------------------------
(* The theorems                                                            *)

LEMMA InitHolds == Init => Inv
  <1> SUFFICES ASSUME Init PROVE Inv
    OBVIOUS
  <1>1. PoolTypes /\ ConnTypes /\ Slots
    BY SMT, PoolAssumption, NullConnAssumption DEF Init, PoolTypes, ConnTypes, Slots, Slot
  <1>2. NetTypes /\ BufferTypes
    BY DEF Init, NetTypes, BufferTypes
  <1>3. PollTypes /\ FreeTypes /\ Starting /\ Waits
    BY SMT DEF Init, PollTypes, FreeTypes, Starting, Waits
  <1>4. Unborn
    BY NullConnAssumption DEF Init, Unborn
  <1>5. \A c \in Conn : ~Live(c)
    BY DEF Init, Live
  <1>6. ppc = "idle" /\ fpc = "init_maps"
    BY DEF Init
  <1>7. ConnIndexed /\ ReceiveBufferStable /\ Stops /\ Marks /\ GrantedIsAllocated /\ Listed
    BY <1>5, <1>6 DEF ConnIndexed, ReceiveBufferStable, Stops, Marks, GrantedIsAllocated, Listed
  <1> QED
    BY <1>1, <1>2, <1>3, <1>4, <1>7 DEF Inv

LEMMA NextKeeps == Inv /\ [Next]_vars => Inv'
  <1> SUFFICES ASSUME Inv, [Next]_vars PROVE Inv'
    OBVIOUS
  <1>1. CASE Main
    BY <1>1, ConnectRequestKeeps, EstablishedKeeps, DisconnectedKeeps DEF Main
  <1>2. CASE Clients
    BY <1>2, ClientQueryKeeps, ClientAnswerKeeps, ClientRequestKeeps DEF Clients
  <1>3. CASE Poll
    BY <1>3, QueryKeeps, ActivityKeeps, RecvDoneKeeps, RequestKeeps, GrantChunkKeeps,
       GrantCountKeeps, GrantSendKeeps DEF Poll
  <1>4. CASE FreeMem
    BY <1>4, InitMapsKeeps, InitChunkKeeps, InitConnsKeeps, FreeMemStopsKeeps, ExpandBeginKeeps,
       EvictBeginKeeps, ExpandChunkKeeps, ExpandEndKeeps, EvictChunkKeeps, EvictFreeKeeps,
       EvictPickKeeps, WaitActivityKeeps, WaitLostKeeps, EvictSelectKeeps, WaitStopKeeps DEF FreeMem
  <1>5. CASE UNCHANGED vars
    BY <1>5, PoolTypesKept, ConnTypesKept, NetTypesKept, BufferTypesKept, PollTypesKept,
       FreeTypesKept, UnbornKept, SlotsKept, ConnIndexedKept, ReceiveBufferStableKept, StartingKept,
       WaitsKept, StopsKept, MarksKept, GrantedIsAllocatedKept, ListedKept DEF Inv, vars
  <1> QED
    BY <1>1, <1>2, <1>3, <1>4, <1>5 DEF Next

\* The invariant of the three threads holds, for any clients, slots, chunks and requests.
THEOREM Invariance == Spec => []Inv
  <1> QED
    BY InitHolds, NextKeeps, PTL DEF Spec

\* Every chunk granted to a live client is allocated, marked as its own, and held by no
\* other, except as GrantedIsAllocated names (send_chunks_to_client, recv_done, evict_mem).
THEOREM GrantSafety == Spec => []GrantedIsAllocated
  <1>1. Inv => GrantedIsAllocated
    BY DEF Inv
  <1> QED
    BY <1>1, Invariance, PTL

\* A receive is posted on a connection only when nobody reads recv_msg, and one is posted
\* whenever nobody does (handle_cqe, post_receives, evict_mem).
THEOREM ReceiveSafety == Spec => []ReceiveBufferStable
  <1>1. Inv => ReceiveBufferStable
    BY DEF Inv
  <1> QED
    BY <1>1, Invariance, PTL

\* While evict_mem waits for a live connection it has told, the answer is still to come
\* (sem_wait of evict_sem and of stop_sem).
THEOREM WaitSafety == Spec => []WaitAnswered
  <1>1. Inv => WaitAnswered
    <2>1. Inv /\ alive /\ Live(fconn) /\ fpc = "activity" /\ todo # {} /\ fconn \in told =>
            \/ Asked(fconn, "EVICT")
            \/ Sent(fconn, "ACTIVITY")
            \/ evict_sem[fconn] > 0
      <3> SUFFICES ASSUME Inv, alive, Live(fconn), fpc = "activity", todo # {}, fconn \in told
                   PROVE  Asked(fconn, "EVICT") \/ Sent(fconn, "ACTIVITY") \/ evict_sem[fconn] > 0
        OBVIOUS
      <3>1. todo \in SUBSET Slot /\ conn_index[fconn] = Min(todo)
        BY DEF Inv, Waits
      <3>2. conn_index[fconn] \in todo
        BY <3>1, MinIn
      <3> QED
        BY <3>2 DEF Inv, Waits
    <2>2. Inv /\ alive /\ Live(fconn) /\ fpc = "stop" =>
            \/ Asked(fconn, "STOP")
            \/ Sent(fconn, "DONE")
            \/ stop_sem[fconn] > 0
      BY Zero DEF Inv, Stops, Pending
    <2> QED
      BY <2>1, <2>2 DEF Asked, Sent, WaitAnswered
  <1> QED
    BY <1>1, Invariance, PTL

\* The message that answers a request lists only chunks of the client, and all that were
\* taken for it unless an eviction still waits (send_chunks_to_client, send_evict).
THEOREM ListSafety == Spec => []GrantListed
  <1>1. Inv => GrantListed
    <2> SUFFICES ASSUME Inv, alive, ~wiped, ppc = "send", Live(pconn)
                 PROVE  /\ \A i \in rkey[pconn] : conn_map[i] = conn_index[pconn]
                        /\ fpc \notin {"activity", "stuck"} => Cardinality(rkey[pconn]) >= want - left
      BY DEF GrantListed
    <2>1. pconn \in Conn
      BY DEF Inv, PollTypes
    <2>2. Own(pconn, rkey[pconn])
      BY <2>1 DEF Inv, Marks
    <2> QED
      BY <2>2 DEF Inv, Listed, Own
  <1> QED
    BY <1>1, Invariance, PTL

\* A live connection is found in the session under its conn_index, unless rdma_session_init
\* reset the slots over it (build_connection).
THEOREM IndexSafety == Spec => []ConnIndexed
  <1>1. Inv => ConnIndexed
    BY DEF Inv
  <1> QED
    BY <1>1, Invariance, PTL

=============================================================================
