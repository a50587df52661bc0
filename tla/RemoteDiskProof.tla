-------------------------- MODULE RemoteDiskProof --------------------------
(***************************************************************************)
(* Proofs about RemoteDisk, for chunks, pages, requests and lists of any   *)
(* size: the address translation is injective and a transfer stays inside  *)
(* its chunk and its request.                                              *)
(***************************************************************************)
EXTENDS RemoteDisk, TLAPS

-----------------------------------------------------------------------------
(* Division by the size of a chunk                                         *)

\* The split of an address into chunk and offset loses nothing.
LEMMA Split ==
  ASSUME NEW C \in Nat \ {0}, NEW s \in Nat
  PROVE  s = C * (s \div C) + (s % C) /\ s % C \in 0 .. C - 1 /\ s \div C \in Nat
  OBVIOUS

\* A later sector lies in the same chunk or in a later one.
LEMMA LaterChunk ==
  ASSUME NEW C \in Nat \ {0}, NEW s \in Nat, NEW t \in Nat, s <= t
  PROVE  s \div C <= t \div C
  <1> DEFINE p == s \div C
             q == t \div C
  <1>1. s = C * p + (s % C) /\ t = C * q + (t % C) /\ s % C >= 0 /\ t % C < C /\ p \in Nat /\ q \in Nat
    BY Split
  <1>2. ASSUME p >= q + 1 PROVE FALSE
    <2>1. C * p >= C * (q + 1)
      BY <1>1, <1>2
    <2>2. C * (q + 1) = C * q + C
      BY <1>1
    <2> QED
      BY <1>1, <2>1, <2>2
  <1> QED
    BY <1>1, <1>2

\* Sectors s and t of one chunk: the offset of the first leaves room up to the second.
LEMMA SameChunkRoom ==
  ASSUME NEW C \in Nat \ {0}, NEW s \in Nat, NEW t \in Nat, s \div C = t \div C
  PROVE  (s % C) + (t - s) < C
  <1> DEFINE q == s \div C
  <1>1. s = C * q + (s % C) /\ s % C \in Int /\ q \in Nat
    BY Split
  <1>2. t = C * q + (t % C) /\ t % C \in Int /\ t % C < C
    BY Split, t \div C = q
  <1> HIDE DEF q
  <1> QED
    BY <1>1, <1>2

\* What transfer_requet_to_rdma_message accepts: a transfer that ends inside the chunk
\* it begins in and is no longer than the request, also when it was cut to whole pages.
LEMMA LengthFits ==
  ASSUME NEW pos \in Nat, NEW n \in Nat \ {0}, NEW segs \in Nat \ {0}, Length(pos, n, segs) # 0
  PROVE  Offset(pos) + Length(pos, n, segs) <= ChunkSects /\ Length(pos, n, segs) <= n
  <1> DEFINE end == pos + n - 1
             cut == segs * PageSects
             cutEnd == pos + cut
  <1>1. end \in Nat /\ cut \in Nat /\ cutEnd \in Nat /\ end - pos = n - 1 /\ cutEnd - pos = cut
    BY DiskAssumption
  <1>2. \/ pos \div ChunkSects = end \div ChunkSects /\ Length(pos, n, segs) = n
        \/ /\ pos \div ChunkSects # end \div ChunkSects
           /\ pos \div ChunkSects = cutEnd \div ChunkSects /\ Length(pos, n, segs) = cut
    BY DEF Length
  <1>4. n <= cut => end <= cutEnd
    BY <1>1
  <1>5. pos <= end
    BY <1>1
  <1>6. ChunkSects \in Nat \ {0}
    BY DiskAssumption
  <1> HIDE DEF end, cut, cutEnd
  <1>7. pos % ChunkSects \in Int /\ pos \div ChunkSects \in Int /\ end \div ChunkSects \in Int
    BY <1>1, <1>6, Split
  <1>8. CASE pos \div ChunkSects = end \div ChunkSects
    <2>1. (pos % ChunkSects) + (end - pos) < ChunkSects
      BY <1>1, <1>6, <1>8, SameChunkRoom
    <2> QED
      BY <1>1, <1>2, <1>6, <1>7, <1>8, <2>1 DEF Offset
  <1>9. CASE pos \div ChunkSects # end \div ChunkSects
    <2>1. (pos % ChunkSects) + (cutEnd - pos) < ChunkSects
      BY <1>1, <1>2, <1>6, <1>9, SameChunkRoom
    <2>2. cut < n
      <3> SUFFICES ASSUME n <= cut PROVE FALSE
        BY <1>1
      <3>1. pos \div ChunkSects <= end \div ChunkSects
        BY <1>1, <1>5, <1>6, LaterChunk
      <3>2. end \div ChunkSects <= cutEnd \div ChunkSects
        BY <1>1, <1>4, <1>6, LaterChunk
      <3> QED
        BY <1>2, <1>7, <1>9, <3>1, <3>2
    <2> QED
      BY <1>1, <1>2, <1>6, <1>7, <1>9, <2>1, <2>2 DEF Offset
  <1> QED
    BY <1>8, <1>9

\* An accepted transfer touches one chunk, inside its bounds, and only sectors of its
\* request (transfer_requet_to_rdma_message).
THEOREM TransferSafety == Spec => []TransferWithin
  <1>1. Init => TransferWithin
    BY DEF Init, NoRequest, TransferWithin
  <1>2. TransferWithin /\ [Next]_vars => TransferWithin'
    <2> SUFFICES ASSUME TransferWithin, [Next]_vars PROVE TransferWithin'
      OBVIOUS
    <2>1. CASE UNCHANGED last
      BY <2>1 DEF TransferWithin
    <2>2. ASSUME NEW dir \in {"READ", "WRITE"}, NEW pos \in Sector, NEW n \in 1..MaxSects,
                 NEW v \in Val, NEW segs \in 1..n, Request(dir, pos, n, segs, v)
          PROVE  TransferWithin'
      <3>1. pos \in Nat /\ n \in Nat \ {0} /\ segs \in Nat \ {0}
        BY DiskAssumption DEF Sector
      <3>2. last'.done = "OK" => Length(pos, n, segs) # 0
        BY <2>2 DEF Request
      <3>3. last'.off = Offset(pos) /\ last'.len = Length(pos, n, segs) /\ last'.n = n
        BY <2>2 DEF Request
      <3> QED
        BY <3>1, <3>2, <3>3, LengthFits DEF TransferWithin
    <2> QED
      BY <2>1, <2>2 DEF Next, vars, InitRemoteChunkList, BindRemoteMemoryChunks
  <1> QED
    BY <1>1, <1>2, PTL DEF Spec

-----------------------------------------------------------------------------
(* The chunk list                                                          *)

\* What the two messages make of the list: nothing is bound before GOT_CHUNKS, and
\* afterwards the first chunk_num entries are different remote chunks.
ListInv ==
  /\ remote_chunk \in Seq(RemoteChunk \cup {EMPTY})
  /\ phase = "listed" => chunk_ptr = 0
  /\ phase = "ready" =>
       /\ chunk_num \in 0 .. Len(remote_chunk)
       /\ \A i, j \in 1 .. chunk_num : i # j => remote_chunk[i] # remote_chunk[j]

\* A message of the server names a chunk once, in the order of its index.
LEMMA GrantsDiffer ==
  ASSUME NEW g \in Grants
  PROVE  /\ g \in Seq(RemoteChunk)
         /\ \A i, j \in 1 .. Len(g) : i # j => g[i] # g[j]
  <1>1. PICK m \in 0 .. DiskChunks : g \in [1..m -> RemoteChunk]
    BY DEF Grants, SeqOf
  <1>2. g \in Seq(RemoteChunk) /\ Len(g) = m /\ DOMAIN g = 1 .. m
    BY <1>1, DiskAssumption
  <1>3. \A i \in 1 .. m : g[i] \in Int
    BY <1>1 DEF RemoteChunk
  <1> QED
    BY <1>2, <1>3 DEF Grants

\* bind_remote_memory_chunks on a list of which nothing is bound.
LEMMA BindDiffers ==
  ASSUME NEW list \in Seq(RemoteChunk \cup {EMPTY}), NEW g \in Grants
  PROVE  LET b == Bind(list, 0, g) IN
         /\ b.list \in Seq(RemoteChunk \cup {EMPTY})
         /\ b.ptr \in 0 .. Len(b.list)
         /\ \A i, j \in 1 .. b.ptr : i # j => b.list[i] # b.list[j]
  <1> DEFINE b == Bind(list, 0, g)
             k == IF Len(g) <= Len(list) - 0 THEN Len(g) ELSE Len(list) - 0
  <1>1. k \in Nat /\ k <= Len(list) /\ k <= Len(g)
    BY GrantsDiffer
  <1>2. /\ b.list = [i \in DOMAIN list |-> IF i \in 0 + 1 .. 0 + k THEN g[i - 0] ELSE list[i]]
        /\ b.ptr = 0 + k
    BY DEF Bind
  <1>3. b.list \in [1 .. Len(list) -> RemoteChunk \cup {EMPTY}]
    <2>1. \A i \in 1 .. k : g[i] \in RemoteChunk
      BY <1>1, GrantsDiffer
    <2>2. DOMAIN list = 1 .. Len(list) /\ \A i \in DOMAIN list : list[i] \in RemoteChunk \cup {EMPTY}
      OBVIOUS
    <2>3. \A i \in DOMAIN list : i - 0 = i
      BY <2>2
    <2> HIDE DEF b, k
    <2> QED
      BY <1>1, <1>2, <2>1, <2>2, <2>3
  <1>4. b.list \in Seq(RemoteChunk \cup {EMPTY}) /\ Len(b.list) = Len(list)
    BY <1>3
  <1>5. \A i \in 1 .. k : b.list[i] = g[i]
    BY <1>1, <1>2
  <1>6. b.ptr = k
    BY <1>1, <1>2
  <1> HIDE DEF b, k
  <1>7. \A i, j \in 1 .. b.ptr : i # j => b.list[i] # b.list[j]
    BY <1>1, <1>5, <1>6, GrantsDiffer
  <1>8. b.ptr \in 0 .. Len(b.list)
    BY <1>1, <1>4, <1>6
  <1> QED
    BY <1>4, <1>7, <1>8, Zenon DEF b

LEMMA ListInvariance == Spec => []ListInv
  <1>1. Init => ListInv
    BY DEF Init, ListInv
  <1>2. ListInv /\ [Next]_vars => ListInv'
    <2> SUFFICES ASSUME ListInv, [Next]_vars PROVE ListInv'
      OBVIOUS
    <2>1. CASE UNCHANGED <<phase, listVars>>
      BY <2>1 DEF ListInv, listVars
    <2>2. ASSUME NEW n \in FreeSizes, InitRemoteChunkList(n) PROVE ListInv'
      <3>1. remote_chunk' \in [1..n -> RemoteChunk \cup {EMPTY}] /\ n \in Nat
        BY <2>2, DiskAssumption DEF InitRemoteChunkList
      <3> QED
        BY <2>2, <3>1 DEF InitRemoteChunkList, ListInv
    <2>3. ASSUME NEW g \in Grants, BindRemoteMemoryChunks(g) PROVE ListInv'
      <3>1. chunk_ptr = 0 /\ remote_chunk \in Seq(RemoteChunk \cup {EMPTY})
        BY <2>3 DEF BindRemoteMemoryChunks, ListInv
      <3> DEFINE b == Bind(remote_chunk, 0, g)
      <3>2. /\ b.list \in Seq(RemoteChunk \cup {EMPTY})
            /\ b.ptr \in 0 .. Len(b.list)
            /\ \A i, j \in 1 .. b.ptr : i # j => b.list[i] # b.list[j]
        BY <3>1, BindDiffers
      <3>3. remote_chunk' = b.list /\ chunk_num' = b.ptr /\ phase' = "ready"
        BY <2>3, <3>1 DEF BindRemoteMemoryChunks
      <3> HIDE DEF b
      <3> QED
        BY <3>2, <3>3 DEF ListInv
    <2> QED
      BY <2>1, <2>2, <2>3 DEF Next, vars, Request
  <1> QED
    BY <1>1, <1>2, PTL DEF Spec

\* Two sectors of the disk never share a place in the remote memory.
THEOREM LocationSafety == Spec => []LocationsDistinct
  <1>1. ListInv => LocationsDistinct
    <2> SUFFICES ASSUME ListInv, phase = "ready", NEW s \in Sector, NEW t \in Sector,
                        Bound(s), Bound(t), Location(s) = Location(t)
                 PROVE  s = t
      BY DEF LocationsDistinct
    <2>1. s \in Nat /\ t \in Nat /\ ChunkSects \in Nat \ {0}
      BY DiskAssumption DEF Sector
    <2>2. s \div ChunkSects \in Nat /\ t \div ChunkSects \in Nat
      BY <2>1, Split
    <2>3. s \div ChunkSects = t \div ChunkSects
      <3>1. s \div ChunkSects + 1 \in 1 .. chunk_num /\ t \div ChunkSects + 1 \in 1 .. chunk_num
        BY <2>2 DEF Bound, ListInv
      <3>2. remote_chunk[s \div ChunkSects + 1] = remote_chunk[t \div ChunkSects + 1]
        BY DEF Location
      <3> QED
        BY <2>2, <3>1, <3>2 DEF ListInv
    <2>4. s % ChunkSects = t % ChunkSects
      BY DEF Location, Offset
    <2> QED
      BY <2>1, <2>3, <2>4, Split
  <1> QED
    BY <1>1, ListInvariance, PTL
=============================================================================
