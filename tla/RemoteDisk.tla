----------------------------- MODULE RemoteDisk -----------------------------
(***************************************************************************)
(* Where the bytes of the Octopus disk live: the chunk list that FREE_SIZE *)
(* and GOT_CHUNKS build (init_remote_chunk_list, bind_remote_memory_chunks)*)
(* and the translation of a block request into one RDMA transfer           *)
(* (transfer_requet_to_rdma_message, post_rdma_read, post_rdma_write).     *)
(* One request is served at a time; RdmaQueue has the concurrency.         *)
(*                                                                         *)
(* Lengths are in 512-byte sectors.  The copies between the pages of a     *)
(* request and the RDMA buffer are commented out in the code (rdma_client.c*)
(* 1088, 1361): a write sends whatever the buffer holds and a read leaves  *)
(* the pages of the request as they were.                                  *)
(***************************************************************************)
EXTENDS Integers, Sequences, SequencesExt

CONSTANTS
  ChunkSects,  \* sectors of a chunk, 1 << CHUNK_SHIFT
  PageSects,   \* sectors of PAGE_SIZE
  BufSects,    \* sectors of rdma_buf, ONE_SIEDED_RDMA_BUF_SIZE
  MaxSects,    \* RMEM_QUEUE_MAX_SECT_SIZE
  DiskChunks,  \* MAX_REMOTE_MEMORY_SIZE_GB / CHUNK_SIZE_GB, the capacity
  FreeSizes,   \* chunks that the server may report as free
  Watch,       \* the sector whose contents are followed
  Val          \* its contents

ASSUME DiskAssumption ==
  /\ {ChunkSects, PageSects, BufSects, MaxSects, DiskChunks} \subseteq Nat \ {0}
  /\ FreeSizes \subseteq Nat

Sector == 0 .. ChunkSects * DiskChunks - 1
RemoteChunk == 0 .. DiskChunks - 1   \* index in the rkey[] and buf[] of the message

VARIABLES
  phase,         \* "start", "listed", "ready"
  remote_chunk,  \* remote_chunk_list.remote_chunk: EMPTY or the remote chunk bound
  chunk_ptr, chunk_num,
  written,       \* the contents of Watch that the user of the disk expects
  last           \* the last request: what was asked for and what was done

listVars == <<remote_chunk, chunk_ptr, chunk_num>>
vars == <<phase, listVars, written, last>>

EMPTY == -1
NoRequest == [dir |-> "NONE", pos |-> 0, n |-> 0, done |-> "NONE", chunk |-> EMPTY, off |-> 0,
              len |-> 0, got |-> 0]

Init ==
  /\ phase = "start"
  /\ remote_chunk = <<>> /\ chunk_ptr = 0 /\ chunk_num = 0
  /\ written \in Val
  /\ last = NoRequest

-----------------------------------------------------------------------------
(* The chunk list                                                          *)

\* FREE_SIZE: one EMPTY entry per free chunk of the server.
InitRemoteChunkList(n) ==
  /\ phase = "start"
  /\ phase' = "listed"
  /\ remote_chunk' = [i \in 1..n |-> EMPTY] /\ chunk_ptr' = 0 /\ chunk_num' = n
  /\ UNCHANGED <<written, last>>

\* The chunks with a non-zero rkey are attached, in order, to the entries from
\* chunk_ptr on, as long as there are entries.
Bind(list, ptr, granted) ==
  LET k == IF Len(granted) <= Len(list) - ptr THEN Len(granted) ELSE Len(list) - ptr
  IN  [list |-> [i \in DOMAIN list |-> IF i \in ptr + 1 .. ptr + k THEN granted[i - ptr] ELSE list[i]],
       ptr  |-> ptr + k]

\* The chunks of a GOT_CHUNKS message: those with a non-zero rkey, by their index.
Grants ==
  {g \in SeqOf(RemoteChunk, DiskChunks) : \A i, j \in DOMAIN g : i < j => g[i] < g[j]}

\* GOT_CHUNKS: chunk_num becomes the number of entries that are bound.
BindRemoteMemoryChunks(granted) ==
  LET b == Bind(remote_chunk, chunk_ptr, granted) IN
  /\ phase = "listed"
  /\ phase' = "ready"
  /\ remote_chunk' = b.list /\ chunk_ptr' = b.ptr /\ chunk_num' = b.ptr
  /\ UNCHANGED <<written, last>>

-----------------------------------------------------------------------------
(* Block requests                                                          *)

\* Mutant of Length: the request is not looked at.
LengthUnchecked(pos, n, segs) == n

\* The length of the transfer, or 0 when the request is refused: a request over
\* a chunk boundary is cut to nr_phys_segments pages, if that ends before it.
Length(pos, n, segs) ==
  IF pos \div ChunkSects = (pos + n - 1) \div ChunkSects THEN n
  ELSE IF pos \div ChunkSects = (pos + segs * PageSects) \div ChunkSects THEN segs * PageSects
  ELSE 0

\* Mutant of Offset: rounded down to a page.
OffsetOfPage(pos) == ((pos % ChunkSects) \div PageSects) * PageSects

\* start_addr & CHUNK_MASK
Offset(pos) == pos % ChunkSects

\* A request for n sectors from pos in segs segments, whose page for Watch holds
\* v when it is made and, as nothing is copied, when it is ended.
Request(dir, pos, n, segs, v) ==
  LET len   == Length(pos, n, segs)
      index == pos \div ChunkSects
      asked == Watch \in pos .. pos + n - 1
      Done(how, chunk, got) ==
        last' = [dir |-> dir, pos |-> pos, n |-> n, done |-> how, chunk |-> chunk,
                 off |-> Offset(pos), len |-> len, got |-> got]
  IN
  /\ phase = "ready"
  /\ pos + n - 1 \in Sector
  /\ UNCHANGED <<phase, listVars>>
  /\ \/ /\ len = 0
        /\ Done("REFUSED", EMPTY, v) /\ UNCHANGED written
     \/ \* index is not checked: whatever lies behind the list is taken as a chunk
        /\ len # 0 /\ index >= Len(remote_chunk)
        /\ Done("OUTSIDE", EMPTY, v) /\ UNCHANGED written
     \/ /\ len # 0 /\ index < Len(remote_chunk) /\ remote_chunk[index + 1] = EMPTY
        /\ Done("REFUSED", EMPTY, v) /\ UNCHANGED written
     \/ /\ len # 0 /\ index < Len(remote_chunk) /\ remote_chunk[index + 1] # EMPTY
        /\ Done("OK", remote_chunk[index + 1], v)
        /\ written' = IF dir = "WRITE" /\ asked THEN v ELSE written

Next ==
  \/ \E n \in FreeSizes : InitRemoteChunkList(n)
  \/ \E granted \in Grants : BindRemoteMemoryChunks(granted)
  \/ \E dir \in {"READ", "WRITE"}, pos \in Sector, n \in 1..MaxSects, v \in Val :
       \E segs \in 1 .. n : Request(dir, pos, n, segs, v)

Spec == Init /\ [][Next]_vars

-----------------------------------------------------------------------------
(* Properties                                                              *)

\* The list never holds more bound chunks than entries and every request has one
\* of the outcomes above (bind_remote_memory_chunks, rmem_queue_rq).
TypeOK ==
  /\ phase \in {"start", "listed", "ready"}
  /\ remote_chunk \in Seq(RemoteChunk \cup {EMPTY})
  /\ chunk_ptr \in 0 .. Len(remote_chunk) /\ chunk_num \in 0 .. Len(remote_chunk)
  /\ written \in Val
  /\ last.done \in {"NONE", "OK", "REFUSED", "OUTSIDE"}

\* Where a sector of the disk is kept, once its chunk is bound.
Location(s) == <<remote_chunk[s \div ChunkSects + 1], Offset(s)>>
Bound(s) == s \div ChunkSects < chunk_num

\* Two sectors of the disk never share a place in the remote memory, whichever
\* chunks the server granted and however many: binding in order and the split
\* of the address into chunk and offset are one injective map.
LocationsDistinct ==
  phase = "ready" =>
    \A s, t \in Sector : Bound(s) /\ Bound(t) /\ s # t => Location(s) # Location(t)

\* A request that is accepted touches one granted chunk, inside its bounds, and
\* no sector of the disk other than its own, also when its length was cut.
TransferWithin ==
  last.done = "OK" =>
    /\ last.off + last.len <= ChunkSects
    /\ last.len <= last.n

\* "64 pages per rdma_buf are enough now": a transfer fits the buffer.
BufferEnough == last.done = "OK" => last.len <= BufSects

\* "this value eaquals to the remote memory size": the disk's capacity,
\* MAX_REMOTE_MEMORY_SIZE_GB, is backed by entries of the chunk list.
CapacityBacked == last.done # "OUTSIDE"

\* "Assume all the read/write hits in the same chunk": a request that is ended
\* without an error lies in one chunk, so that all of it was transferred.
SameChunk == last.done = "OK" => last.pos \div ChunkSects = (last.pos + last.n - 1) \div ChunkSects

\* "Put data back to I/O request and send it back to upper layer": a read
\* delivers what was last written.
ReadsBack ==
  last.done = "OK" /\ last.dir = "READ" /\ Watch \in last.pos .. last.pos + last.n - 1
    => last.got = written

=============================================================================
