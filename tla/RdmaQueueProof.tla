-------------------------- MODULE RdmaQueueProof ---------------------------
(***************************************************************************)
(* Proofs that the command pool and the completion path of RdmaQueue are   *)
(* safe for every number of queues, commands, contexts and failures.       *)
(***************************************************************************)
EXTENDS RdmaQueue, TLAPS

USE DepthAssumption, FaultAssumption

\* The wrap-around of the search stays inside the list of the same queue.
LEMMA NextCmdType == ASSUME NEW c \in Cmd PROVE NextCmd(c) \in Cmd
BY DEF NextCmd, Cmd, Slot

\* The null pointer is no request.
LEMMA NullReq == NULL \notin Req
BY NullAssumption DEF Req, Cmd

\* All commands free and the CQ armed: init_rdma_command_list establishes IInv.
LEMMA InitInv == Init => IInv
<1> SUFFICES ASSUME Init PROVE IInv
  OBVIOUS
<1>1. TypeOK
  <2>1. faults \in 0 .. MaxFaults
    BY DEF Init
  <2>2. armed \in BOOLEAN /\ event \in BOOLEAN
    BY DEF Init
  <2>3. posted \in [Cmd -> Nat] /\ cqe \in [Cmd -> Nat]
    BY DEF Init
  <2> QED
    BY <2>1, <2>2, <2>3, Zenon DEF Init, TypeOK
<1>2. \A c \in Cmd : posted[c] = 0 /\ cqe[c] = 0 /\ ~InFlight(c)
  BY DEF Init, InFlight
<1>3. \A s \in Contexts : pc[s] = "idle" /\ rq[s] = NULL
  BY DEF Init
<1>4. CommandExclusive
  BY <1>2, <1>3 DEF CommandExclusive, Owns
<1>5. EndsOwnRequest
  BY <1>2 DEF EndsOwnRequest, Init
<1>6. ContextInv
  BY <1>3 DEF ContextInv
<1>7. HandlerInv
  BY <1>2 DEF HandlerInv, Init
<1> QED
  BY <1>1, <1>4, <1>5, <1>6, <1>7 DEF IInv

\* Every step keeps all variables in their types.
LEMMA StepType == TypeOK /\ ContextInv /\ HandlerInv /\ EndsOwnRequest /\ Next => TypeOK'
<1> SUFFICES ASSUME TypeOK, ContextInv, HandlerInv, EndsOwnRequest, Next PROVE TypeOK'
  OBVIOUS
<1> USE DEF cmdVars, wireVars, rqVars, ctxVars, cqVars
<1>1. ASSUME NEW s \in Contexts, NEW r \in Req, NEW d \in {"READ", "WRITE"}, QueueRq(s, r, d)
      PROVE TypeOK'
  BY <1>1 DEF TypeOK, QueueRq
<1>2. ASSUME NEW s \in Contexts, ChunkMapped(s) PROVE TypeOK'
  <2>1. <<rq[s][1], 0>> \in Cmd
    BY <1>2 DEF ContextInv, ChunkMapped, Req, Cmd, Slot
  <2> QED
    BY <1>2, <2>1 DEF TypeOK, ChunkMapped
<1>3. ASSUME NEW s \in Contexts, ChunkNotMapped(s) PROVE TypeOK'
  BY <1>3 DEF TypeOK, ChunkNotMapped, Fault
<1>4. ASSUME NEW s \in Contexts, Probe(s) PROVE TypeOK'
  <2>1. cmd[s] \in Cmd
    BY <1>4 DEF ContextInv, Probe
  <2>2. NextCmd(cmd[s]) \in Cmd
    BY <2>1, NextCmdType
  <2> QED
    BY <1>4, <2>1, <2>2 DEF TypeOK, Probe
<1>5. ASSUME NEW s \in Contexts, Fill(s) PROVE TypeOK'
  BY <1>5 DEF TypeOK, Fill
<1>6. ASSUME NEW s \in Contexts, PostSend(s) PROVE TypeOK'
  <2>1. rq[s] \in Req /\ cmd[s] \in Cmd
    BY <1>6 DEF ContextInv, PostSend
  <2> QED
    BY <1>6, <2>1 DEF TypeOK, PostSend
<1>7. ASSUME NEW s \in Contexts, PostSendFails(s) PROVE TypeOK'
  BY <1>7 DEF TypeOK, PostSendFails, Fault
<1>8. ASSUME NEW s \in Contexts, QueueRqError(s) PROVE TypeOK'
  BY <1>8 DEF TypeOK, QueueRqError
<1>9. ASSUME NEW c \in Cmd, Complete(c) PROVE TypeOK'
  <2>1. event' \in BOOLEAN /\ armed' \in BOOLEAN
    BY <1>9, Zenon DEF TypeOK, Complete
  <2>2. posted' \in [Cmd -> Nat] /\ cqe' \in [Cmd -> Nat]
    BY <1>9 DEF TypeOK, Complete
  <2> QED
    BY <1>9, <2>1, <2>2 DEF TypeOK, Complete
<1>10. CASE CqEvent
  BY <1>10 DEF TypeOK, CqEvent
<1>11. CASE PollEmpty
  BY <1>11 DEF TypeOK, PollEmpty
<1>12. ASSUME NEW c \in Cmd, PollCq(c) PROVE TypeOK'
  BY <1>12 DEF TypeOK, PollCq
<1>13. ASSUME NEW c \in Cmd, PollBadStatus(c) PROVE TypeOK'
  BY <1>13 DEF TypeOK, PollBadStatus, Fault, Err
<1>14. CASE ReadLeavesOutBio
  BY <1>14 DEF TypeOK, ReadLeavesOutBio, Fault, Err
<1>15. CASE EndRequest
  BY <1>15 DEF TypeOK, EndRequest
<1>16. CASE FreeState
  BY <1>16 DEF TypeOK, FreeState
<1>17. CASE FreeIoRq
  BY <1>17 DEF TypeOK, FreeIoRq
<1>18. CASE CollectReturns
  BY <1>18 DEF TypeOK, CollectReturns
<1> QED
  BY <1>1, <1>2, <1>3, <1>4, <1>5, <1>6, <1>7, <1>8, <1>9, <1>10, <1>11, <1>12, <1>13,
     <1>14, <1>15, <1>16, <1>17, <1>18 DEF Next, Submit, Handler

(* No step gives a command a second user.  The taking step, Probe, is the  *)
(* crux: a command it finds free is neither in flight nor owned.           *)
LEMMA StepCommandExclusive == IInv /\ Next => CommandExclusive'
<1> SUFFICES ASSUME IInv, Next PROVE CommandExclusive'
  OBVIOUS
<1> USE DEF IInv, TypeOK, cmdVars, wireVars, rqVars, ctxVars, cqVars
<1>1. ASSUME NEW s \in Contexts, NEW r \in Req, NEW d \in {"READ", "WRITE"}, QueueRq(s, r, d) PROVE CommandExclusive'
  BY <1>1, NullReq DEF QueueRq, CommandExclusive, Owns, HandlerOwns, InFlight, ContextInv, HandlerInv
<1>2. ASSUME NEW s \in Contexts, ChunkMapped(s) PROVE CommandExclusive'
  BY <1>2, NullReq DEF ChunkMapped, CommandExclusive, Owns, HandlerOwns, InFlight, ContextInv, HandlerInv
<1>3. ASSUME NEW s \in Contexts, ChunkNotMapped(s) PROVE CommandExclusive'
  BY <1>3, NullReq DEF ChunkNotMapped, Fault, CommandExclusive, Owns, HandlerOwns, InFlight, ContextInv, HandlerInv
<1>4. ASSUME NEW s \in Contexts, Probe(s) PROVE CommandExclusive'
  BY <1>4, NullReq DEF Probe, CommandExclusive, Owns, HandlerOwns, InFlight, ContextInv, HandlerInv
<1>5. ASSUME NEW s \in Contexts, Fill(s) PROVE CommandExclusive'
  BY <1>5, NullReq DEF Fill, CommandExclusive, Owns, HandlerOwns, InFlight, ContextInv, HandlerInv
<1>6. ASSUME NEW s \in Contexts, PostSend(s) PROVE CommandExclusive'
  BY <1>6, NullReq DEF PostSend, CommandExclusive, Owns, HandlerOwns, InFlight, ContextInv, HandlerInv
<1>7. ASSUME NEW s \in Contexts, PostSendFails(s) PROVE CommandExclusive'
  BY <1>7, NullReq DEF PostSendFails, Fault, CommandExclusive, Owns, HandlerOwns, InFlight, ContextInv, HandlerInv
<1>8. ASSUME NEW s \in Contexts, QueueRqError(s) PROVE CommandExclusive'
  BY <1>8, NullReq DEF QueueRqError, CommandExclusive, Owns, HandlerOwns, InFlight, ContextInv, HandlerInv
<1>9. ASSUME NEW c \in Cmd, Complete(c) PROVE CommandExclusive'
  BY <1>9, NullReq DEF Complete, CommandExclusive, Owns, HandlerOwns, InFlight, ContextInv, HandlerInv
<1>10. ASSUME CqEvent PROVE CommandExclusive'
  BY <1>10, NullReq DEF CqEvent, CommandExclusive, Owns, HandlerOwns, InFlight, ContextInv, HandlerInv
<1>11. ASSUME PollEmpty PROVE CommandExclusive'
  BY <1>11, NullReq DEF PollEmpty, CommandExclusive, Owns, HandlerOwns, InFlight, ContextInv, HandlerInv
<1>12. ASSUME NEW c \in Cmd, PollCq(c) PROVE CommandExclusive'
  BY <1>12, NullReq DEF PollCq, CommandExclusive, Owns, HandlerOwns, InFlight, ContextInv, HandlerInv
<1>13. ASSUME NEW c \in Cmd, PollBadStatus(c) PROVE CommandExclusive'
  BY <1>13, NullReq DEF PollBadStatus, Fault, Err, CommandExclusive, Owns, HandlerOwns, InFlight, ContextInv, HandlerInv
<1>14. ASSUME ReadLeavesOutBio PROVE CommandExclusive'
  BY <1>14, NullReq DEF ReadLeavesOutBio, Fault, Err, CommandExclusive, Owns, HandlerOwns, InFlight, ContextInv, HandlerInv
<1>15. ASSUME EndRequest PROVE CommandExclusive'
  BY <1>15, NullReq DEF EndRequest, CommandExclusive, Owns, HandlerOwns, InFlight, ContextInv, HandlerInv
<1>16. ASSUME FreeState PROVE CommandExclusive'
  BY <1>16, NullReq DEF FreeState, CommandExclusive, Owns, HandlerOwns, InFlight, ContextInv, HandlerInv
<1>17. ASSUME FreeIoRq PROVE CommandExclusive'
  BY <1>17, NullReq DEF FreeIoRq, CommandExclusive, Owns, HandlerOwns, InFlight, ContextInv, HandlerInv
<1>18. ASSUME CollectReturns PROVE CommandExclusive'
  BY <1>18, NullReq DEF CollectReturns, CommandExclusive, Owns, HandlerOwns, InFlight, ContextInv, HandlerInv
<1> QED
  BY <1>1, <1>2, <1>3, <1>4, <1>5, <1>6, <1>7, <1>8, <1>9, <1>10, <1>11, <1>12, <1>13, <1>14, <1>15, <1>16, <1>17, <1>18 DEF Next, Submit, Handler

(* No step lets a command in flight, or the handler, hold a request other  *)
(* than the one its transfer was posted for.                               *)
LEMMA StepEndsOwnRequest == IInv /\ Next => EndsOwnRequest'
<1> SUFFICES ASSUME IInv, Next PROVE EndsOwnRequest'
  OBVIOUS
<1> USE DEF IInv, TypeOK, cmdVars, wireVars, rqVars, ctxVars, cqVars
<1>1. ASSUME NEW s \in Contexts, NEW r \in Req, NEW d \in {"READ", "WRITE"}, QueueRq(s, r, d) PROVE EndsOwnRequest'
  BY <1>1, NullReq DEF QueueRq, EndsOwnRequest, InFlight, Owns, CommandExclusive, HandlerOwns, ContextInv, HandlerInv
<1>2. ASSUME NEW s \in Contexts, ChunkMapped(s) PROVE EndsOwnRequest'
  BY <1>2, NullReq DEF ChunkMapped, EndsOwnRequest, InFlight, Owns, CommandExclusive, HandlerOwns, ContextInv, HandlerInv
<1>3. ASSUME NEW s \in Contexts, ChunkNotMapped(s) PROVE EndsOwnRequest'
  BY <1>3, NullReq DEF ChunkNotMapped, Fault, EndsOwnRequest, InFlight, Owns, CommandExclusive, HandlerOwns, ContextInv, HandlerInv
<1>4. ASSUME NEW s \in Contexts, Probe(s) PROVE EndsOwnRequest'
  BY <1>4, NullReq DEF Probe, EndsOwnRequest, InFlight, Owns, CommandExclusive, HandlerOwns, ContextInv, HandlerInv
<1>5. ASSUME NEW s \in Contexts, Fill(s) PROVE EndsOwnRequest'
  BY <1>5, NullReq DEF Fill, EndsOwnRequest, InFlight, Owns, CommandExclusive, HandlerOwns, ContextInv, HandlerInv
<1>6. ASSUME NEW s \in Contexts, PostSend(s) PROVE EndsOwnRequest'
  BY <1>6, NullReq DEF PostSend, EndsOwnRequest, InFlight, Owns, CommandExclusive, HandlerOwns, ContextInv, HandlerInv
<1>7. ASSUME NEW s \in Contexts, PostSendFails(s) PROVE EndsOwnRequest'
  BY <1>7, NullReq DEF PostSendFails, Fault, EndsOwnRequest, InFlight, Owns, CommandExclusive, HandlerOwns, ContextInv, HandlerInv
<1>8. ASSUME NEW s \in Contexts, QueueRqError(s) PROVE EndsOwnRequest'
  BY <1>8, NullReq DEF QueueRqError, EndsOwnRequest, InFlight, Owns, CommandExclusive, HandlerOwns, ContextInv, HandlerInv
<1>9. ASSUME NEW c \in Cmd, Complete(c) PROVE EndsOwnRequest'
  BY <1>9, NullReq DEF Complete, EndsOwnRequest, InFlight, Owns, CommandExclusive, HandlerOwns, ContextInv, HandlerInv
<1>10. ASSUME CqEvent PROVE EndsOwnRequest'
  BY <1>10, NullReq DEF CqEvent, EndsOwnRequest, InFlight, Owns, CommandExclusive, HandlerOwns, ContextInv, HandlerInv
<1>11. ASSUME PollEmpty PROVE EndsOwnRequest'
  BY <1>11, NullReq DEF PollEmpty, EndsOwnRequest, InFlight, Owns, CommandExclusive, HandlerOwns, ContextInv, HandlerInv
<1>12. ASSUME NEW c \in Cmd, PollCq(c) PROVE EndsOwnRequest'
  BY <1>12, NullReq DEF PollCq, EndsOwnRequest, InFlight, Owns, CommandExclusive, HandlerOwns, ContextInv, HandlerInv
<1>13. ASSUME NEW c \in Cmd, PollBadStatus(c) PROVE EndsOwnRequest'
  BY <1>13, NullReq DEF PollBadStatus, Fault, Err, EndsOwnRequest, InFlight, Owns, CommandExclusive, HandlerOwns, ContextInv, HandlerInv
<1>14. ASSUME ReadLeavesOutBio PROVE EndsOwnRequest'
  BY <1>14, NullReq DEF ReadLeavesOutBio, Fault, Err, EndsOwnRequest, InFlight, Owns, CommandExclusive, HandlerOwns, ContextInv, HandlerInv
<1>15. ASSUME EndRequest PROVE EndsOwnRequest'
  BY <1>15, NullReq DEF EndRequest, EndsOwnRequest, InFlight, Owns, CommandExclusive, HandlerOwns, ContextInv, HandlerInv
<1>16. ASSUME FreeState PROVE EndsOwnRequest'
  BY <1>16, NullReq DEF FreeState, EndsOwnRequest, InFlight, Owns, CommandExclusive, HandlerOwns, ContextInv, HandlerInv
<1>17. ASSUME FreeIoRq PROVE EndsOwnRequest'
  BY <1>17, NullReq DEF FreeIoRq, EndsOwnRequest, InFlight, Owns, CommandExclusive, HandlerOwns, ContextInv, HandlerInv
<1>18. ASSUME CollectReturns PROVE EndsOwnRequest'
  BY <1>18, NullReq DEF CollectReturns, EndsOwnRequest, InFlight, Owns, CommandExclusive, HandlerOwns, ContextInv, HandlerInv
<1> QED
  BY <1>1, <1>2, <1>3, <1>4, <1>5, <1>6, <1>7, <1>8, <1>9, <1>10, <1>11, <1>12, <1>13, <1>14, <1>15, <1>16, <1>17, <1>18 DEF Next, Submit, Handler

(* A context keeps its own started request until it posts or fails.        *)
LEMMA StepContextInv == IInv /\ Next => ContextInv'
<1> SUFFICES ASSUME IInv, Next PROVE ContextInv'
  OBVIOUS
<1> USE DEF IInv, TypeOK, cmdVars, wireVars, rqVars, ctxVars, cqVars
<1>1. ASSUME NEW s \in Contexts, NEW r \in Req, NEW d \in {"READ", "WRITE"}, QueueRq(s, r, d) PROVE ContextInv'
  BY <1>1, NullReq DEF QueueRq, ContextInv, EndsOwnRequest, InFlight, HandlerInv
<1>2. ASSUME NEW s \in Contexts, ChunkMapped(s) PROVE ContextInv'
  <2>1. <<rq[s][1], 0>> \in Cmd
    BY <1>2 DEF ContextInv, ChunkMapped, Req, Cmd, Slot
  <2> QED
    BY <1>2, <2>1 DEF ContextInv, ChunkMapped
<1>3. ASSUME NEW s \in Contexts, ChunkNotMapped(s) PROVE ContextInv'
  BY <1>3, NullReq DEF ChunkNotMapped, Fault, ContextInv, EndsOwnRequest, InFlight, HandlerInv
<1>4. ASSUME NEW s \in Contexts, Probe(s) PROVE ContextInv'
  <2>1. cmd[s] \in Cmd
    BY <1>4 DEF ContextInv, Probe
  <2>2. NextCmd(cmd[s]) \in Cmd
    BY <2>1, NextCmdType
  <2> QED
    BY <1>4, <2>1, <2>2 DEF ContextInv, Probe
<1>5. ASSUME NEW s \in Contexts, Fill(s) PROVE ContextInv'
  BY <1>5, NullReq DEF Fill, ContextInv, CommandExclusive, Owns
<1>6. ASSUME NEW s \in Contexts, PostSend(s) PROVE ContextInv'
  BY <1>6, NullReq DEF PostSend, ContextInv, EndsOwnRequest, InFlight, HandlerInv
<1>7. ASSUME NEW s \in Contexts, PostSendFails(s) PROVE ContextInv'
  BY <1>7, NullReq DEF PostSendFails, Fault, ContextInv, EndsOwnRequest, InFlight, HandlerInv
<1>8. ASSUME NEW s \in Contexts, QueueRqError(s) PROVE ContextInv'
  BY <1>8, NullReq DEF QueueRqError, ContextInv, EndsOwnRequest, InFlight, HandlerInv
<1>9. ASSUME NEW c \in Cmd, Complete(c) PROVE ContextInv'
  BY <1>9, NullReq DEF Complete, ContextInv, EndsOwnRequest, InFlight, HandlerInv
<1>10. ASSUME CqEvent PROVE ContextInv'
  BY <1>10, NullReq DEF CqEvent, ContextInv, EndsOwnRequest, InFlight, HandlerInv
<1>11. ASSUME PollEmpty PROVE ContextInv'
  BY <1>11, NullReq DEF PollEmpty, ContextInv, EndsOwnRequest, InFlight, HandlerInv
<1>12. ASSUME NEW c \in Cmd, PollCq(c) PROVE ContextInv'
  BY <1>12, NullReq DEF PollCq, ContextInv, EndsOwnRequest, InFlight, HandlerInv
<1>13. ASSUME NEW c \in Cmd, PollBadStatus(c) PROVE ContextInv'
  BY <1>13, NullReq DEF PollBadStatus, Fault, Err, ContextInv, EndsOwnRequest, InFlight, HandlerInv
<1>14. ASSUME ReadLeavesOutBio PROVE ContextInv'
  BY <1>14, NullReq DEF ReadLeavesOutBio, Fault, Err, ContextInv, EndsOwnRequest, InFlight, HandlerInv
<1>15. ASSUME EndRequest PROVE ContextInv'
  BY <1>15, NullReq DEF EndRequest, ContextInv, EndsOwnRequest, InFlight, HandlerInv
<1>16. ASSUME FreeState PROVE ContextInv'
  BY <1>16, NullReq DEF FreeState, ContextInv, EndsOwnRequest, InFlight, HandlerInv
<1>17. ASSUME FreeIoRq PROVE ContextInv'
  BY <1>17, NullReq DEF FreeIoRq, ContextInv, EndsOwnRequest, InFlight, HandlerInv
<1>18. ASSUME CollectReturns PROVE ContextInv'
  BY <1>18, NullReq DEF CollectReturns, ContextInv, EndsOwnRequest, InFlight, HandlerInv
<1> QED
  BY <1>1, <1>2, <1>3, <1>4, <1>5, <1>6, <1>7, <1>8, <1>9, <1>10, <1>11, <1>12, <1>13, <1>14, <1>15, <1>16, <1>17, <1>18 DEF Next, Submit, Handler

(* The handler keeps its command taken, and re-arms before it drains.      *)
LEMMA StepHandlerInv == IInv /\ Next => HandlerInv'
<1> SUFFICES ASSUME IInv, Next PROVE HandlerInv'
  OBVIOUS
<1> USE DEF IInv, TypeOK, cmdVars, wireVars, rqVars, ctxVars, cqVars
<1>1. ASSUME NEW s \in Contexts, NEW r \in Req, NEW d \in {"READ", "WRITE"}, QueueRq(s, r, d) PROVE HandlerInv'
  BY <1>1, NullReq DEF QueueRq, HandlerInv, CommandExclusive, Owns, HandlerOwns, InFlight, ContextInv
<1>2. ASSUME NEW s \in Contexts, ChunkMapped(s) PROVE HandlerInv'
  BY <1>2, NullReq DEF ChunkMapped, HandlerInv, CommandExclusive, Owns, HandlerOwns, InFlight, ContextInv
<1>3. ASSUME NEW s \in Contexts, ChunkNotMapped(s) PROVE HandlerInv'
  BY <1>3, NullReq DEF ChunkNotMapped, Fault, HandlerInv, CommandExclusive, Owns, HandlerOwns, InFlight, ContextInv
<1>4. ASSUME NEW s \in Contexts, Probe(s) PROVE HandlerInv'
  BY <1>4, NullReq DEF Probe, HandlerInv, CommandExclusive, Owns, HandlerOwns, InFlight, ContextInv
<1>5. ASSUME NEW s \in Contexts, Fill(s) PROVE HandlerInv'
  BY <1>5, NullReq DEF Fill, HandlerInv, CommandExclusive, Owns, HandlerOwns, InFlight, ContextInv
<1>6. ASSUME NEW s \in Contexts, PostSend(s) PROVE HandlerInv'
  BY <1>6, NullReq DEF PostSend, HandlerInv, CommandExclusive, Owns, HandlerOwns, InFlight, ContextInv
<1>7. ASSUME NEW s \in Contexts, PostSendFails(s) PROVE HandlerInv'
  BY <1>7, NullReq DEF PostSendFails, Fault, HandlerInv, CommandExclusive, Owns, HandlerOwns, InFlight, ContextInv
<1>8. ASSUME NEW s \in Contexts, QueueRqError(s) PROVE HandlerInv'
  BY <1>8, NullReq DEF QueueRqError, HandlerInv, CommandExclusive, Owns, HandlerOwns, InFlight, ContextInv
<1>9. ASSUME NEW c \in Cmd, Complete(c) PROVE HandlerInv'
  BY <1>9, NullReq DEF Complete, HandlerInv, CommandExclusive, Owns, HandlerOwns, InFlight, ContextInv
<1>10. ASSUME CqEvent PROVE HandlerInv'
  BY <1>10, NullReq DEF CqEvent, HandlerInv, CommandExclusive, Owns, HandlerOwns, InFlight, ContextInv
<1>11. ASSUME PollEmpty PROVE HandlerInv'
  BY <1>11, NullReq DEF PollEmpty, HandlerInv, CommandExclusive, Owns, HandlerOwns, InFlight, ContextInv
<1>12. ASSUME NEW c \in Cmd, PollCq(c) PROVE HandlerInv'
  BY <1>12, NullReq DEF PollCq, HandlerInv, CommandExclusive, Owns, HandlerOwns, InFlight, ContextInv
<1>13. ASSUME NEW c \in Cmd, PollBadStatus(c) PROVE HandlerInv'
  BY <1>13, NullReq DEF PollBadStatus, Fault, Err, HandlerInv, CommandExclusive, Owns, HandlerOwns, InFlight, ContextInv
<1>14. ASSUME ReadLeavesOutBio PROVE HandlerInv'
  BY <1>14, NullReq DEF ReadLeavesOutBio, Fault, Err, HandlerInv, CommandExclusive, Owns, HandlerOwns, InFlight, ContextInv
<1>15. ASSUME EndRequest PROVE HandlerInv'
  BY <1>15, NullReq DEF EndRequest, HandlerInv, CommandExclusive, Owns, HandlerOwns, InFlight, ContextInv
<1>16. ASSUME FreeState PROVE HandlerInv'
  BY <1>16, NullReq DEF FreeState, HandlerInv, CommandExclusive, Owns, HandlerOwns, InFlight, ContextInv
<1>17. ASSUME FreeIoRq PROVE HandlerInv'
  BY <1>17, NullReq DEF FreeIoRq, HandlerInv, CommandExclusive, Owns, HandlerOwns, InFlight, ContextInv
<1>18. ASSUME CollectReturns PROVE HandlerInv'
  BY <1>18, NullReq DEF CollectReturns, HandlerInv, CommandExclusive, Owns, HandlerOwns, InFlight, ContextInv
<1> QED
  BY <1>1, <1>2, <1>3, <1>4, <1>5, <1>6, <1>7, <1>8, <1>9, <1>10, <1>11, <1>12, <1>13, <1>14, <1>15, <1>16, <1>17, <1>18 DEF Next, Submit, Handler

\* IInv is inductive: every step of the system, and stuttering, preserves it.
LEMMA NextInv == IInv /\ [Next]_vars => IInv'
<1> SUFFICES ASSUME IInv, [Next]_vars PROVE IInv'
  OBVIOUS
<1>1. CASE Next
  BY <1>1, StepType, StepCommandExclusive, StepEndsOwnRequest, StepContextInv, StepHandlerInv
  DEF IInv
<1>2. CASE UNCHANGED vars
  BY <1>2 DEF vars, cmdVars, wireVars, rqVars, ctxVars, cqVars, IInv, TypeOK, CommandExclusive,
    EndsOwnRequest, ContextInv, HandlerInv, Owns, HandlerOwns, InFlight
<1> QED
  BY <1>1, <1>2

\* The strengthening holds in every reachable state.
THEOREM Invariance == Spec => []IInv
BY InitInv, NextInv, PTL DEF Spec

(***************************************************************************)
(* The variables of the data path keep their types: the search index of    *)
(* get_a_free_rdma_cmd_from_rdma_q never leaves the command list.          *)
(***************************************************************************)
THEOREM TypeCorrect == Spec => []TypeOK
<1>1. IInv => TypeOK
  BY DEF IInv
<1> QED
  BY <1>1, Invariance, PTL

(***************************************************************************)
(* A command has one user at a time, for any number of queues, commands    *)
(* and contexts, although it is freed without the lock.                    *)
(***************************************************************************)
THEOREM CommandSafety == Spec => []CommandExclusive
<1>1. IInv => CommandExclusive
  BY DEF IInv
<1> QED
  BY <1>1, Invariance, PTL

(***************************************************************************)
(* rdma_read_done and rdma_write_done end the request whose transfer       *)
(* completed, and end it once.                                             *)
(***************************************************************************)
THEOREM RequestSafety == Spec => []EndsOwnRequest
<1>1. IInv => EndsOwnRequest
  BY DEF IInv
<1> QED
  BY <1>1, Invariance, PTL

(***************************************************************************)
(* octopus_cq_event_handler never returns with a completion left that no   *)
(* event announces, unless the session has failed.                         *)
(***************************************************************************)
THEOREM CompletionSafety == Spec => []NoStrandedCompletion
<1>1. IInv => NoStrandedCompletion
  BY DEF IInv, TypeOK, HandlerInv, NoStrandedCompletion
<1> QED
  BY <1>1, Invariance, PTL
=============================================================================
