---------------------------- MODULE DiskService ----------------------------
(***************************************************************************)
(* What a disk driver promises to the block layer, whatever it is made of: *)
(* the disk is open to requests only while what serves them exists, every  *)
(* request accepted is ended, and what serves requests is released only    *)
(* when the disk is closed and no request is left.  BlockDriver and        *)
(* OctopusDisk are compared with it.                                       *)
(***************************************************************************)
CONSTANT Requests

VARIABLES
  backed,  \* what serves requests exists
  open,    \* the block layer may send requests
  flight   \* requests accepted and not ended

vars == <<backed, open, flight>>

Init == ~backed /\ ~open /\ flight = {}

Provide == ~backed /\ backed' = TRUE /\ UNCHANGED <<open, flight>>

Open == backed /\ ~open /\ open' = TRUE /\ UNCHANGED <<backed, flight>>

Accept(r) == open /\ r \notin flight /\ flight' = flight \cup {r} /\ UNCHANGED <<backed, open>>

End(r) == backed /\ r \in flight /\ flight' = flight \ {r} /\ UNCHANGED <<backed, open>>

Close == open /\ open' = FALSE /\ UNCHANGED <<backed, flight>>

Release == backed /\ ~open /\ flight = {} /\ backed' = FALSE /\ UNCHANGED <<open, flight>>

Next == Provide \/ Open \/ Close \/ Release \/ \E r \in Requests : Accept(r) \/ End(r)

Spec == Init /\ [][Next]_vars

FairSpec == Spec /\ \A r \in Requests : WF_vars(End(r))
=============================================================================
