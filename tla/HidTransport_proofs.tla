------------------------ MODULE HidTransport_proofs ------------------------
(***************************************************************************)
(* Proofs about HidTransport, for any number of slots, of submissions at   *)
(* the same time and of clients.                                           *)
(***************************************************************************)
EXTENDS HidTransport, TLAPS

\* The initial state: all slots are free.
LEMMA InitIInv == Init => IInv
<1> SUFFICES ASSUME Init PROVE IInv
  OBVIOUS
<1>1. 0 \in 0..SEQ_WRAP-1
  BY HidAssumption
<1>2. TypeOK
  BY <1>1 DEF Init, TypeOK
<1>3. SlotsPartition /\ NoDanglingClient /\ HeldWhileFilling
  BY DEF Init, SlotsPartition, NoDanglingClient, HeldWhileFilling
<1> QED BY <1>2, <1>3 DEF IInv

\* The exchange succeeds only on the mask that the submission saw, so the slot
\* it takes was free until then and is nobody else's afterwards.
LEMMA ClaimIInv ==
  ASSUME IInv, NEW c \in Callers, Claim(c)
  PROVE  IInv'
<1> USE DEF IInv, Claim, inVars, clientVars
<1>1. PICK s \in outSlotFree :
        /\ outSlotFree' = outSlotFree \ {s}
        /\ held' = [held EXCEPT ![c] = {s}]
  OBVIOUS
<1>2. s \in Slots /\ s \notin flying /\ \A d \in Callers : s \notin held[d]
  BY DEF TypeOK, SlotsPartition
<1>3. held[c] = {}
  BY DEF HeldWhileFilling
<1>4. TypeOK'
  BY <1>1 DEF TypeOK
<1>5. \A d \in Callers : held'[d] = IF d = c THEN {s} ELSE held[d]
  BY <1>1 DEF TypeOK
<1>6. SlotsPartition'
  <2>1. (outSlotFree \cap flying = {})'
    BY <1>1 DEF SlotsPartition
  <2>2. (\A d \in Callers : held[d] \cap (outSlotFree \cup flying) = {})'
    BY <1>1, <1>2, <1>5 DEF SlotsPartition
  <2>3. (\A d, e \in Callers : d # e => held[d] \cap held[e] = {})'
    BY <1>2, <1>5 DEF SlotsPartition
  <2>4. (\A t \in Slots : t \in outSlotFree \cup flying
                          \/ \E d \in Callers : t \in held[d])'
    BY <1>1, <1>3, <1>5 DEF SlotsPartition
  <2> QED BY <2>1, <2>2, <2>3, <2>4 DEF SlotsPartition
<1>7. NoDanglingClient' /\ HeldWhileFilling'
  BY <1>5 DEF NoDanglingClient, HeldWhileFilling, TypeOK
<1> QED BY <1>4, <1>6, <1>7

\* A slot that is filled is passed to the USB stack.
LEMMA TransferIInv ==
  ASSUME IInv, NEW c \in Callers, Transfer(c)
  PROVE  IInv'
<1> USE DEF IInv, Transfer, inVars, clientVars
<1>1. \A d \in Callers : held'[d] = IF d = c THEN {} ELSE held[d]
  BY DEF TypeOK
<1>2. TypeOK'
  BY DEF TypeOK
<1>3. SlotsPartition'
  <2>1. (outSlotFree \cap flying = {})'
    BY DEF SlotsPartition
  <2>2. (\A d \in Callers : held[d] \cap (outSlotFree \cup flying) = {})'
    BY <1>1 DEF SlotsPartition
  <2>3. (\A d, e \in Callers : d # e => held[d] \cap held[e] = {})'
    BY <1>1 DEF SlotsPartition
  <2>4. (\A t \in Slots : t \in outSlotFree \cup flying
                          \/ \E d \in Callers : t \in held[d])'
    BY <1>1 DEF SlotsPartition
  <2> QED BY <2>1, <2>2, <2>3, <2>4 DEF SlotsPartition
<1>4. NoDanglingClient' /\ HeldWhileFilling'
  BY <1>1 DEF NoDanglingClient, HeldWhileFilling, TypeOK
<1> QED BY <1>2, <1>3, <1>4

\* Or it is released, on each of the paths that fail.
LEMMA AbandonIInv ==
  ASSUME IInv, NEW c \in Callers, Abandon(c)
  PROVE  IInv'
<1> USE DEF IInv, Abandon, inVars, clientVars
<1>1. \A d \in Callers : held'[d] = IF d = c THEN {} ELSE held[d]
  BY DEF TypeOK
<1>2. TypeOK'
  BY DEF TypeOK
<1>3. SlotsPartition'
  <2>1. (outSlotFree \cap flying = {})'
    BY DEF SlotsPartition
  <2>2. (\A d \in Callers : held[d] \cap (outSlotFree \cup flying) = {})'
    BY <1>1 DEF SlotsPartition
  <2>3. (\A d, e \in Callers : d # e => held[d] \cap held[e] = {})'
    BY <1>1 DEF SlotsPartition
  <2>4. (\A t \in Slots : t \in outSlotFree \cup flying
                          \/ \E d \in Callers : t \in held[d])'
    BY <1>1 DEF SlotsPartition
  <2> QED BY <2>1, <2>2, <2>3, <2>4 DEF SlotsPartition
<1>4. NoDanglingClient' /\ HeldWhileFilling'
  BY <1>1 DEF NoDanglingClient, HeldWhileFilling, TypeOK
<1> QED BY <1>2, <1>3, <1>4

\* A completion returns the slot of its transfer.
LEMMA OutCompleteIInv ==
  ASSUME IInv, NEW s \in Slots, OutComplete(s)
  PROVE  IInv'
<1> USE DEF IInv, OutComplete, inVars, clientVars
<1>1. TypeOK'
  BY DEF TypeOK
<1>2. SlotsPartition'
  BY DEF SlotsPartition
<1>3. NoDanglingClient' /\ HeldWhileFilling'
  BY DEF NoDanglingClient, HeldWhileFilling
<1> QED BY <1>1, <1>2, <1>3

\* The steps of a submission that move no slot.
LEMMA LookIInv ==
  ASSUME IInv, NEW c \in Callers, Load(c) \/ Retry(c) \/ Full(c)
  PROVE  IInv'
<1> USE DEF IInv, Load, Retry, Full, inVars, clientVars
<1>1. TypeOK'
  BY DEF TypeOK
<1>2. SlotsPartition' /\ NoDanglingClient'
  BY DEF SlotsPartition, NoDanglingClient
<1>3. HeldWhileFilling'
  BY DEF HeldWhileFilling, TypeOK
<1> QED BY <1>1, <1>2, <1>3

\* The IN read completes: at most one read is with the USB stack.
LEMMA ReceiveIInv ==
  ASSUME IInv, Receive
  PROVE  IInv'
<1> USE DEF IInv, Receive, InAborted, InComplete, Requeue, outVars, clientVars
<1>1. reads = 1 /\ reads' \in 0..1
  BY DEF TypeOK
<1>2. seqCounter' \in 0..SEQ_WRAP-1
  BY HidAssumption DEF TypeOK
<1>3. TypeOK'
  BY <1>1, <1>2 DEF TypeOK
<1>4. SlotsPartition' /\ NoDanglingClient' /\ HeldWhileFilling'
  BY DEF SlotsPartition, NoDanglingClient, HeldWhileFilling
<1> QED BY <1>3, <1>4

\* Stop, and clients that come and go.
LEMMA LifecycleIInv ==
  ASSUME IInv, Stop \/ \E k \in Clients : ClientStart(k) \/ ClientStop(k)
  PROVE  IInv'
<1> USE DEF IInv, Stop, ClientStart, ClientStop, DetachClient, outVars, inVars,
            clientVars
<1>1. TypeOK'
  BY DEF TypeOK
<1>2. SlotsPartition' /\ HeldWhileFilling'
  BY DEF SlotsPartition, HeldWhileFilling
<1>3. NoDanglingClient'
  BY DEF NoDanglingClient
<1> QED BY <1>1, <1>2, <1>3

\* The process ends, and nothing is left in flight.
LEMMA CrashIInv ==
  ASSUME IInv, Crash
  PROVE  IInv'
<1> USE DEF IInv, Crash
<1>1. TypeOK'
  BY DEF TypeOK
<1>2. SlotsPartition' /\ NoDanglingClient' /\ HeldWhileFilling'
  BY DEF SlotsPartition, NoDanglingClient, HeldWhileFilling
<1> QED BY <1>1, <1>2

\* The inductive invariant holds in every reachable state.
THEOREM TransportInvariant == Spec => []IInv
<1>1. IInv /\ [Next]_vars => IInv'
  <2> SUFFICES ASSUME IInv, [Next]_vars PROVE IInv'
    OBVIOUS
  <2>1. ASSUME NEW c \in Callers, Submit(c) PROVE IInv'
    BY <2>1, ClaimIInv, TransferIInv, AbandonIInv, LookIInv DEF Submit
  <2>2. ASSUME NEW s \in Slots, OutComplete(s) PROVE IInv'
    BY <2>2, OutCompleteIInv
  <2>3. CASE UNCHANGED vars
    BY <2>3 DEF vars, outVars, inVars, clientVars, IInv, TypeOK, SlotsPartition,
                NoDanglingClient, HeldWhileFilling
  <2> QED BY <2>1, <2>2, <2>3, CrashIInv, ReceiveIInv, LifecycleIInv DEF Next
<1> QED BY InitIInv, <1>1, PTL DEF Spec

\* Type correctness; in particular at most one IN read is under way.
THEOREM TypeCorrect == Spec => []TypeOK
<1>1. IInv => TypeOK
  BY DEF IInv
<1> QED BY TransportInvariant, <1>1, PTL

\* No OUT slot is shared by two reports or lost: the mask, the submissions and
\* the USB stack partition the slots.
THEOREM NoSlotSharedOrLost == Spec => []SlotsPartition
<1>1. IInv => SlotsPartition
  BY DEF IInv
<1> QED BY TransportInvariant, <1>1, PTL

\* The transport never holds a client that was stopped.
THEOREM NeverDangles == Spec => []NoDanglingClient
<1>1. IInv => NoDanglingClient
  BY DEF IInv
<1> QED BY TransportInvariant, <1>1, PTL
=============================================================================
