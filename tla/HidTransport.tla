---------------------------- MODULE HidTransport ----------------------------
(***************************************************************************)
(* The HID transport of the driver extension                               *)
(* (dext/MaschineMk3Dext/MaschineMk3HidTransport.cpp): the pool of OUT     *)
(* slots, claimed and released by atomic operations on one mask, the IN    *)
(* read that its own completion requeues, Stop, and the user clients that  *)
(* attach and detach.  The USB stack that completes the transfers is       *)
(* external.                                                               *)
(*                                                                         *)
(* Each operation on the mask is a step: submissions, which are calls of   *)
(* the user clients (SubmitHidOut is LOCALONLY), interleave with each      *)
(* other and with everything else.  Stop and the completions do not        *)
(* interleave: neither .iig file names another queue for them (QUEUENAME), *)
(* so that DriverKit runs both on the default queue of the service.        *)
(***************************************************************************)
EXTENDS Naturals

CONSTANTS Callers,        \* submissions under way at the same time
          Clients,        \* user client objects
          NoClient,       \* the null pointer
          Slots,          \* the OUT slots, 0 .. MASCHINE_HID_OUT_RING_DEPTH - 1
          SEQ_WRAP        \* values of the sequence counter (2^32)

ASSUME HidAssumption ==
  /\ Slots \subseteq Nat /\ SEQ_WRAP \in Nat \ {0} /\ NoClient \notin Clients

VARIABLES
  running,      \* the pipes are open: Start succeeded, Stop did not begin
  outSlotFree,  \* the slots whose bit is set in the mask
  pc,           \* pc[c]: "idle", "claiming" or "filling"
  cur,          \* cur[c]: the mask as the submission last saw it
  held,         \* held[c]: the slot claimed and not passed on, at most one
  flying,       \* slots whose transfer the USB stack has
  reads,        \* IN transfers the USB stack has
  seqCounter,   \* reports received
  userClient,   \* the client that IN reports are delivered to
  live          \* clients between their Start and their Stop

outVars == <<outSlotFree, pc, cur, held, flying>>
inVars == <<reads, seqCounter>>
clientVars == <<userClient, live>>
vars == <<running, outVars, inVars, clientVars>>

\* Start succeeded: all slots are free and the first IN read is under way.
Init ==
  /\ running = TRUE
  /\ outSlotFree = Slots
  /\ pc = [c \in Callers |-> "idle"]
  /\ cur = [c \in Callers |-> {}]
  /\ held = [c \in Callers |-> {}]
  /\ flying = {}
  /\ reads = 1
  /\ seqCounter = 0
  /\ userClient = NoClient
  /\ live = {}

----------------------------------------------------------------------------
\* SubmitHidOut

\* claim_out_slot: the mask is loaded.
Load(c) ==
  /\ pc[c] = "idle"
  /\ running
  /\ cur' = [cur EXCEPT ![c] = outSlotFree]
  /\ pc' = [pc EXCEPT ![c] = "claiming"]
  /\ UNCHANGED <<running, outSlotFree, held, flying, inVars, clientVars>>

\* Mutant of Claim: a load and a store for the compare and exchange.
ClaimStores(c) ==
  /\ pc[c] = "claiming"
  /\ \E s \in cur[c] :
       /\ \A t \in cur[c] : s <= t
       /\ outSlotFree' = cur[c] \ {s}
       /\ held' = [held EXCEPT ![c] = {s}]
  /\ cur' = [cur EXCEPT ![c] = {}]
  /\ pc' = [pc EXCEPT ![c] = "filling"]
  /\ UNCHANGED <<running, flying, inVars, clientVars>>

\* The exchange succeeds: the lowest free slot is the caller's.
Claim(c) ==
  /\ pc[c] = "claiming"
  /\ cur[c] = outSlotFree
  /\ \E s \in cur[c] :
       /\ \A t \in cur[c] : s <= t
       /\ outSlotFree' = cur[c] \ {s}
       /\ held' = [held EXCEPT ![c] = {s}]
  /\ cur' = [cur EXCEPT ![c] = {}]
  /\ pc' = [pc EXCEPT ![c] = "filling"]
  /\ UNCHANGED <<running, flying, inVars, clientVars>>

\* It fails, another having changed the mask or, being the weak one, without
\* reason: the mask is seen anew.
Retry(c) ==
  /\ pc[c] = "claiming"
  /\ cur[c] # {}
  /\ cur' = [cur EXCEPT ![c] = outSlotFree]
  /\ UNCHANGED <<running, outSlotFree, pc, held, flying, inVars, clientVars>>

\* No slot: kIOReturnNoResources.
Full(c) ==
  /\ pc[c] = "claiming"
  /\ cur[c] = {}
  /\ pc' = [pc EXCEPT ![c] = "idle"]
  /\ UNCHANGED <<running, outSlotFree, cur, held, flying, inVars, clientVars>>

\* AsyncIO takes the transfer.  The pipe is not looked at again: where Stop has
\* released it since, see Crash.
Transfer(c) ==
  /\ pc[c] = "filling"
  /\ running
  /\ flying' = flying \cup held[c]
  /\ held' = [held EXCEPT ![c] = {}]
  /\ pc' = [pc EXCEPT ![c] = "idle"]
  /\ UNCHANGED <<running, outSlotFree, cur, inVars, clientVars>>

\* The buffer is gone or without address, or AsyncIO refuses: the slot is
\* released.
Abandon(c) ==
  /\ pc[c] = "filling"
  /\ outSlotFree' = outSlotFree \cup held[c]
  /\ held' = [held EXCEPT ![c] = {}]
  /\ pc' = [pc EXCEPT ![c] = "idle"]
  /\ UNCHANGED <<running, cur, flying, inVars, clientVars>>

\* The pipe or the buffer was released under the submission: the call goes
\* through a null or a freed pointer, and the driver's process ends.
Crash ==
  /\ ~running
  /\ \E c \in Callers : pc[c] = "filling"
  /\ outSlotFree' = Slots
  /\ pc' = [c \in Callers |-> "idle"]
  /\ cur' = [c \in Callers |-> {}]
  /\ held' = [c \in Callers |-> {}]
  /\ flying' = {} /\ reads' = 0
  /\ userClient' = NoClient /\ live' = {}
  /\ UNCHANGED <<running, seqCounter>>

\* HandleHidOutComplete, whatever the status: it finds the slot in the storage
\* that Start had made with the action, so that GetReference() is not null.
OutComplete(s) ==
  /\ s \in flying
  /\ flying' = flying \ {s}
  /\ outSlotFree' = outSlotFree \cup {s}
  /\ UNCHANGED <<running, pc, cur, held, inVars, clientVars>>

----------------------------------------------------------------------------
\* HandleHidInComplete

\* Mutant of Requeue: a read whose stall was cleared is queued once more.
RequeueTwice == reads' \in {reads, reads + 1}

\* Mutant of Requeue: whether the transport was stopped is not asked.
RequeueAlways == reads' \in {reads, reads - 1}

\* The read is queued again unless the transport was stopped; AsyncIO may
\* refuse it, which is only logged.
Requeue == reads' \in (IF running THEN {reads, reads - 1} ELSE {reads - 1})

\* The status was kIOReturnAborted.
InAborted ==
  /\ reads > 0
  /\ reads' = reads - 1
  /\ UNCHANGED <<running, outVars, seqCounter, clientVars>>

\* Any other: a stall is cleared, a report counted and delivered.
InComplete ==
  /\ reads > 0
  /\ seqCounter' \in {seqCounter, (seqCounter + 1) % SEQ_WRAP}
  /\ Requeue
  /\ UNCHANGED <<running, outVars, clientVars>>

----------------------------------------------------------------------------
\* Stop, and the user clients

\* The step is the release of the pipes.  What Abort ends before it may end at
\* any time here; a transfer handed over after Abort ends with Close.
Stop ==
  /\ running
  /\ running' = FALSE
  /\ UNCHANGED <<outVars, inVars, clientVars>>

\* MaschineMk3UserClient::Start attaches, whoever was attached before.
ClientStart(k) ==
  /\ running
  /\ k \notin live
  /\ live' = live \cup {k}
  /\ userClient' = k
  /\ UNCHANGED <<running, outVars, inVars>>

\* Mutant of DetachClient: the pointer is left.
DetachLeaves(k) == userClient' = userClient

DetachClient(k) == userClient' = IF userClient = k THEN NoClient ELSE userClient

\* MaschineMk3UserClient::Stop
ClientStop(k) ==
  /\ k \in live
  /\ live' = live \ {k}
  /\ DetachClient(k)
  /\ UNCHANGED <<running, outVars, inVars>>

Submit(c) ==
  Load(c) \/ Claim(c) \/ Retry(c) \/ Full(c) \/ Transfer(c) \/ Abandon(c)
Receive == InAborted \/ InComplete

Next ==
  \/ \E c \in Callers : Submit(c)
  \/ Crash
  \/ \E s \in Slots : OutComplete(s)
  \/ Receive
  \/ Stop
  \/ \E k \in Clients : ClientStart(k) \/ ClientStop(k)

Spec == Init /\ [][Next]_vars

\* Stop aborts both pipes: the USB stack then completes what it has.  Before,
\* an IN read may wait for the user for ever.
Fairness ==
  /\ \A s \in Slots : WF_vars(~running /\ OutComplete(s))
  /\ WF_vars(~running /\ Receive)
  /\ \A c \in Callers : WF_vars(Full(c) \/ Transfer(c) \/ Abandon(c))

FairSpec == Spec /\ Fairness

----------------------------------------------------------------------------

TypeOK ==
  /\ running \in BOOLEAN
  /\ outSlotFree \subseteq Slots /\ flying \subseteq Slots
  /\ pc \in [Callers -> {"idle", "claiming", "filling"}]
  /\ cur \in [Callers -> SUBSET Slots]
  /\ held \in [Callers -> SUBSET Slots]
  /\ reads \in 0..1
  /\ seqCounter \in 0..SEQ_WRAP-1
  /\ userClient \in Clients \cup {NoClient}
  /\ live \subseteq Clients

\* Each slot is in exactly one place: free, with one submission that fills
\* its buffer, or in flight.  No report is written over one that the
\* controller is still sending, and no slot is lost, whatever fails, however
\* the exchanges on the mask interleave with completions, and across Stop.
SlotsPartition ==
  /\ outSlotFree \cap flying = {}
  /\ \A c \in Callers : held[c] \cap (outSlotFree \cup flying) = {}
  /\ \A c, d \in Callers : c # d => held[c] \cap held[d] = {}
  /\ \A s \in Slots :
       s \in outSlotFree \cup flying \/ \E c \in Callers : s \in held[c]

\* IN reports are never delivered to a client that was stopped, though one
\* client replaces the other without its knowledge.
NoDanglingClient == userClient \in live \cup {NoClient}

\* After Stop nothing stays with the USB stack: the read is not queued again
\* behind Stop's back.
StopDrains == ~running ~> flying = {} /\ reads = 0

\* A submission holds a slot only between its claim and its handing over.
HeldWhileFilling == \A c \in Callers : pc[c] # "filling" => held[c] = {}

\* The inductive invariant.  What a claim must not overwrite is what the
\* submission may hold already, hence the addition.
IInv == TypeOK /\ SlotsPartition /\ NoDanglingClient /\ HeldWhileFilling
=============================================================================
