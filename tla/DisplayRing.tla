---------------------------- MODULE DisplayRing ----------------------------
(***************************************************************************)
(* The display transport of the driver extension                           *)
(* (dext/MaschineMk3Dext/MaschineMk3DisplayTransport.cpp): a ring of       *)
(* buffers that SubmitBulkOut fills and AsyncIOBundled sends, and whose    *)
(* bundled completions are told to the user client, frame by frame.  The   *)
(* USB stack, external, completes transfers in the order it took them.     *)
(*                                                                         *)
(* Clients come and go, and one may come before another has gone.          *)
(* Submissions are one at a time, as the method calls of the one client    *)
(* that submits; they interleave with completions at every point where the *)
(* ring lock is free.  A frame is known by its sequence number.            *)
(***************************************************************************)
EXTENDS Naturals, SequencesExt

CONSTANTS Depth,      \* MASCHINE_DISPLAY_RING_DEPTH (16)
          MaxFrames,  \* bound: frames submitted, numbered from 1
          Clients,    \* user clients of the transport
          NoClient    \* nullptr

ASSUME RingAssumption ==
  Depth \in Nat \ {0} /\ MaxFrames \in Nat /\ NoClient \notin Clients

VARIABLES
  running,   \* the pipe is open
  head,      \* next slot to submit
  inflight,  \* slots counted as in flight
  slotSeq,   \* slotSeq[s]: the frame the slot was reserved for
  buffer,    \* buffer[s]: the frame whose bytes are in the slot's buffer
  pc,        \* "idle", "reserved" or "filled": the submission
  slot,      \* the slot it reserved
  frames,    \* frames submitted so far
  wire,      \* transfers of the USB stack: slots in order, with their frames
  shown,     \* frames transferred, in order
  userClient,\* the client attached
  live,      \* clients started and not stopped
  registered,\* those with a callback
  teller,    \* the client that the completion handler found under the lock
  telling,   \* frames that it has yet to tell it, in order
  told,      \* frames told to a client, in order
  missed,    \* frames transferred that nobody was told of
  skipped    \* a reserved slot was passed over (see NoAddress)

ringVars == <<head, inflight, slotSeq>>
submitVars == <<buffer, pc, slot, frames, skipped>>
stackVars == <<wire, shown>>
connVars == <<userClient, live, registered>>
clientVars == <<connVars, teller, telling, told, missed>>
vars == <<running, ringVars, submitVars, stackVars, clientVars>>

Ring == 0..Depth-1

Init ==
  /\ running = TRUE
  /\ head = 0
  /\ inflight = 0
  /\ slotSeq = [s \in Ring |-> 0]
  /\ buffer = [s \in Ring |-> 0]
  /\ pc = "idle"
  /\ slot = 0
  /\ frames = 0
  /\ wire = <<>>
  /\ shown = <<>>
  /\ userClient = NoClient /\ live = {} /\ registered = {} /\ teller = NoClient
  /\ telling = <<>>
  /\ told = <<>>
  /\ missed = {}
  /\ skipped = FALSE

----------------------------------------------------------------------------
\* SubmitBulkOut

Advance == head' = (head + 1) % Depth

\* Mutant of HasRoom: the ring takes one frame more.
HasRoomForOneMore == inflight <= Depth

\* Otherwise kIOReturnNoResources.
HasRoom == inflight < Depth

\* Under the lock: a slot and its number are the submission's.
Reserve ==
  /\ pc = "idle"
  /\ running
  /\ frames < MaxFrames
  /\ HasRoom
  /\ frames' = frames + 1
  /\ slot' = head
  /\ Advance
  /\ inflight' = inflight + 1
  /\ slotSeq' = [slotSeq EXCEPT ![head] = frames + 1]
  /\ pc' = "reserved"
  /\ UNCHANGED <<running, buffer, skipped, stackVars, clientVars>>

\* The frame is copied into the slot's buffer.
Fill ==
  /\ pc = "reserved"
  /\ buffer' = [buffer EXCEPT ![slot] = frames]
  /\ pc' = "filled"
  /\ UNCHANGED <<running, ringVars, slot, frames, skipped, stackVars, clientVars>>

Uncount == inflight' = IF inflight > 0 THEN inflight - 1 ELSE 0

\* The slot's buffer is gone, or has no address: the slot is not counted any
\* more, and head stays past it.
NoAddress ==
  /\ pc = "reserved"
  /\ Uncount
  /\ pc' = "idle"
  /\ skipped' = TRUE
  /\ UNCHANGED <<running, head, slotSeq, buffer, slot, frames, stackVars,
                 clientVars>>

\* AsyncIOBundled takes the transfer.  With the pipe gone since the check, it
\* refuses or the process ends (see Crash).
Accept ==
  /\ pc = "filled"
  /\ running
  /\ wire' = Append(wire, [slot |-> slot, frame |-> frames])
  /\ pc' = "idle"
  /\ UNCHANGED <<running, ringVars, buffer, slot, frames, skipped, shown,
                 clientVars>>

\* Mutant of Rewind: the slot of the refused frame is passed over.
RewindNot == head' = head

\* "Rewind head so this slot can be reused"
Rewind == head' = slot

\* AsyncIOBundled refuses: the reservation is undone.
Refuse ==
  /\ pc = "filled"
  /\ Uncount
  /\ Rewind
  /\ pc' = "idle"
  /\ UNCHANGED <<running, slotSeq, buffer, slot, frames, skipped, stackVars,
                 clientVars>>

----------------------------------------------------------------------------
\* HandleBulkOutComplete

\* Mutant of Done: the slots are counted from one.
DoneOffByOne(count) == [i \in 1..count |-> slotSeq[(wire[1].slot + i) % Depth]]

\* The controller is done with a transfer: it has read what the buffer held.
\* A count of transfers, from the oldest on, is reported in one completion.
\* The handler finds their frames in the slots from the first one on.
Done(count) == [i \in 1..count |-> slotSeq[(wire[1].slot + i - 1) % Depth]]

\* Mutant of CountDown: one completion counts for one slot.
CountDownOnce(count) == Uncount

CountDown(count) == inflight' = IF inflight > count THEN inflight - count ELSE 0

\* Under the lock: the slots are counted down, their frames and the client are
\* noted.  The client is told after the lock is released; the handler is not
\* called again before it has returned.
Complete ==
  telling = <<>> /\ \E count \in 1..Len(wire) :
    /\ CountDown(count)
    /\ shown' = shown \o [i \in 1..count |-> buffer[wire[i].slot]]
    /\ wire' = SubSeq(wire, count + 1, Len(wire))
    /\ teller' = userClient
    /\ telling' = IF userClient = NoClient THEN <<>> ELSE Done(count)
    /\ missed' = IF userClient = NoClient THEN missed \cup Range(Done(count))
                 ELSE missed
    /\ UNCHANGED <<running, head, slotSeq, submitVars, connVars, told>>

\* DeliverDisplayDone, on the client found under the lock, whoever is attached
\* now: nothing is told if it has no callback, or has none left (see Crash).
Tell ==
  /\ telling # <<>>
  /\ telling' = Tail(telling)
  /\ teller' = IF Tail(telling) = <<>> THEN NoClient ELSE teller
  /\ \/ /\ teller \in registered
        /\ told' = Append(told, Head(telling))
        /\ UNCHANGED missed
     \/ /\ teller \notin registered
        /\ missed' = missed \cup {Head(telling)}
        /\ UNCHANGED told
  /\ UNCHANGED <<running, ringVars, submitVars, stackVars, connVars>>

----------------------------------------------------------------------------
\* The clients, Stop and the end of the process

\* The client takes the place of one that is still attached.
ClientStart(k) ==
  /\ running
  /\ k \notin live /\ k # teller
  /\ live' = live \cup {k}
  /\ userClient' = k
  /\ UNCHANGED <<running, ringVars, submitVars, stackVars, registered, teller,
                 telling, told, missed>>

Register(k) ==
  /\ k \in live \ registered
  /\ registered' = registered \cup {k}
  /\ UNCHANGED <<running, ringVars, submitVars, stackVars, userClient, live,
                 teller, telling, told, missed>>

DetachClient(k) == userClient' = IF userClient = k THEN NoClient ELSE userClient

\* The completion handler may have found it before, and calls it still.
ClientStop(k) ==
  /\ k \in live
  /\ DetachClient(k)
  /\ live' = live \ {k}
  /\ registered' = registered \ {k}
  /\ UNCHANGED <<running, ringVars, submitVars, stackVars, teller, telling, told,
                 missed>>

\* The transfers under way complete as aborted, which is told like any status.
Stop ==
  /\ running
  /\ running' = FALSE
  /\ UNCHANGED <<ringVars, submitVars, stackVars, clientVars>>

\* The driver's process ends on a pointer to what is gone, the pipe of a
\* submission or the client to be told, and with it go the ring and the clients.
\* The one that is started in its place begins at Init.
Crash ==
  /\ \/ ~running /\ pc # "idle"
     \/ telling # <<>> /\ teller \notin live
  /\ running' = FALSE
  /\ inflight' = 0 /\ pc' = "idle" /\ wire' = <<>>
  /\ userClient' = NoClient /\ live' = {} /\ registered' = {}
  /\ teller' = NoClient /\ telling' = <<>>
  /\ missed' = missed \cup Range(telling)
  /\ UNCHANGED <<head, slotSeq, buffer, slot, frames, skipped, shown, told>>

Next ==
  \/ Reserve \/ Fill \/ NoAddress \/ Accept \/ Refuse
  \/ Complete \/ Tell
  \/ \E k \in Clients : ClientStart(k) \/ Register(k) \/ ClientStop(k)
  \/ Stop \/ Crash

Spec == Init /\ [][Next]_vars

----------------------------------------------------------------------------

TypeOK ==
  /\ head \in Ring /\ slot \in Ring
  /\ inflight \in 0..Depth
  /\ slotSeq \in [Ring -> 0..MaxFrames] /\ buffer \in [Ring -> 0..MaxFrames]
  /\ pc \in {"idle", "reserved", "filled"}
  /\ frames \in 0..MaxFrames
  /\ wire \in Seq([slot : Ring, frame : 1..MaxFrames])
  /\ running \in BOOLEAN /\ skipped \in BOOLEAN
  /\ userClient \in live \cup {NoClient} /\ teller \in Clients \cup {NoClient}
  /\ live \subseteq Clients /\ registered \subseteq live

\* The count under the lock is the number of slots that are taken, so the
\* ring is refused exactly when it is full: no failure, at any point, leaves
\* a slot counted for ever or not counted.
CountExact == inflight = Len(wire) + IF pc = "idle" THEN 0 ELSE 1

\* Unless a slot was passed over for want of an address: the slots in flight
\* follow one another up to head, or up to the slot reserved, each holding
\* the bytes and the number of the frame it was submitted with.  A completion
\* can then find its frames by counting slots, and no buffer is filled while
\* the controller reads it.
RingHoldsFrames ==
  ~skipped =>
    LET end == IF pc = "idle" THEN head ELSE slot IN
    /\ Len(wire) < Depth \/ pc = "idle"
    /\ \A i \in DOMAIN wire :
         /\ wire[i].slot = (end + Depth - (Len(wire) + 1 - i)) % Depth
         /\ slotSeq[wire[i].slot] = wire[i].frame
         /\ buffer[wire[i].slot] = wire[i].frame

\* Clients are told of frames in the order in which they were submitted, each
\* once, and no frame that was transferred is lost track of: it is told, or
\* the handler has yet to tell it, or the client found was nobody, had no
\* callback or had stopped.
ToldInOrder ==
  ~skipped =>
    LET all == told \o telling IN
    /\ \A i, j \in DOMAIN all : i < j => all[i] < all[j]
    /\ Range(all) \cup missed = Range(shown)
    /\ Range(all) \cap missed = {}
=============================================================================
