------------------------- MODULE DisplayRing_proofs -------------------------
(***************************************************************************)
(* Proofs about DisplayRing, for a ring of any depth and any number of     *)
(* frames.                                                                 *)
(***************************************************************************)
EXTENDS DisplayRing, TLAPS

\* A reserved slot is that of a frame that was submitted.
ReservedForFrame == pc # "idle" => frames > 0

IInv == TypeOK /\ CountExact /\ ReservedForFrame

Transfers == [slot : Ring, frame : 1..MaxFrames]

----------------------------------------------------------------------------

\* Position of the next slot.
LEMMA NextSlot ==
  ASSUME NEW s \in Ring
  PROVE  (s + 1) % Depth \in Ring
BY RingAssumption DEF Ring

\* What a completion leaves of the transfers.
LEMMA RestOfWire ==
  ASSUME NEW S, NEW w \in Seq(S), NEW count \in 1..Len(w)
  PROVE  /\ SubSeq(w, count + 1, Len(w)) \in Seq(S)
         /\ Len(SubSeq(w, count + 1, Len(w))) = Len(w) - count
<1>1. Len(w) \in Nat /\ count \in Nat
  OBVIOUS
<1>2. \A i \in count + 1..Len(w) : w[i] \in S
  BY <1>1
<1> QED BY <1>1, <1>2

\* The ring is empty.
LEMMA InitIInv == Init => IInv
<1> SUFFICES ASSUME Init PROVE IInv
  OBVIOUS
<1> USE RingAssumption DEF Init
<1>1. Len(<<>>) = 0 /\ <<>> \in Seq(Transfers)
  OBVIOUS
<1>2. TypeOK
  BY <1>1 DEF TypeOK, Ring, Transfers
<1>3. CountExact /\ ReservedForFrame
  BY <1>1 DEF CountExact, ReservedForFrame
<1> QED BY <1>2, <1>3 DEF IInv

\* A submission counts its slot when it reserves it, and no more when it fails;
\* what it hands over stays counted.
LEMMA SubmitIInv ==
  ASSUME IInv, Reserve \/ Fill \/ NoAddress \/ Accept \/ Refuse
  PROVE  IInv'
<1> USE RingAssumption
    DEF IInv, ringVars, submitVars, stackVars, clientVars, connVars, CountExact,
        ReservedForFrame
<1>1. Len(wire) \in Nat /\ inflight \in Nat /\ frames \in Nat /\ head \in Ring
  BY DEF TypeOK
<1>2. CASE Reserve
  <2>1. head' \in Ring /\ slot' \in Ring
    BY <1>1, <1>2, NextSlot DEF Reserve, Advance
  <2>2. /\ frames' \in 0..MaxFrames /\ frames' > 0
        /\ inflight' = inflight + 1 /\ inflight' \in 0..Depth
    BY <1>1, <1>2 DEF Reserve, HasRoom, TypeOK
  <2>3. slotSeq' \in [Ring -> 0..MaxFrames]
    BY <1>1, <1>2, <2>2 DEF Reserve, TypeOK
  <2>4. /\ pc = "idle" /\ pc' = "reserved"
        /\ UNCHANGED <<running, buffer, skipped, wire, connVars, teller>>
    BY <1>2 DEF Reserve
  <2>5. TypeOK'
    BY <2>1, <2>2, <2>3, <2>4 DEF TypeOK
  <2> QED BY <1>1, <2>2, <2>4, <2>5
<1>3. CASE Fill
  <2>1. TypeOK'
    BY <1>3 DEF Fill, TypeOK
  <2> QED BY <1>3, <2>1 DEF Fill
<1>4. CASE NoAddress \/ Refuse
  <2>1. inflight = Len(wire) + 1 /\ inflight' = inflight - 1 /\ inflight' \in 0..Depth
    BY <1>1, <1>4 DEF NoAddress, Refuse, Uncount, TypeOK
  <2>2. /\ head' \in Ring /\ pc' = "idle" /\ skipped' \in BOOLEAN
        /\ UNCHANGED <<running, slotSeq, buffer, slot, frames, wire, connVars, teller>>
    BY <1>4 DEF NoAddress, Refuse, Rewind, TypeOK
  <2>3. TypeOK'
    BY <2>1, <2>2 DEF TypeOK
  <2> QED BY <1>1, <2>1, <2>2, <2>3
<1>5. CASE Accept
  <2> USE <1>5 DEF Accept
  <2>1. [slot |-> slot, frame |-> frames] \in Transfers
    BY <1>1 DEF TypeOK, Transfers
  <2>2. wire' \in Seq(Transfers) /\ Len(wire') = Len(wire) + 1
    BY <2>1 DEF TypeOK, Transfers
  <2>3. TypeOK'
    BY <2>2 DEF TypeOK, Transfers
  <2> QED BY <1>1, <2>2, <2>3
<1> QED BY <1>2, <1>3, <1>4, <1>5

\* A completion counts down as many slots as it has transfers.
LEMMA CompleteIInv ==
  ASSUME IInv, Complete
  PROVE  IInv'
<1> USE RingAssumption DEF IInv, submitVars, connVars, CountExact, ReservedForFrame
<1>1. PICK count \in 1..Len(wire) :
        /\ CountDown(count)
        /\ wire' = SubSeq(wire, count + 1, Len(wire))
        /\ teller' = userClient
        /\ UNCHANGED <<running, head, slotSeq, submitVars, connVars>>
  BY DEF Complete
<1>2. Len(wire) \in Nat /\ inflight \in Nat /\ count \in Nat /\ count <= Len(wire)
  BY DEF TypeOK
<1>3. wire' \in Seq(Transfers) /\ Len(wire') = Len(wire) - count
  BY <1>1, RestOfWire DEF TypeOK, Transfers
<1>4. inflight' = inflight - count /\ inflight' >= 0
  BY <1>1, <1>2 DEF CountDown
<1>5. inflight' \in 0..Depth
  <2>1. inflight \in 0..Depth /\ Depth \in Nat
    BY DEF TypeOK
  <2> HIDE DEF IInv, CountExact, ReservedForFrame
  <2> QED BY <1>2, <1>4, <2>1
<1>6. TypeOK'
  BY <1>1, <1>3, <1>5 DEF TypeOK, Transfers
<1>7. CountExact'
  <2>1. pc' = pc
    BY <1>1
  <2>2. CASE pc = "idle"
    BY <2>1, <2>2, <1>2, <1>3, <1>4
  <2>3. CASE pc # "idle"
    BY <2>1, <2>3, <1>2, <1>3, <1>4
  <2> QED BY <2>2, <2>3
<1> QED BY <1>1, <1>6, <1>7

\* A client is told, or comes and goes, and the pipe closes: no slot is touched.
LEMMA OtherIInv ==
  ASSUME IInv,
         \/ Tell \/ Stop \/ UNCHANGED vars
         \/ \E k \in Clients : ClientStart(k) \/ Register(k) \/ ClientStop(k)
  PROVE  IInv'
<1> USE DEF vars, ringVars, submitVars, stackVars, clientVars, connVars
<1>1. /\ UNCHANGED <<head, inflight, slotSeq, buffer, pc, slot, frames, wire, skipped>>
      /\ running' \in BOOLEAN
  BY DEF IInv, TypeOK, Tell, Stop, ClientStart, Register, ClientStop
<1>2. /\ userClient' \in live' \cup {NoClient} /\ teller' \in Clients \cup {NoClient}
      /\ live' \subseteq Clients /\ registered' \subseteq live'
  <2> USE DEF IInv, TypeOK
  <2>1. CASE Tell \/ Stop \/ UNCHANGED vars
    BY <2>1 DEF Tell, Stop
  <2>2. CASE \E k \in Clients : ClientStart(k) \/ Register(k)
    BY <2>2 DEF ClientStart, Register
  <2>3. CASE \E k \in Clients : ClientStop(k)
    BY <2>3 DEF ClientStop, DetachClient
  <2> QED BY <2>1, <2>2, <2>3
<1> QED BY <1>1, <1>2 DEF IInv, TypeOK, CountExact, ReservedForFrame

\* The process that ends leaves no slot counted.
LEMMA CrashIInv ==
  ASSUME IInv, Crash
  PROVE  IInv'
<1>1. /\ running' = FALSE /\ inflight' = 0 /\ pc' = "idle" /\ wire' = <<>>
      /\ userClient' = NoClient /\ live' = {} /\ registered' = {} /\ teller' = NoClient
      /\ UNCHANGED <<head, slotSeq, buffer, slot, frames, skipped>>
  BY DEF Crash
<1>2. Len(<<>>) = 0 /\ <<>> \in Seq(Transfers) /\ 0 \in 0..Depth
  BY RingAssumption
<1>3. TypeOK'
  BY <1>1, <1>2 DEF IInv, TypeOK, Transfers
<1> QED BY <1>1, <1>2, <1>3 DEF IInv, CountExact, ReservedForFrame

----------------------------------------------------------------------------

\* The count is exact in every state, for any interleaving of submission,
\* completion, Stop and the end of the process.
THEOREM RingInvariant == Spec => []IInv
<1>1. IInv /\ [Next]_vars => IInv'
  BY SubmitIInv, CompleteIInv, OtherIInv, CrashIInv DEF Next
<1> QED BY InitIInv, <1>1, PTL DEF Spec

\* Every variable keeps its type: no index leaves the ring.
THEOREM TypeCorrect == Spec => []TypeOK
<1>1. IInv => TypeOK
  BY DEF IInv
<1> QED BY RingInvariant, <1>1, PTL

\* No failure leaves a slot counted for ever or not counted.
THEOREM CountIsExact == Spec => []CountExact
<1>1. IInv => CountExact
  BY DEF IInv
<1> QED BY RingInvariant, <1>1, PTL

----------------------------------------------------------------------------
(* What the slots hold, and what the client is told.                       *)

\* The slot k places before slot e.
Back(e, k) == IF e >= k THEN e - k ELSE e + Depth - k

\* The next slot to be handed over.
End == IF pc = "idle" THEN head ELSE slot

\* A frame that is handed over, if ever, before the one being submitted.
Past(f) == f <= frames /\ (pc # "idle" => f < frames)

LogsTyped ==
  /\ shown \in Seq(Nat) /\ told \in Seq(Nat) /\ telling \in Seq(Nat)
  /\ missed \in SUBSET Nat

\* The slot reserved is free, just before head, and holds what the
\* submission has put there.
Submission ==
  pc # "idle" =>
    /\ Len(wire) < Depth
    /\ head = (slot + 1) % Depth
    /\ slotSeq[slot] = frames
    /\ pc = "filled" => buffer[slot] = frames

\* The i-th transfer is in its place and its slot holds its frame.
HoldsFrame(i) ==
  /\ wire[i].slot = Back(End, Len(wire) + 1 - i)
  /\ slotSeq[wire[i].slot] = wire[i].frame
  /\ buffer[wire[i].slot] = wire[i].frame

\* Frames are handed over in the order of their numbers.
WireInOrder ==
  /\ \A i, j \in DOMAIN wire : i < j => wire[i].frame < wire[j].frame
  /\ \A i \in DOMAIN wire : Past(wire[i].frame)

\* A frame transferred comes before those under way.
ShownBefore ==
  \A f \in Range(shown) : Past(f) /\ \A i \in DOMAIN wire : f < wire[i].frame

\* What was told and what is yet to be told, in order.
Noted == told \o telling

Told ==
  /\ \A i, j \in DOMAIN Noted : i < j => Noted[i] < Noted[j]
  /\ Range(Noted) \cup missed = Range(shown)
  /\ Range(Noted) \cap missed = {}

InPlace ==
  /\ Submission
  /\ \A i \in DOMAIN wire : HoldsFrame(i)
  /\ ShownBefore
  /\ Told

Frames == LogsTyped /\ WireInOrder /\ (~skipped => InPlace)

----------------------------------------------------------------------------

\* A place at most one turn ahead.
LEMMA OneTurn ==
  ASSUME NEW x \in Nat, x < 2 * Depth
  PROVE  /\ x < Depth => x % Depth = x
         /\ x >= Depth => x % Depth = x - Depth
<1>1. Depth \in Nat /\ Depth > 0
  BY RingAssumption
<1>2. CASE x < Depth
  BY <1>1, <1>2
<1>3. CASE x >= Depth
  <2> DEFINE y == x - Depth
  <2>1. y \in 0..Depth-1 /\ x = y + Depth
    BY <1>1, <1>3
  <2>2. (y + Depth) % Depth = y
    BY <1>1, <2>1
  <2> QED BY <1>1, <1>3, <2>1, <2>2
<1> QED BY <1>1, <1>2, <1>3

\* Going back stays in the ring, and is counting modulo its depth.
LEMMA BackInRing ==
  ASSUME NEW s \in Ring, NEW k \in 1..Depth
  PROVE  Back(s, k) \in Ring /\ (s + Depth - k) % Depth = Back(s, k)
<1>1. /\ Depth \in Nat /\ Depth > 0 /\ s \in Nat /\ s < Depth
      /\ k \in Nat /\ k > 0 /\ k <= Depth
  BY RingAssumption DEF Ring
<1>2. Back(s, k) \in Ring
  BY <1>1 DEF Back, Ring
<1> DEFINE x == s + Depth - k
<1>3. x \in Nat /\ x < 2 * Depth
  BY <1>1
<1>4. (x < Depth => x % Depth = x) /\ (x >= Depth => x % Depth = x - Depth)
  <2> HIDE DEF x
  <2> QED BY <1>3, OneTurn
<1>5. CASE s >= k
  <2>1. x >= Depth /\ x - Depth = s - k
    BY <1>1, <1>5
  <2> QED BY <1>2, <1>4, <1>5, <2>1 DEF Back
<1>6. CASE ~(s >= k)
  <2>1. x < Depth
    BY <1>1, <1>6
  <2> QED BY <1>2, <1>4, <1>6, <2>1 DEF Back
<1> QED BY <1>5, <1>6

\* From the next slot, every place is one further back.
LEMMA BackFromNext ==
  ASSUME NEW s \in Ring
  PROVE  /\ Back((s + 1) % Depth, 1) = s
         /\ \A k \in 1..Depth-1 :
              Back((s + 1) % Depth, k + 1) = Back(s, k) /\ Back(s, k) # s
<1>1. Depth \in Nat /\ Depth > 0 /\ s \in Nat /\ s < Depth
  BY RingAssumption DEF Ring
<1>2. (s + 1) % Depth = IF s + 1 < Depth THEN s + 1 ELSE 0
  <2>1. s + 1 \in Nat /\ s + 1 < 2 * Depth
    BY <1>1
  <2> QED BY <1>1, <2>1, OneTurn
<1> QED BY <1>1, <1>2 DEF Back

\* Counting on from the oldest of n slots finds the others.
LEMMA CountOn ==
  ASSUME NEW s \in Ring, NEW n \in 1..Depth, NEW i \in 1..n
  PROVE  (Back(s, n) + i - 1) % Depth = Back(s, n + 1 - i)
<1>1. /\ Depth \in Nat /\ Depth > 0 /\ s \in Nat /\ s < Depth
      /\ n \in Nat /\ n > 0 /\ n <= Depth /\ i \in Nat /\ i > 0 /\ i <= n
  BY RingAssumption DEF Ring
<1>2. Back(s, n) \in Nat /\ Back(s, n) < Depth
  BY <1>1 DEF Back
<1> DEFINE x == Back(s, n) + i - 1
<1>3. x \in Nat /\ x < 2 * Depth
  BY <1>1, <1>2
<1>4. (x < Depth => x % Depth = x) /\ (x >= Depth => x % Depth = x - Depth)
  <2> HIDE DEF x
  <2> QED BY <1>3, OneTurn
<1>5. x = IF s >= n THEN s - n + i - 1 ELSE s + Depth - n + i - 1
  BY <1>1 DEF Back
<1>6. Back(s, n + 1 - i) = IF x < Depth THEN x ELSE x - Depth
  BY <1>1, <1>5 DEF Back
<1> HIDE DEF x
<1>7. CASE x < Depth
  BY <1>4, <1>6, <1>7 DEF x
<1>8. CASE ~(x < Depth)
  BY <1>1, <1>3, <1>4, <1>6, <1>8 DEF x
<1> QED BY <1>7, <1>8

\* The elements of a sequence followed by another.
LEMMA Joined ==
  ASSUME NEW s \in Seq(Nat), NEW t \in Seq(Nat)
  PROVE  /\ s \o t \in Seq(Nat)
         /\ Len(s \o t) = Len(s) + Len(t)
         /\ \A i \in 1..Len(s) : (s \o t)[i] = s[i]
         /\ \A i \in 1..Len(t) : (s \o t)[Len(s) + i] = t[i]
         /\ Range(s \o t) = Range(s) \cup Range(t)
<1>1. /\ s \o t \in Seq(Nat) /\ Len(s \o t) = Len(s) + Len(t)
      /\ Len(s) \in Nat /\ Len(t) \in Nat
  OBVIOUS
<1>2. /\ DOMAIN s = 1..Len(s) /\ DOMAIN t = 1..Len(t)
      /\ DOMAIN (s \o t) = 1..Len(s) + Len(t)
  BY <1>1
<1>3. \A i \in 1..Len(s) : (s \o t)[i] = s[i]
  OBVIOUS
<1>4. \A i \in 1..Len(t) : (s \o t)[Len(s) + i] = t[i]
  <2> SUFFICES ASSUME NEW i \in 1..Len(t) PROVE (s \o t)[Len(s) + i] = t[i]
    OBVIOUS
  <2>1. Len(s) + i \in 1..Len(s) + Len(t) /\ Len(s) + i > Len(s) /\ Len(s) + i - Len(s) = i
    BY <1>1
  <2> QED BY <1>1, <2>1
<1>5. Range(s \o t) \subseteq Range(s) \cup Range(t)
  <2> SUFFICES ASSUME NEW i \in 1..Len(s) + Len(t)
               PROVE  (s \o t)[i] \in Range(s) \cup Range(t)
    BY <1>2 DEF Range
  <2>1. CASE i <= Len(s)
    BY <1>1, <1>2, <1>3, <2>1 DEF Range
  <2>2. CASE i > Len(s)
    <3>1. i - Len(s) \in 1..Len(t) /\ i = Len(s) + (i - Len(s))
      BY <1>1, <2>2
    <3>2. (s \o t)[i] = t[i - Len(s)]
      BY <1>4, <3>1
    <3> QED BY <1>2, <3>1, <3>2 DEF Range
  <2> QED BY <1>1, <2>1, <2>2
<1>6. Range(s) \subseteq Range(s \o t)
  BY <1>1, <1>2, <1>3 DEF Range
<1>7. Range(t) \subseteq Range(s \o t)
  <2> SUFFICES ASSUME NEW i \in 1..Len(t) PROVE t[i] \in Range(s \o t)
    BY <1>2 DEF Range
  <2>1. Len(s) + i \in 1..Len(s) + Len(t)
    BY <1>1
  <2> QED BY <1>2, <1>4, <2>1 DEF Range
<1> QED BY <1>1, <1>3, <1>4, <1>5, <1>6, <1>7

----------------------------------------------------------------------------

\* The transfers, one by one.
LEMMA Transfer ==
  ASSUME IInv, NEW i \in DOMAIN wire
  PROVE  /\ DOMAIN wire = 1..Len(wire) /\ Len(wire) \in Nat /\ Len(wire) <= Depth
         /\ pc # "idle" => Len(wire) < Depth
         /\ i \in Nat /\ i >= 1 /\ i <= Len(wire)
         /\ Len(wire) + 1 - i \in 1..Depth
         /\ wire[i] \in Transfers /\ wire[i].slot \in Ring /\ wire[i].frame \in Nat
<1>1. /\ wire \in Seq(Transfers) /\ Depth \in Nat /\ MaxFrames \in Nat
      /\ inflight \in Nat /\ inflight <= Depth
  BY RingAssumption DEF IInv, TypeOK, Transfers
<1>2. DOMAIN wire = 1..Len(wire) /\ Len(wire) \in Nat
  BY <1>1
<1>3. Len(wire) <= Depth /\ (pc # "idle" => Len(wire) < Depth)
  <2>1. inflight = Len(wire) + IF pc = "idle" THEN 0 ELSE 1
    BY DEF IInv, CountExact
  <2>2. CASE pc = "idle"
    BY <1>1, <1>2, <2>1, <2>2
  <2>3. CASE pc # "idle"
    BY <1>1, <1>2, <2>1, <2>3
  <2> QED BY <2>2, <2>3
<1>4. i \in Nat /\ i >= 1 /\ i <= Len(wire)
  BY <1>2
<1>5. Len(wire) + 1 - i \in 1..Depth
  BY <1>1, <1>2, <1>3, <1>4
<1>6. wire[i] \in Transfers
  BY <1>1, <1>2
<1>7. wire[i].slot \in Ring /\ wire[i].frame \in Nat
  BY <1>1, <1>6 DEF Transfers
<1> QED BY <1>2, <1>3, <1>4, <1>5, <1>6, <1>7

\* Nothing was submitted, transferred or told.
LEMMA InitFrames == Init => Frames
<1> SUFFICES ASSUME Init PROVE Frames
  OBVIOUS
<1> USE DEF Init
<1>1. /\ <<>> \in Seq(Nat) /\ DOMAIN <<>> = {} /\ <<>> \o <<>> = <<>>
      /\ Range(<<>>) = {}
  BY DEF Range
<1>2. LogsTyped /\ WireInOrder
  BY <1>1 DEF LogsTyped, WireInOrder
<1>3. InPlace
  BY <1>1 DEF InPlace, Submission, ShownBefore, Told, Noted
<1> QED BY <1>2, <1>3 DEF Frames

\* The slot reserved is none of those in flight.
LEMMA ReserveFrames ==
  ASSUME IInv, Frames, Reserve
  PROVE  Frames'
<1> USE DEF Reserve, stackVars, clientVars
<1>1. /\ frames \in Nat /\ frames' = frames + 1 /\ pc = "idle" /\ pc' = "reserved"
      /\ head \in Ring /\ slot' = head /\ head' = (head + 1) % Depth
      /\ slotSeq' = [slotSeq EXCEPT ![head] = frames + 1]
      /\ slotSeq \in [Ring -> 0..MaxFrames]
      /\ UNCHANGED <<wire, buffer, shown, told, telling, missed, skipped>>
  BY RingAssumption DEF IInv, TypeOK, Advance
<1>2. Len(wire) < Depth
  BY RingAssumption DEF IInv, TypeOK, CountExact, HasRoom
<1>3. \A f \in Nat : Past(f) => Past(f)'
  BY <1>1 DEF Past
<1>4. LogsTyped'
  BY <1>1 DEF Frames, LogsTyped
<1>5. WireInOrder'
  <2>1. \A i \in DOMAIN wire : wire[i].frame \in Nat
    BY Transfer
  <2> QED BY <1>1, <2>1 DEF Frames, WireInOrder, Past
<1>6. ASSUME ~skipped PROVE InPlace'
  <2>1. InPlace
    BY <1>6 DEF Frames
  <2>2. Submission'
    BY <1>1, <1>2 DEF Submission
  <2>3. ASSUME NEW i \in DOMAIN wire PROVE HoldsFrame(i)'
    <3>1. HoldsFrame(i) /\ End' = End /\ End = head
      BY <1>1, <2>1 DEF InPlace, End
    <3>2. Len(wire) + 1 - i \in 1..Depth-1 /\ wire[i].slot \in Ring
      BY <1>2, Transfer, RingAssumption
    <3>3. wire[i].slot # head
      BY <1>1, <3>1, <3>2, BackFromNext DEF HoldsFrame
    <3>4. slotSeq'[wire[i].slot] = slotSeq[wire[i].slot]
      BY <1>1, <3>2, <3>3
    <3> QED BY <1>1, <3>1, <3>4 DEF HoldsFrame, Back
  <2>4. ShownBefore'
    <3>1. Range(shown) \subseteq Nat
      BY DEF Frames, LogsTyped, Range
    <3> QED BY <1>1, <1>3, <2>1, <3>1 DEF InPlace, ShownBefore
  <2>5. Told'
    BY <1>1, <2>1 DEF InPlace, Told, Noted
  <2> QED BY <1>1, <2>2, <2>3, <2>4, <2>5 DEF InPlace
<1> QED BY <1>1, <1>4, <1>5, <1>6 DEF Frames

\* The buffer filled is none of those in flight.
LEMMA FillFrames ==
  ASSUME IInv, Frames, Fill
  PROVE  Frames'
<1> USE DEF Fill, ringVars, stackVars, clientVars
<1>1. /\ frames \in Nat /\ pc = "reserved" /\ pc' = "filled" /\ slot \in Ring
      /\ buffer' = [buffer EXCEPT ![slot] = frames]
      /\ buffer \in [Ring -> 0..MaxFrames]
      /\ UNCHANGED <<head, slot, frames, slotSeq, wire, shown, told, telling, missed,
                     skipped>>
  BY RingAssumption DEF IInv, TypeOK
<1>2. \A f \in Nat : Past(f) => Past(f)'
  BY <1>1 DEF Past
<1>3. LogsTyped'
  BY <1>1 DEF Frames, LogsTyped
<1>4. WireInOrder'
  BY <1>1, <1>2, Transfer DEF Frames, WireInOrder
<1>5. ASSUME ~skipped PROVE InPlace'
  <2>1. InPlace
    BY <1>5 DEF Frames
  <2>2. Submission'
    BY <1>1, <2>1 DEF InPlace, Submission
  <2>3. ASSUME NEW i \in DOMAIN wire PROVE HoldsFrame(i)'
    <3>1. HoldsFrame(i) /\ End' = End /\ End = slot
      BY <1>1, <2>1 DEF InPlace, End
    <3>2. Len(wire) + 1 - i \in 1..Depth-1 /\ wire[i].slot \in Ring
      BY <1>1, Transfer, RingAssumption
    <3>3. wire[i].slot # slot
      BY <1>1, <3>1, <3>2, BackFromNext DEF HoldsFrame
    <3>4. buffer'[wire[i].slot] = buffer[wire[i].slot]
      BY <1>1, <3>2, <3>3
    <3> QED BY <1>1, <3>1, <3>4 DEF HoldsFrame, Back
  <2>4. ShownBefore'
    <3>1. Range(shown) \subseteq Nat
      BY DEF Frames, LogsTyped, Range
    <3> QED BY <1>1, <1>2, <2>1, <3>1 DEF InPlace, ShownBefore
  <2>5. Told'
    BY <1>1, <2>1 DEF InPlace, Told, Noted
  <2> QED BY <1>1, <2>2, <2>3, <2>4, <2>5 DEF InPlace
<1> QED BY <1>1, <1>3, <1>4, <1>5 DEF Frames

\* A failed submission gives its slot back, unless the slot has no address.
LEMMA FailedFrames ==
  ASSUME IInv, Frames, NoAddress \/ Refuse
  PROVE  Frames'
<1>1. /\ frames \in Nat /\ pc # "idle" /\ pc' = "idle"
      /\ UNCHANGED <<slot, frames, slotSeq, buffer, wire, shown, told, telling, missed>>
  BY RingAssumption DEF IInv, TypeOK, NoAddress, Refuse, stackVars, clientVars
<1>2. \A f \in Nat : Past(f) => Past(f)'
  BY <1>1 DEF Past
<1>3. LogsTyped'
  BY <1>1 DEF Frames, LogsTyped
<1>4. WireInOrder'
  BY <1>1, <1>2, Transfer DEF Frames, WireInOrder
<1>5. ASSUME ~skipped' PROVE InPlace'
  <2>1. ~skipped /\ head' = slot
    BY <1>5 DEF NoAddress, Refuse, Rewind
  <2>2. InPlace
    BY <2>1 DEF Frames
  <2>3. Submission'
    BY <1>1 DEF Submission
  <2>4. End' = End
    BY <1>1, <2>1 DEF End
  <2>5. ASSUME NEW i \in DOMAIN wire PROVE HoldsFrame(i)'
    BY <1>1, <2>2, <2>4 DEF InPlace, HoldsFrame, Back
  <2>6. ShownBefore'
    <3>1. Range(shown) \subseteq Nat
      BY DEF Frames, LogsTyped, Range
    <3> QED BY <1>1, <1>2, <2>2, <3>1 DEF InPlace, ShownBefore
  <2>7. Told'
    BY <1>1, <2>2 DEF InPlace, Told, Noted
  <2> QED BY <1>1, <2>3, <2>5, <2>6, <2>7 DEF InPlace
<1> QED BY <1>1, <1>3, <1>4, <1>5 DEF Frames

\* The transfer handed over is the newest, in the slot before head.
LEMMA AcceptFrames ==
  ASSUME IInv, Frames, Accept
  PROVE  Frames'
<1> DEFINE new == [slot |-> slot, frame |-> frames]
<1> USE DEF Accept, ringVars, clientVars
<1>1. /\ frames \in Nat /\ pc = "filled" /\ pc' = "idle" /\ slot \in Ring /\ head \in Ring
      /\ wire' = Append(wire, new) /\ wire \in Seq(Transfers)
      /\ UNCHANGED <<head, slot, frames, slotSeq, buffer, shown, told, telling, missed,
                     skipped>>
  BY RingAssumption DEF IInv, TypeOK, Transfers
<1>2. /\ Len(wire) \in Nat /\ Len(wire') = Len(wire) + 1
      /\ DOMAIN wire = 1..Len(wire) /\ DOMAIN wire' = 1..Len(wire) + 1
      /\ wire'[Len(wire) + 1] = new
      /\ \A i \in 1..Len(wire) : wire'[i] = wire[i]
  BY <1>1
<1>3. /\ \A f \in Nat : Past(f) => Past(f)' /\ f < frames
      /\ Past(frames)'
  BY <1>1 DEF Past
<1>4. LogsTyped'
  BY <1>1 DEF Frames, LogsTyped
<1>5. WireInOrder'
  <2>1. \A i \in DOMAIN wire' : wire'[i].frame = IF i = Len(wire) + 1
                                                 THEN frames ELSE wire[i].frame
    BY <1>2
  <2>2. \A i \in DOMAIN wire : wire[i].frame \in Nat /\ Past(wire[i].frame)
    BY Transfer DEF Frames, WireInOrder
  <2>3. ASSUME NEW i \in DOMAIN wire' PROVE wire'[i].frame <= frames
    <3>1. CASE i = Len(wire) + 1
      BY <1>1, <2>1, <3>1
    <3>2. CASE i # Len(wire) + 1
      <4>1. i \in DOMAIN wire
        BY <1>2, <3>2
      <4> QED BY <1>1, <2>1, <2>2, <3>2, <4>1 DEF Past
    <3> QED BY <3>1, <3>2
  <2>4. ASSUME NEW i \in DOMAIN wire', NEW j \in DOMAIN wire', i < j
        PROVE  wire'[i].frame < wire'[j].frame
    <3>1. i \in DOMAIN wire /\ i # Len(wire) + 1
      BY <1>2, <2>4
    <3>2. CASE j = Len(wire) + 1
      BY <1>3, <2>1, <2>2, <3>1, <3>2
    <3>3. CASE j # Len(wire) + 1
      <4>1. j \in DOMAIN wire
        BY <1>2, <3>3
      <4>2. wire[i].frame < wire[j].frame
        BY <2>4, <3>1, <4>1 DEF Frames, WireInOrder
      <4> QED BY <2>1, <3>1, <3>3, <4>2
    <3> QED BY <3>2, <3>3
  <2> QED BY <1>1, <2>3, <2>4 DEF WireInOrder, Past
<1>6. ASSUME ~skipped PROVE InPlace'
  <2>1. InPlace /\ Submission
    BY <1>6 DEF Frames, InPlace
  <2>2. /\ End = slot /\ End' = head /\ head = (slot + 1) % Depth
        /\ Len(wire) < Depth /\ slotSeq[slot] = frames /\ buffer[slot] = frames
    BY <1>1, <2>1 DEF End, Submission
  <2>3. Submission'
    BY <1>1 DEF Submission
  <2>4. ASSUME NEW i \in DOMAIN wire' PROVE HoldsFrame(i)'
    <3>1. CASE i = Len(wire) + 1
      <4>1. wire'[i].slot = slot /\ wire'[i].frame = frames
        BY <1>2, <3>1
      <4>2. Len(wire') + 1 - i = 1
        BY <1>2, <3>1
      <4>3. Back(head, 1) = slot
        BY <1>1, <2>2, BackFromNext
      <4> QED BY <1>1, <2>2, <4>1, <4>2, <4>3 DEF HoldsFrame, Back
    <3>2. CASE i # Len(wire) + 1
      <4>1. i \in DOMAIN wire /\ wire'[i] = wire[i]
        BY <1>2, <3>2
      <4>2. HoldsFrame(i)
        BY <2>1, <4>1 DEF InPlace
      <4> DEFINE k == Len(wire) + 1 - i
      <4>3. k \in 1..Depth-1 /\ Len(wire') + 1 - i = k + 1
        BY <1>2, <2>2, <4>1, RingAssumption
      <4>4. Back(head, k + 1) = Back(slot, k)
        BY <1>1, <2>2, <4>3, BackFromNext
      <4> QED BY <1>1, <2>2, <4>1, <4>2, <4>3, <4>4 DEF HoldsFrame, Back
    <3> QED BY <3>1, <3>2
  <2>5. ShownBefore'
    <3>1. Range(shown) \subseteq Nat
      BY DEF Frames, LogsTyped, Range
    <3>2. SUFFICES ASSUME NEW f \in Range(shown)
                   PROVE  Past(f)' /\ \A i \in DOMAIN wire' : f < wire'[i].frame
      BY <1>1 DEF ShownBefore, Past
    <3>3. f \in Nat /\ Past(f) /\ \A i \in DOMAIN wire : f < wire[i].frame
      BY <2>1, <3>1 DEF InPlace, ShownBefore
    <3>4. ASSUME NEW i \in DOMAIN wire' PROVE f < wire'[i].frame
      <4>1. CASE i = Len(wire) + 1
        BY <1>2, <1>3, <3>3, <4>1
      <4>2. CASE i # Len(wire) + 1
        BY <1>2, <3>3, <4>2
      <4> QED BY <4>1, <4>2
    <3> QED BY <1>3, <3>3, <3>4
  <2>6. Told'
    BY <1>1, <2>1 DEF InPlace, Told, Noted
  <2> QED BY <2>3, <2>4, <2>5, <2>6 DEF InPlace
<1> QED BY <1>1, <1>4, <1>5, <1>6 DEF Frames

\* The frames a completion reports, by the buffers and by the slots.
Shipped(count) == [i \in 1..count |-> buffer[wire[i].slot]]

\* The slots counted on from the oldest transfer's are those of the transfers:
\* the handler tells of the frames that the controller has read.
LEMMA CompletionFindsFrames ==
  ASSUME IInv, Frames, NEW count \in 1..Len(wire)
  PROVE  /\ Done(count) \in Seq(Nat) /\ Shipped(count) \in Seq(Nat)
         /\ Len(Done(count)) = count /\ Len(Shipped(count)) = count
         /\ ~skipped =>
              \A i \in 1..count : /\ Done(count)[i] = wire[i].frame
                                  /\ Shipped(count)[i] = wire[i].frame
<1>1. /\ count \in Nat /\ count >= 1 /\ count <= Len(wire) /\ Len(wire) \in Nat
      /\ DOMAIN wire = 1..Len(wire)
      /\ slotSeq \in [Ring -> Nat] /\ buffer \in [Ring -> Nat]
  <2>1. 0..MaxFrames \subseteq Nat
    BY RingAssumption
  <2>2. /\ slotSeq \in [Ring -> 0..MaxFrames] /\ buffer \in [Ring -> 0..MaxFrames]
        /\ Len(wire) \in Nat /\ DOMAIN wire = 1..Len(wire)
    BY DEF IInv, TypeOK
  <2> QED BY <2>1, <2>2
<1>2. Depth \in Nat /\ Depth > 0 /\ wire[1].slot \in Nat
  <2>1. 1 \in DOMAIN wire
    BY <1>1
  <2>2. wire[1].slot \in Ring
    BY <2>1, Transfer
  <2> QED BY <2>2, RingAssumption DEF Ring
<1>3. ASSUME NEW i \in 1..count
      PROVE  slotSeq[(wire[1].slot + i - 1) % Depth] \in Nat /\ buffer[wire[i].slot] \in Nat
  <2>1. wire[1].slot + i - 1 \in Nat
    BY <1>2
  <2>2. (wire[1].slot + i - 1) % Depth \in Ring
    BY <1>2, <2>1 DEF Ring
  <2>3. wire[i].slot \in Ring
    BY <1>1, Transfer
  <2> QED BY <1>1, <2>2, <2>3
<1>4. Done(count) \in [1..count -> Nat] /\ Shipped(count) \in [1..count -> Nat]
  BY <1>3 DEF Done, Shipped
<1>5. /\ Done(count) \in Seq(Nat) /\ Shipped(count) \in Seq(Nat)
      /\ Len(Done(count)) = count /\ Len(Shipped(count)) = count
  BY <1>1, <1>4
<1>6. ASSUME ~skipped, NEW i \in 1..count
      PROVE  Done(count)[i] = wire[i].frame /\ Shipped(count)[i] = wire[i].frame
  <2>1. 1 \in DOMAIN wire /\ i \in DOMAIN wire /\ i \in 1..Len(wire)
    BY <1>1
  <2>2. HoldsFrame(1) /\ HoldsFrame(i)
    BY <1>6, <2>1 DEF Frames, InPlace
  <2>3. Len(wire) \in 1..Depth /\ Len(wire) + 1 - 1 = Len(wire)
    BY <1>1, <2>1, Transfer
  <2>4. End \in Ring
    BY DEF IInv, TypeOK, End
  <2>5. wire[1].slot = Back(End, Len(wire))
    BY <2>2, <2>3 DEF HoldsFrame
  <2>6. (Back(End, Len(wire)) + i - 1) % Depth = Back(End, Len(wire) + 1 - i)
    BY <2>1, <2>3, <2>4, CountOn
  <2>7. (wire[1].slot + i - 1) % Depth = wire[i].slot
    BY <2>2, <2>5, <2>6 DEF HoldsFrame
  <2> QED BY <2>2, <2>7 DEF HoldsFrame, Done, Shipped
<1> QED BY <1>5, <1>6

\* A completion takes the oldest transfers off, and notes their frames for the
\* client after all that it was told.
LEMMA CompleteFrames ==
  ASSUME IInv, Frames, Complete
  PROVE  Frames'
<1>1. PICK count \in 1..Len(wire) :
        /\ telling = <<>>
        /\ shown' = shown \o Shipped(count)
        /\ wire' = SubSeq(wire, count + 1, Len(wire))
        /\ telling' = IF userClient = NoClient THEN <<>> ELSE Done(count)
        /\ missed' = IF userClient = NoClient THEN missed \cup Range(Done(count))
                     ELSE missed
        /\ UNCHANGED <<head, slotSeq, buffer, pc, slot, frames, skipped, told>>
  BY DEF Complete, submitVars, Shipped
<1> DEFINE d == Done(count)
           s == Shipped(count)
<1>2. /\ d \in Seq(Nat) /\ s \in Seq(Nat) /\ Len(d) = count /\ Len(s) = count
      /\ ~skipped => \A i \in 1..count : d[i] = wire[i].frame /\ s[i] = wire[i].frame
  BY CompletionFindsFrames
<1> HIDE DEF d, s
<1>3. /\ shown \in Seq(Nat) /\ told \in Seq(Nat) /\ missed \in SUBSET Nat
      /\ <<>> \in Seq(Nat) /\ DOMAIN d = 1..count /\ DOMAIN s = 1..count
      /\ Range(d) \subseteq Nat /\ Range(shown) \subseteq Nat
  <2>1. shown \in Seq(Nat) /\ told \in Seq(Nat) /\ missed \in SUBSET Nat
    BY DEF Frames, LogsTyped
  <2>2. DOMAIN d = 1..count /\ DOMAIN s = 1..count /\ <<>> \in Seq(Nat)
    BY <1>2
  <2>3. Range(d) \subseteq Nat /\ Range(shown) \subseteq Nat
    <3>1. \A t \in Seq(Nat) : \A i \in DOMAIN t : t[i] \in Nat
      OBVIOUS
    <3> QED BY <1>2, <2>1, <3>1 DEF Range
  <2> QED BY <2>1, <2>2, <2>3
<1>4. /\ count \in Nat /\ count >= 1 /\ count <= Len(wire) /\ Len(wire) \in Nat
      /\ DOMAIN wire = 1..Len(wire) /\ wire \in Seq(Transfers)
  BY DEF IInv, TypeOK, Transfers
<1>5. /\ Len(wire') = Len(wire) - count /\ DOMAIN wire' = 1..Len(wire) - count
      /\ \A i \in 1..Len(wire) - count : wire'[i] = wire[i + count]
  <2>1. wire' \in Seq(Transfers) /\ Len(wire') = Len(wire) - count
    BY <1>1, <1>4, RestOfWire
  <2>2. DOMAIN wire' = 1..Len(wire) - count
    BY <2>1
  <2>3. ASSUME NEW i \in 1..Len(wire) - count PROVE wire'[i] = wire[i + count]
    <3>1. /\ count + 1 \in 1..Len(wire) /\ Len(wire) \in 1..Len(wire)
          /\ i \in 1..Len(wire) - (count + 1) + 1
          /\ count + 1 + i - 1 = i + count
      BY <1>4
    <3> QED BY <1>1, <1>4, <3>1
  <2> QED BY <2>1, <2>2, <2>3
<1>6. \A i \in DOMAIN wire' : i + count \in DOMAIN wire /\ i + count > count
                              /\ wire'[i] = wire[i + count]
  BY <1>4, <1>5
<1>7. LogsTyped'
  <2>1. shown' \in Seq(Nat)
    BY <1>1, <1>2, <1>3, Joined DEF s
  <2>2. telling' \in Seq(Nat)
    BY <1>1, <1>2, <1>3 DEF d
  <2>3. missed' \in SUBSET Nat
    BY <1>1, <1>3 DEF d
  <2> QED BY <1>1, <1>3, <2>1, <2>2, <2>3 DEF LogsTyped
<1>8. WireInOrder'
  <2>1. \A i, j \in DOMAIN wire : i < j => wire[i].frame < wire[j].frame
    BY DEF Frames, WireInOrder
  <2>2. \A i \in DOMAIN wire : Past(wire[i].frame)
    BY DEF Frames, WireInOrder
  <2>3. \A i, j \in DOMAIN wire' : i < j => wire'[i].frame < wire'[j].frame
    <3> SUFFICES ASSUME NEW i \in DOMAIN wire', NEW j \in DOMAIN wire', i < j
                 PROVE  wire'[i].frame < wire'[j].frame
      OBVIOUS
    <3>1. i + count < j + count
      BY <1>4, <1>5
    <3> QED BY <1>6, <2>1, <3>1
  <2>4. \A i \in DOMAIN wire' : /\ wire'[i].frame <= frames
                                /\ pc # "idle" => wire'[i].frame < frames
    BY <1>6, <2>2 DEF Past
  <2> QED BY <1>1, <2>3, <2>4 DEF WireInOrder, Past
<1>9. ASSUME ~skipped PROVE InPlace'
  <2>1. /\ InPlace /\ Submission /\ ShownBefore /\ Told
        /\ \A i \in DOMAIN wire : HoldsFrame(i)
    BY <1>9 DEF Frames, InPlace
  <2>2. \A i \in 1..count : /\ d[i] = wire[i].frame /\ s[i] = wire[i].frame
                            /\ i \in DOMAIN wire
    BY <1>2, <1>4, <1>9
  <2>3. Range(d) = Range(s)
    BY <1>3, <2>2 DEF Range
  <2>4. Range(shown') = Range(shown) \cup Range(d) /\ Range(shown) \subseteq Nat
    <3>1. Range(shown \o s) = Range(shown) \cup Range(s)
      BY <1>2, <1>3, Joined
    <3>2. shown' = shown \o s
      BY <1>1 DEF s
    <3> QED BY <1>3, <2>3, <3>1, <3>2
  <2>5. \A f \in Range(d) : \E i \in 1..count : i \in DOMAIN wire /\ f = wire[i].frame
    BY <1>3, <2>2 DEF Range
  <2>6. Submission'
    <3>1. Len(wire') <= Len(wire)
      BY <1>4, <1>5
    <3>2. pc # "idle" => Len(wire') < Depth
      BY <1>4, <1>5, <2>1, <3>1, RingAssumption DEF Submission
    <3> QED BY <1>1, <2>1, <3>2 DEF Submission
  <2>7. ASSUME NEW i \in DOMAIN wire' PROVE HoldsFrame(i)'
    <3>1. HoldsFrame(i + count) /\ wire'[i] = wire[i + count]
      BY <1>6, <2>1
    <3>2. Len(wire') + 1 - i = Len(wire) + 1 - (i + count)
      BY <1>4, <1>5
    <3>3. End' = End
      BY <1>1 DEF End
    <3> QED BY <1>1, <3>1, <3>2, <3>3 DEF HoldsFrame, Back
  <2>8. ShownBefore'
    <3>1. SUFFICES ASSUME NEW f \in Range(shown) \cup Range(d)
                   PROVE  Past(f) /\ \A i \in DOMAIN wire' : f < wire'[i].frame
      BY <1>1, <2>4 DEF ShownBefore, Past
    <3>2. CASE f \in Range(shown)
      BY <1>6, <2>1, <3>2 DEF ShownBefore
    <3>3. CASE f \in Range(d)
      <4>1. PICK k \in 1..count : k \in DOMAIN wire /\ f = wire[k].frame
        BY <2>5, <3>3
      <4>2. Past(f)
        BY <4>1 DEF Frames, WireInOrder
      <4>3. ASSUME NEW i \in DOMAIN wire' PROVE f < wire'[i].frame
        <5>1. k < i + count
          BY <1>4, <1>5
        <5> QED BY <1>6, <4>1, <5>1 DEF Frames, WireInOrder
      <4> QED BY <4>2, <4>3
    <3> QED BY <3>2, <3>3
  <2>9. Told'
    <3>1. Noted = told
      BY <1>1, <1>3 DEF Noted
    <3>2. \A f \in Range(shown), g \in Range(d) : f < g
      BY <2>1, <2>5 DEF ShownBefore
    <3>3. Range(told) \subseteq Range(shown) /\ missed \subseteq Range(shown)
      BY <2>1, <3>1 DEF Told
    <3>4. Range(d) \cap Range(shown) = {}
      BY <1>3, <3>2
    <3>5. CASE userClient # NoClient
      <4>1. Noted' = told \o d /\ missed' = missed
        BY <1>1, <3>5 DEF Noted, d
      <4>2. /\ Len(told \o d) = Len(told) + count
            /\ \A i \in 1..Len(told) : (told \o d)[i] = told[i]
            /\ \A i \in 1..count : (told \o d)[Len(told) + i] = d[i]
            /\ Range(told \o d) = Range(told) \cup Range(d)
            /\ told \o d \in Seq(Nat)
        <5>1. /\ Len(told \o d) = Len(told) + Len(d)
              /\ \A i \in 1..Len(told) : (told \o d)[i] = told[i]
              /\ \A i \in 1..Len(d) : (told \o d)[Len(told) + i] = d[i]
              /\ Range(told \o d) = Range(told) \cup Range(d)
              /\ told \o d \in Seq(Nat)
          BY <1>2, <1>3, Joined, Zenon
        <5>2. Len(d) = count
          BY <1>2
        <5> QED BY <5>1, <5>2, Zenon
      <4>3. DOMAIN (told \o d) = 1..Len(told) + count /\ Len(told) \in Nat
            /\ DOMAIN told = 1..Len(told)
        BY <1>3, <4>2
      <4>4. ASSUME NEW i \in DOMAIN (told \o d), NEW j \in DOMAIN (told \o d), i < j
            PROVE  (told \o d)[i] < (told \o d)[j]
        <5>1. CASE j <= Len(told)
          <6>1. i \in DOMAIN told /\ j \in DOMAIN told
            BY <4>3, <4>4, <5>1
          <6> QED BY <2>1, <3>1, <4>2, <4>3, <4>4, <6>1 DEF Told
        <5>2. CASE i <= Len(told) /\ j > Len(told)
          <6>1. i \in DOMAIN told /\ j - Len(told) \in 1..count
                /\ j = Len(told) + (j - Len(told))
            BY <1>4, <4>3, <5>2
          <6>2. (told \o d)[i] \in Range(shown)
            BY <3>3, <4>2, <4>3, <6>1 DEF Range
          <6>3. (told \o d)[j] = d[j - Len(told)]
            BY <4>2, <6>1
          <6>4. (told \o d)[j] \in Range(d)
            BY <1>3, <6>1, <6>3 DEF Range
          <6> QED BY <3>2, <6>2, <6>4
        <5>3. CASE i > Len(told)
          <6>1. /\ i - Len(told) \in 1..count /\ i = Len(told) + (i - Len(told))
                /\ j - Len(told) \in 1..count /\ j = Len(told) + (j - Len(told))
                /\ i - Len(told) < j - Len(told)
            BY <1>4, <4>3, <4>4, <5>3
          <6>2. (told \o d)[i] = d[i - Len(told)] /\ (told \o d)[j] = d[j - Len(told)]
            BY <4>2, <6>1
          <6> QED BY <2>2, <6>1, <6>2 DEF Frames, WireInOrder
        <5> QED BY <4>3, <4>4, <5>1, <5>2, <5>3
      <4>5. Range(told \o d) \cup missed = Range(shown) \cup Range(d)
        BY <2>1, <3>1, <4>2 DEF Told
      <4>6. Range(told \o d) \cap missed = {}
        BY <2>1, <3>1, <3>3, <3>4, <4>2 DEF Told
      <4> QED BY <2>4, <4>1, <4>4, <4>5, <4>6 DEF Told
    <3>6. CASE userClient = NoClient
      <4>1. Noted' = told /\ missed' = missed \cup Range(d)
        BY <1>1, <1>3, <3>6 DEF Noted, d
      <4> QED BY <2>1, <2>4, <3>1, <3>3, <3>4, <4>1 DEF Told
    <3> QED BY <3>5, <3>6
  <2> QED BY <2>6, <2>7, <2>8, <2>9 DEF InPlace
<1> QED BY <1>1, <1>7, <1>8, <1>9 DEF Frames

\* The head of b moves to the end of a.
LEMMA MoveOne ==
  ASSUME NEW a \in Seq(Nat), NEW b \in Seq(Nat), b # <<>>
  PROVE  Append(a, Head(b)) \o Tail(b) = a \o b
OBVIOUS

\* Taking the first of b out of a, b keeps the order of the rest, which does not
\* have it any more.
LEMMA DropOne ==
  ASSUME NEW a \in Seq(Nat), NEW b \in Seq(Nat), b # <<>>,
         \A i, j \in DOMAIN (a \o b) : i < j => (a \o b)[i] < (a \o b)[j]
  PROVE  LET c == a \o Tail(b) IN
         /\ \A i, j \in DOMAIN c : i < j => c[i] < c[j]
         /\ Range(a \o b) = Range(c) \cup {Head(b)}
         /\ Head(b) \notin Range(c)
<1> DEFINE ab == a \o b
           c == a \o Tail(b)
           n == Len(a)
           Old(i) == IF i <= n THEN i ELSE i + 1
<1>1. /\ Tail(b) \in Seq(Nat) /\ Len(b) \in Nat /\ n \in Nat /\ Len(b) > 0
      /\ Len(Tail(b)) = Len(b) - 1 /\ Head(b) = b[1] /\ Head(b) \in Nat
      /\ \A i \in 1..Len(b) - 1 : Tail(b)[i] = b[i + 1]
  OBVIOUS
<1>2. /\ ab \in Seq(Nat) /\ Len(ab) = n + Len(b)
      /\ \A i \in 1..n : ab[i] = a[i]
      /\ \A i \in 1..Len(b) : ab[n + i] = b[i]
  BY Joined, Zenon
<1>3. /\ c \in Seq(Nat) /\ Len(c) = n + Len(Tail(b))
      /\ \A i \in 1..n : c[i] = a[i]
      /\ \A i \in 1..Len(Tail(b)) : c[n + i] = Tail(b)[i]
  BY <1>1, Joined, Zenon
<1>4. \A i, j \in DOMAIN ab : i < j => ab[i] < ab[j]
  OBVIOUS
<1> HIDE DEF ab, c, n
<1>5. DOMAIN ab = 1..n + Len(b) /\ DOMAIN c = 1..n + Len(b) - 1
  BY <1>1, <1>2, <1>3
<1>6. ASSUME NEW i \in DOMAIN c
      PROVE  Old(i) \in DOMAIN ab /\ Old(i) # n + 1 /\ c[i] = ab[Old(i)]
  <2>1. CASE i <= n
    <3>1. i \in 1..n /\ i \in DOMAIN ab
      BY <1>1, <1>5, <2>1
    <3>2. c[i] = a[i] /\ ab[i] = a[i]
      BY <1>2, <1>3, <3>1
    <3> QED BY <1>1, <2>1, <3>1, <3>2
  <2>2. CASE i > n
    <3>1. i - n \in 1..Len(b) - 1 /\ i = n + (i - n) /\ i - n + 1 \in 1..Len(b)
      BY <1>1, <1>5, <2>2
    <3>2. c[i] = b[i - n + 1]
      BY <1>1, <1>3, <3>1
    <3>3. ab[n + (i - n + 1)] = b[i - n + 1]
      BY <1>2, <3>1
    <3>4. n + (i - n + 1) = i + 1
      BY <1>1, <1>5
    <3> QED BY <1>1, <1>5, <2>2, <3>2, <3>3, <3>4
  <2> QED BY <1>1, <1>5, <2>1, <2>2
<1>7. n + 1 \in DOMAIN ab /\ ab[n + 1] = Head(b)
  BY <1>1, <1>2, <1>5
<1>8. \A i, j \in DOMAIN c : i < j => c[i] < c[j]
  <2> SUFFICES ASSUME NEW i \in DOMAIN c, NEW j \in DOMAIN c, i < j
               PROVE  c[i] < c[j]
    OBVIOUS
  <2>1. Old(i) < Old(j)
    BY <1>1, <1>5
  <2> HIDE DEF Old
  <2> QED BY <1>4, <1>6, <2>1
<1>9. Head(b) \notin Range(c)
  <2> SUFFICES ASSUME NEW i \in DOMAIN c, c[i] = Head(b) PROVE FALSE
    BY DEF Range
  <2>1. Old(i) \in DOMAIN ab /\ Old(i) # n + 1 /\ ab[Old(i)] = ab[n + 1]
    BY <1>6, <1>7
  <2>2. ab[n + 1] \in Nat /\ Old(i) \in Nat /\ n + 1 \in Nat
    BY <1>1, <1>2, <1>5, <1>7, <2>1
  <2> HIDE DEF Old
  <2>3. Old(i) < n + 1 \/ n + 1 < Old(i)
    BY <2>1, <2>2, <1>1
  <2> QED BY <1>4, <1>7, <2>1, <2>2, <2>3
<1>10. Range(ab) = Range(c) \cup {Head(b)}
  <2>1. Range(c) \cup {Head(b)} \subseteq Range(ab)
    <3> HIDE DEF Old
    <3> QED BY <1>6, <1>7 DEF Range
  <2>2. ASSUME NEW i \in DOMAIN ab PROVE ab[i] \in Range(c) \cup {Head(b)}
    <3>1. CASE i = n + 1
      BY <1>7, <3>1
    <3>2. CASE i <= n
      <4>1. i \in DOMAIN c /\ Old(i) = i
        BY <1>1, <1>5, <3>2
      <4> QED BY <1>6, <4>1 DEF Range
    <3>3. CASE i > n + 1
      <4>1. i - 1 \in DOMAIN c /\ Old(i - 1) = i
        BY <1>1, <1>5, <3>3
      <4> HIDE DEF Old
      <4> QED BY <1>6, <4>1 DEF Range
    <3> QED BY <1>1, <1>5, <3>1, <3>2, <3>3
  <2> QED BY <2>1, <2>2 DEF Range
<1> QED BY <1>8, <1>9, <1>10 DEF ab, c

\* What is told, or missed, is taken from what is yet to be told.
LEMMA TellFrames ==
  ASSUME IInv, Frames, Tell
  PROVE  Frames'
<1>1. /\ told \in Seq(Nat) /\ telling \in Seq(Nat) /\ telling # <<>>
      /\ missed \in SUBSET Nat /\ telling' = Tail(telling)
      /\ \/ told' = Append(told, Head(telling)) /\ missed' = missed
         \/ told' = told /\ missed' = missed \cup {Head(telling)}
      /\ UNCHANGED <<head, slotSeq, buffer, pc, slot, frames, skipped, wire, shown>>
  BY DEF Frames, LogsTyped, Tell, ringVars, submitVars, stackVars
<1>2. /\ Head(telling) \in Nat /\ Tail(telling) \in Seq(Nat)
      /\ told' \in Seq(Nat) /\ telling' \in Seq(Nat)
  <2>1. Head(telling) \in Nat /\ Tail(telling) \in Seq(Nat)
    BY <1>1
  <2>2. told' \in Seq(Nat)
    <3>1. CASE told' = told
      BY <1>1, <3>1
    <3>2. CASE told' = Append(told, Head(telling))
      BY <1>1, <2>1, <3>2
    <3> QED BY <1>1, <3>1, <3>2
  <2> QED BY <1>1, <2>1, <2>2
<1>3. LogsTyped'
  BY <1>1, <1>2 DEF Frames, LogsTyped
<1>4. WireInOrder'
  BY <1>1 DEF Frames, WireInOrder, Past
<1>5. ASSUME ~skipped PROVE InPlace'
  <2>1. InPlace /\ Told
    BY <1>5 DEF Frames, InPlace
  <2>2. Submission' /\ ShownBefore'
    BY <1>1, <2>1 DEF InPlace, Submission, ShownBefore, Past
  <2>3. \A i \in DOMAIN wire : HoldsFrame(i)'
    BY <1>1, <2>1 DEF InPlace, HoldsFrame, End, Back
  <2>4. ASSUME told' = Append(told, Head(telling)), missed' = missed
        PROVE  Told'
    <3>1. Append(told, Head(telling)) \o Tail(telling) = told \o telling
      BY <1>1, MoveOne
    <3>2. Noted' = Noted
      BY <1>1, <2>4, <3>1 DEF Noted
    <3> QED BY <1>1, <2>1, <2>4, <3>2 DEF Told
  <2>5. ASSUME told' = told, missed' = missed \cup {Head(telling)}
        PROVE  Told'
    <3>1. Noted = told \o telling /\ Noted' = told \o Tail(telling)
      BY <1>1, <2>5 DEF Noted
    <3>2. \A i, j \in DOMAIN (told \o telling) :
            i < j => (told \o telling)[i] < (told \o telling)[j]
      BY <2>1, <3>1 DEF Told
    <3>3. /\ \A i, j \in DOMAIN Noted' : i < j => Noted'[i] < Noted'[j]
          /\ Range(Noted) = Range(Noted') \cup {Head(telling)}
          /\ Head(telling) \notin Range(Noted')
      BY <1>1, <3>1, <3>2, DropOne, Zenon
    <3>4. shown' = shown
      BY <1>1
    <3>5. Range(Noted) \cup missed = Range(shown) /\ Range(Noted) \cap missed = {}
      BY <2>1 DEF Told
    <3>6. Range(Noted') \cup missed' = Range(shown') /\ Range(Noted') \cap missed' = {}
      BY <2>5, <3>3, <3>4, <3>5
    <3> QED BY <3>3, <3>6 DEF Told
  <2>6. Told'
    BY <1>1, <2>4, <2>5
  <2> QED BY <1>1, <2>2, <2>3, <2>6 DEF InPlace
<1> QED BY <1>1, <1>3, <1>4, <1>5 DEF Frames

\* What was yet to be told when the process ends is missed.
LEMMA CrashFrames ==
  ASSUME IInv, Frames, Crash
  PROVE  Frames'
<1>1. /\ told \in Seq(Nat) /\ telling \in Seq(Nat) /\ missed \in SUBSET Nat
      /\ telling' = <<>> /\ missed' = missed \cup Range(telling) /\ told' = told
      /\ pc' = "idle" /\ wire' = <<>>
      /\ UNCHANGED <<head, slotSeq, buffer, slot, frames, skipped, shown>>
  BY DEF Frames, LogsTyped, Crash
<1>2. /\ Noted \in Seq(Nat) /\ Len(Noted) = Len(told) + Len(telling)
      /\ \A i \in 1..Len(told) : Noted[i] = told[i]
      /\ \A i \in 1..Len(telling) : Noted[Len(told) + i] = telling[i]
      /\ Range(Noted) = Range(told) \cup Range(telling)
  BY <1>1, Joined, Zenon DEF Noted
<1>3. /\ DOMAIN told = 1..Len(told) /\ Len(told) \in Nat
      /\ DOMAIN telling = 1..Len(telling) /\ Len(telling) \in Nat
      /\ DOMAIN Noted = 1..Len(told) + Len(telling)
      /\ Range(telling) \subseteq Nat
  BY <1>1, <1>2 DEF Range
<1>4. Noted' = told /\ <<>> \in Seq(Nat) /\ DOMAIN <<>> = {}
  BY <1>1 DEF Noted
<1>5. LogsTyped'
  BY <1>1, <1>3, <1>4 DEF Frames, LogsTyped
<1>6. WireInOrder'
  BY <1>1, <1>4 DEF WireInOrder
<1>7. ASSUME ~skipped PROVE InPlace'
  <2>1. InPlace /\ Told
    BY <1>7 DEF Frames, InPlace
  <2>2. Submission' /\ ShownBefore'
    BY <1>1, <1>4, <2>1 DEF InPlace, Submission, ShownBefore, Past
  <2>3. \A i \in DOMAIN wire' : HoldsFrame(i)'
    BY <1>1, <1>4
  <2>4. \A f \in Range(told), g \in Range(telling) : f < g
    <3> SUFFICES ASSUME NEW i \in 1..Len(told), NEW j \in 1..Len(telling)
                 PROVE  told[i] < telling[j]
      BY <1>3 DEF Range
    <3>1. /\ i \in DOMAIN Noted /\ Len(told) + j \in DOMAIN Noted
          /\ i < Len(told) + j
      BY <1>3
    <3> QED BY <1>2, <2>1, <3>1 DEF Told
  <2>5. Range(told) \cap Range(telling) = {}
    BY <1>3, <2>4
  <2>6. \A i, j \in DOMAIN told : i < j => told[i] < told[j]
    <3> SUFFICES ASSUME NEW i \in DOMAIN told, NEW j \in DOMAIN told, i < j
                 PROVE  told[i] < told[j]
      OBVIOUS
    <3>1. i \in DOMAIN Noted /\ j \in DOMAIN Noted
      BY <1>3
    <3> QED BY <1>2, <1>3, <2>1, <3>1 DEF Told
  <2>7. Told'
    BY <1>1, <1>2, <1>4, <2>1, <2>5, <2>6 DEF Told
  <2> QED BY <1>1, <2>2, <2>3, <2>7 DEF InPlace
<1> QED BY <1>1, <1>5, <1>6, <1>7 DEF Frames

\* A client comes or goes, or the pipe closes: nothing is told or missed.
LEMMA OtherFrames ==
  ASSUME IInv, Frames,
         \/ Stop \/ UNCHANGED vars
         \/ \E k \in Clients : ClientStart(k) \/ Register(k) \/ ClientStop(k)
  PROVE  Frames'
<1>1. UNCHANGED <<head, slotSeq, buffer, pc, slot, frames, skipped, wire, shown,
                  telling, told, missed>>
  BY DEF ClientStart, Register, ClientStop, Stop, vars, ringVars, submitVars, stackVars,
         clientVars
<1>2. LogsTyped' /\ WireInOrder'
  BY <1>1 DEF Frames, LogsTyped, WireInOrder, Past
<1>3. ASSUME ~skipped PROVE InPlace'
  <2>1. InPlace
    BY <1>3 DEF Frames
  <2>2. Submission' /\ ShownBefore' /\ Told'
    BY <1>1, <2>1 DEF InPlace, Submission, ShownBefore, Past, Told, Noted
  <2>3. \A i \in DOMAIN wire : HoldsFrame(i)'
    BY <1>1, <2>1 DEF InPlace, HoldsFrame, End, Back
  <2> QED BY <1>1, <2>2, <2>3 DEF InPlace
<1> QED BY <1>1, <1>2, <1>3 DEF Frames

\* In every state, the frames in flight are where the handler looks for them,
\* and the frames told are the first of those transferred.
THEOREM FramesInvariant == Spec => [](IInv /\ Frames)
<1>1. Init => IInv /\ Frames
  BY InitIInv, InitFrames
<1>2. IInv /\ Frames /\ [Next]_vars => (IInv /\ Frames)'
  <2> SUFFICES ASSUME IInv, Frames, [Next]_vars PROVE IInv' /\ Frames'
    OBVIOUS
  <2>1. IInv'
    BY SubmitIInv, CompleteIInv, OtherIInv, CrashIInv DEF Next
  <2>2. Frames'
    BY ReserveFrames, FillFrames, FailedFrames, AcceptFrames, CompleteFrames,
       TellFrames, CrashFrames, OtherFrames DEF Next
  <2> QED BY <2>1, <2>2
<1> QED BY <1>1, <1>2, PTL DEF Spec

\* Unless a slot was passed over for want of an address, the slots in flight
\* follow one another up to the next to be handed over, each with the bytes
\* and the number of its frame.
THEOREM RingHolds == Spec => []RingHoldsFrames
<1>1. IInv /\ Frames => RingHoldsFrames
  <2> SUFFICES ASSUME IInv, Frames, ~skipped PROVE RingHoldsFrames
    BY DEF RingHoldsFrames
  <2>1. InPlace /\ Submission
    BY DEF Frames, InPlace
  <2>2. Len(wire) < Depth \/ pc = "idle"
    BY <2>1 DEF Submission
  <2>3. End \in Ring
    BY DEF IInv, TypeOK, End
  <2>4. ASSUME NEW i \in DOMAIN wire
        PROVE  /\ wire[i].slot = (End + Depth - (Len(wire) + 1 - i)) % Depth
               /\ slotSeq[wire[i].slot] = wire[i].frame
               /\ buffer[wire[i].slot] = wire[i].frame
    <3>1. HoldsFrame(i)
      BY <2>1 DEF InPlace
    <3>2. Len(wire) + 1 - i \in 1..Depth
      BY Transfer
    <3> QED BY <2>3, <3>1, <3>2, BackInRing DEF HoldsFrame
  <2> QED BY <2>2, <2>4 DEF RingHoldsFrames, End
<1> QED BY FramesInvariant, <1>1, PTL

\* Unless a slot was passed over, clients are told of frames in the order of
\* their submission, each once, and every frame that was transferred is told, or
\* yet to be told, or nobody was there to be told.
THEOREM FramesAreToldInOrder == Spec => []ToldInOrder
<1>1. IInv /\ Frames => ToldInOrder
  BY DEF Frames, InPlace, Told, Noted, ToldInOrder
<1> QED BY FramesInvariant, <1>1, PTL
=============================================================================
