------------------------- MODULE InputEvents_proofs -------------------------
(***************************************************************************)
(* Proofs about InputEvents, for any buttons, pads, positions, pressures,  *)
(* thresholds, reports and capacities of the channels.                     *)
(*                                                                         *)
(* The model folds over sequences.  What a fold computes is proved by      *)
(* induction over sets of numbers (Climb), which rests on the library's    *)
(* theorem that < is well founded on the natural numbers.                  *)
(***************************************************************************)
EXTENDS InputEvents, FiniteSetTheorems, WellFoundedInduction, TLAPS

Slots == [pad : Pads, pressure : Pressures]
PadStates == [on : SUBSET Pads, pressures : [Pads -> Pressures], raw_stream : BOOLEAN]

Reports ==
  [id : {"controls"}, controls : Controls] \cup [id : {"pads"}, slots : Seq(Slots)]
  \cup [id : {"other"}]

ControlEvent ==
  [type : {"button"}, bit : Buttons, pressed : BOOLEAN]
  \cup [type : {"encoder"}, delta : Int]
  \cup [type : {"strip"}, at : Positions \cup {None}]
  \cup [type : {"knob"}, value : Knob]
PadEvent == [type : {"pad"}, pad : Pads, phase : Phases]
Events == ControlEvent \cup PadEvent

Touched == [buttons : SUBSET Buttons, encoder : Int, strip : Positions \cup {None},
            knob : Knob]
Pictures == [buttons : SUBSET Buttons, encoder : Int, strip : Positions \cup {None},
             knob : Knob, held : SUBSET Pads]

Typed ==
  /\ device \in [controls : Touched, first : SUBSET Int, pressure : [Pads -> Pressures]]
  /\ reader \in {"running", "ended"} /\ diff \in {"receiving", "sending", "ended"}
  /\ raw \in Seq(Reports) /\ Len(raw) <= RawCap
  /\ controls \in Controls /\ pads \in PadStates
  /\ out \in Seq(Events)
  /\ events \in Seq(Events) /\ Len(events) <= EventCap
  /\ open \in BOOLEAN
  /\ client \in Pictures
  /\ reports \in 0..MaxReports

\* The diff task receives when it has sent all, and ends when the client has.
Tasks ==
  /\ diff = "receiving" => out = <<>>
  /\ diff = "ended" => ~open

\* What the client makes of a sequence of events.
After(c, s) == FoldLeft(Apply, c, s)

Agrees(c, k, state) ==
  /\ c.buttons = k.buttons
  /\ c.encoder % ENCODER_WRAP = k.encoder
  /\ c.strip = k.strip
  /\ c.knob = k.knob
  /\ c.held = state.on

\* The first attack, pressure or release that a client c cannot make sense of
\* is not in s.
Alternates(c, s) ==
  \A i \in DOMAIN s :
    s[i].type = "pad" =>
      (s[i].phase = "attack") = (s[i].pad \notin After(c, SubSeq(s, 1, i - 1)).held)

\* A pad that is on was last above the threshold of release.
OnIsPressed(state) ==
  /\ \A p \in state.on : state.pressures[p] > pad_off_threshold
  /\ state.raw_stream => state.on = {}

\* Report r has a slot of pad p.
Has(r, p) == r.id = "pads" /\ \E k \in DOMAIN r.slots : r.slots[k].pad = p

\* The last slot of pad p in a report has this pressure.
LastIs(slots, p, pressure) ==
  \E k \in DOMAIN slots :
    /\ slots[k] = [pad |-> p, pressure |-> pressure]
    /\ \A l \in DOMAIN slots : l > k => slots[l].pad # p

\* Of the reports q on their way, the last slot of pad p has this pressure, or
\* none has a slot of it and the diff task has the pressure already.
Shows(q, last, had, p) ==
  \/ (\A i \in DOMAIN q : ~Has(q[i], p)) /\ last = had
  \/ \E i \in DOMAIN q :
       /\ q[i].id = "pads" /\ LastIs(q[i].slots, p, last)
       /\ \A j \in DOMAIN q : j > i => ~Has(q[j], p)

\* The client will have the picture that the diff task has.
Agreed == open => Agrees(After(client, Coming), controls, pads)

\* It can make sense of every event on its way.
Alternating == open /\ ~pads.raw_stream => Alternates(client, Coming)

\* The diff task will have the pressures that the device has reported.
Stepping ==
  open => \A p \in Pads \ {0} : Shows(raw, device.pressure[p], pads.pressures[p], p)

IInv == Typed /\ Tasks /\ Agreed /\ Alternating /\ OnIsPressed(pads) /\ Stepping

----------------------------------------------------------------------------
\* Induction, and what a fold computes

\* A set of numbers has a least.
LEMMA Least ==
  ASSUME NEW T \in SUBSET Nat, T # {}
  PROVE  \E m \in T : \A k \in T : m <= k
<1>1. PICK m \in T : \A k \in T : <<k, m>> \notin OpToRel(<, Nat)
  BY NatLessThanWellFounded, WFMin
<1>2. \A k \in T : ~ (k < m)
  BY <1>1 DEF OpToRel
<1>3. \A k \in T : k \in Nat /\ m \in Nat
  OBVIOUS
<1>4. \A k \in T : m <= k
  BY <1>2, <1>3
<1> QED BY <1>4

\* Induction from 0 to n, on a set.
LEMMA Climb ==
  ASSUME NEW n \in Nat, NEW Q, 0 \in Q,
         \A i \in 0..n : i \in Q /\ i < n => i + 1 \in Q
  PROVE  \A i \in 0..n : i \in Q
<1> DEFINE T == {i \in 0..n : i \notin Q}
<1>1. SUFFICES ASSUME T # {} PROVE FALSE
  OBVIOUS
<1>a. T \in SUBSET Nat
  OBVIOUS
<1> HIDE DEF T
<1>2. PICK m \in T : \A k \in T : m <= k
  BY <1>1, <1>a, Least
<1>3. m \in 0..n /\ m \notin Q /\ m # 0
  BY DEF T
<1>4. m - 1 \in 0..n /\ m - 1 < n /\ m - 1 + 1 = m /\ ~(m <= m - 1)
  BY <1>3
<1>5. m - 1 \in Q
  BY <1>2, <1>4 DEF T
<1> DEFINE i == m - 1
<1>6. i \in 0..n /\ i < n /\ i \in Q /\ i + 1 = m
  BY <1>4, <1>5
<1> HIDE DEF i
<1>7. i + 1 \in Q
  BY <1>6
<1> QED BY <1>3, <1>6, <1>7

\* The maximum of a set that holds its bound.
LEMMA Greatest ==
  ASSUME NEW k \in Nat, NEW t \in SUBSET (1..k), k \in t
  PROVE  Max(t) = k
<1>1. \A y \in t : y \in Nat /\ k >= y
  OBVIOUS
<1>2. \A x \in t : (\A y \in t : x >= y) => x = k
  BY <1>1
<1> QED BY <1>1, <1>2 DEF Max

\* g takes a state and an element to the next state.
Steps(g, S, E) == g \in [S \X E -> S]

\* The function that a fold of g is computed with: it takes off the greatest
\* index first.
Folds(f, S, g, c, s, k) ==
  /\ f \in [SUBSET (1..k) -> S]
  /\ \A t \in SUBSET (1..k) :
       /\ t # {} => Max(t) \in t
       /\ f[t] = IF t = {} THEN c ELSE g[<<f[t \ {Max(t)}], s[Max(t)]>>]

\* It exists.
LEMMA FoldsNext ==
  ASSUME NEW S, NEW E, NEW g, Steps(g, S, E), NEW c \in S, NEW s, NEW k \in Nat,
         s[k + 1] \in E, NEW f, Folds(f, S, g, c, s, k)
  PROVE  \E e : Folds(e, S, g, c, s, k + 1)
<1> DEFINE m == k + 1
           e == [t \in SUBSET (1..m) |->
                   IF m \in t THEN g[<<f[t \ {m}], s[m]>>] ELSE f[t]]
<1>1. /\ m \in Nat /\ m \notin 1..k
      /\ \A t \in SUBSET (1..m) : t \ {m} \in SUBSET (1..k)
      /\ \A t \in SUBSET (1..m) : m \notin t => t \in SUBSET (1..k)
      /\ f \in [SUBSET (1..k) -> S]
  BY DEF Folds
<1>2. e \in [SUBSET (1..m) -> S]
  <2> SUFFICES ASSUME NEW t \in SUBSET (1..m)
               PROVE  (IF m \in t THEN g[<<f[t \ {m}], s[m]>>] ELSE f[t]) \in S
    OBVIOUS
  <2>1. f[t \ {m}] \in S
    BY <1>1
  <2>2. g[<<f[t \ {m}], s[m]>>] \in S
    BY <2>1 DEF Steps
  <2>3. m \notin t => f[t] \in S
    BY <1>1
  <2> QED BY <2>2, <2>3
<1>3. ASSUME NEW t \in SUBSET (1..m)
      PROVE  /\ t # {} => Max(t) \in t
             /\ e[t] = IF t = {} THEN c ELSE g[<<e[t \ {Max(t)}], s[Max(t)]>>]
  <2>1. CASE m \in t
    <3>1. Max(t) = m
      BY <1>1, <2>1, Greatest
    <3>2. t \ {m} \in SUBSET (1..k) /\ t \ {m} \in SUBSET (1..m)
      BY <1>1
    <3>3. e[t \ {m}] = f[t \ {m}]
      BY <3>2
    <3> QED BY <2>1, <3>1, <3>3
  <2>2. CASE m \notin t
    <3>1. t \in SUBSET (1..k) /\ e[t] = f[t]
      BY <1>1, <2>2
    <3>2. t \ {Max(t)} \in SUBSET (1..m) /\ m \notin t \ {Max(t)}
      BY <2>2
    <3>3. e[t \ {Max(t)}] = f[t \ {Max(t)}]
      BY <3>2
    <3>4. /\ t # {} => Max(t) \in t
          /\ f[t] = IF t = {} THEN c ELSE g[<<f[t \ {Max(t)}], s[Max(t)]>>]
      BY <3>1 DEF Folds
    <3> QED BY <3>1, <3>3, <3>4
  <2> QED BY <2>1, <2>2
<1> HIDE DEF e
<1>4. Folds(e, S, g, c, s, m)
  BY <1>2, <1>3 DEF Folds
<1> QED BY <1>4

\* There is one for every sequence.
LEMMA FoldsExists ==
  ASSUME NEW S, NEW E, NEW g, Steps(g, S, E), NEW c \in S, NEW s \in Seq(E)
  PROVE  \E f : Folds(f, S, g, c, s, Len(s))
<1> DEFINE Q == {i \in 0..Len(s) : \E f : Folds(f, S, g, c, s, i)}
<1>1. Len(s) \in Nat /\ DOMAIN s = 1..Len(s)
  OBVIOUS
<1>2. 0 \in Q
  <2> DEFINE f == [t \in {{}} |-> c]
  <2>1. SUBSET (1..0) = {{}}
    <3>1. 1..0 = {}
      OBVIOUS
    <3> QED BY <3>1
  <2>2. f \in [{{}} -> S] /\ f[{}] = c
    OBVIOUS
  <2> HIDE DEF f
  <2>3. Folds(f, S, g, c, s, 0)
    <3>1. \A t \in SUBSET (1..0) : t = {} /\ f[t] = c
      BY <2>1, <2>2
    <3>2. f \in [SUBSET (1..0) -> S]
      BY <2>1, <2>2
    <3> QED BY <3>1, <3>2 DEF Folds
  <2>4. 0 \in 0..Len(s)
    BY <1>1
  <2> QED BY <2>3, <2>4
<1>3. ASSUME NEW i \in 0..Len(s), i \in Q, i < Len(s)
      PROVE  i + 1 \in Q
  <2>1. i \in Nat /\ i + 1 \in 0..Len(s) /\ s[i + 1] \in E
    BY <1>1, <1>3
  <2>2. PICK f : Folds(f, S, g, c, s, i)
    BY <1>3
  <2>3. \E e : Folds(e, S, g, c, s, i + 1)
    BY <2>1, <2>2, FoldsNext
  <2> QED BY <2>1, <2>3
<1> HIDE DEF Q
<1>4. \A i \in 0..Len(s) : i \in Q /\ i < Len(s) => i + 1 \in Q
  BY <1>3
<1>5. Len(s) \in Nat
  BY <1>1
<1>6. \A i \in 0..Len(s) : i \in Q
  BY <1>2, <1>4, <1>5, Climb, Zenon
<1>7. Len(s) \in Q
  BY <1>5, <1>6
<1> QED BY <1>7 DEF Q

----------------------------------------------------------------------------
\* The states that a fold goes through.
IsWalk(h, S, g, c, s) ==
  /\ h \in [0..Len(s) -> S]
  /\ h[0] = c
  /\ \A i \in 0..Len(s) : i < Len(s) => h[i + 1] = g[<<h[i], s[i + 1]>>]

Walk(S, g, c, s) == CHOOSE h \in [0..Len(s) -> S] : IsWalk(h, S, g, c, s)
WalkAt(S, g, c, s, i) == Walk(S, g, c, s)[i]
Folded(S, g, c, s) == WalkAt(S, g, c, s, Len(s))

\* What the function of FoldLeft has for the first indices is a walk.
LEMMA WalkOfFolds ==
  ASSUME NEW S, NEW E, NEW g, Steps(g, S, E), NEW c \in S, NEW s \in Seq(E),
         NEW f, Folds(f, S, g, c, s, Len(s))
  PROVE  \E h : IsWalk(h, S, g, c, s)
<1> DEFINE n == Len(s)
           h == [i \in 0..n |-> f[1..i]]
           Q == {i \in 0..n : h[i] \in S}
<1>1. n \in Nat /\ DOMAIN s = 1..n
  OBVIOUS
<1>2. f[{}] = c /\ h[0] = c
  <2>1. 1..0 = {} /\ {} \in SUBSET (1..n) /\ 0 \in 0..n
    BY <1>1
  <2>2. f[{}] = c
    BY <2>1 DEF Folds
  <2> QED BY <2>1, <2>2
<1>3. \A i \in 0..n : i < n => h[i + 1] = g[<<h[i], s[i + 1]>>]
  <2> SUFFICES ASSUME NEW i \in 0..n, i < n PROVE h[i + 1] = g[<<h[i], s[i + 1]>>]
    OBVIOUS
  <2> DEFINE k == i + 1
             t == 1..k
  <2>1. k \in Nat /\ k \in 1..n /\ k \in 0..n /\ k - 1 = i
    BY <1>1
  <2>2. t \in SUBSET (1..n) /\ k \in t /\ t \in SUBSET (1..k) /\ t \ {k} = 1..i
    BY <1>1, <2>1
  <2>3. h[k] = f[t] /\ h[i] = f[t \ {k}]
    BY <2>1, <2>2
  <2> HIDE DEF k, t, h
  <2>4. Max(t) = k
    BY <2>1, <2>2, Greatest
  <2>5. f[t] = g[<<f[t \ {k}], s[k]>>]
    BY <2>2, <2>4 DEF Folds
  <2>6. h[k] = g[<<h[i], s[k]>>]
    BY <2>3, <2>5
  <2> QED BY <2>6 DEF k
<1> HIDE DEF h
<1>4. 0 \in Q
  BY <1>1, <1>2
<1>5. \A i \in 0..n : i \in Q /\ i < n => i + 1 \in Q
  <2> SUFFICES ASSUME NEW i \in 0..n, i \in Q, i < n PROVE i + 1 \in Q
    OBVIOUS
  <2>1. i + 1 \in 0..n /\ s[i + 1] \in E
    BY <1>1
  <2>2. g[<<h[i], s[i + 1]>>] \in S
    BY <2>1 DEF Steps
  <2> QED BY <1>3, <2>1, <2>2
<1> HIDE DEF Q, n
<1>6. \A i \in 0..n : i \in Q
  BY <1>1, <1>4, <1>5, Climb
<1>7. \A i \in 0..n : h[i] \in S
  BY <1>6 DEF Q
<1>8. h \in [0..n -> S]
  BY <1>7 DEF h
<1>9. IsWalk(h, S, g, c, s)
  BY <1>2, <1>3, <1>8 DEF IsWalk, n
<1> QED BY <1>9

\* So there is one.
LEMMA WalkExists ==
  ASSUME NEW S, NEW E, NEW g, Steps(g, S, E), NEW c \in S, NEW s \in Seq(E)
  PROVE  IsWalk(Walk(S, g, c, s), S, g, c, s)
<1>1. PICK f : Folds(f, S, g, c, s, Len(s))
  BY FoldsExists
<1>2. PICK h : IsWalk(h, S, g, c, s)
  BY <1>1, WalkOfFolds
<1>3. h \in [0..Len(s) -> S]
  BY <1>2 DEF IsWalk
<1> QED BY <1>2, <1>3 DEF Walk

\* The fold of a prefix is the state that the walk has there.
LEMMA FoldedPrefix ==
  ASSUME NEW S, NEW E, NEW g, Steps(g, S, E), NEW c \in S, NEW s \in Seq(E),
         NEW i \in Nat, i <= Len(s)
  PROVE  Folded(S, g, c, SubSeq(s, 1, i)) = WalkAt(S, g, c, s, i)
<1> DEFINE z == SubSeq(s, 1, i)
<1>1. Len(s) \in Nat /\ i \in Nat /\ i <= Len(s)
  OBVIOUS
<1>2. z \in Seq(E) /\ Len(z) = i /\ \A k \in 1..i : z[k] = s[k]
  BY <1>1
<1> HIDE DEF z
<1> DEFINE h == Walk(S, g, c, z)
           e == Walk(S, g, c, s)
<1>3. IsWalk(h, S, g, c, z) /\ IsWalk(e, S, g, c, s)
  BY <1>2, WalkExists
<1> HIDE DEF h, e
<1>4. i \in 0..Len(z) /\ Len(z) <= Len(s) /\ \A k \in 1..Len(z) : z[k] = s[k]
  BY <1>1, <1>2
<1> DEFINE Q == {k \in 0..i : h[k] = e[k]}
<1>5. 0 \in Q
  BY <1>1, <1>3 DEF IsWalk
<1>6. ASSUME NEW k \in 0..i, k \in Q, k < i
      PROVE  k + 1 \in Q
  <2>1. /\ k + 1 \in 0..i /\ k + 1 \in 1..Len(z)
        /\ k \in 0..Len(z) /\ k < Len(z) /\ k \in 0..Len(s) /\ k < Len(s)
    BY <1>1, <1>2, <1>6
  <2>2. h[k + 1] = g[<<h[k], z[k + 1]>>] /\ e[k + 1] = g[<<e[k], s[k + 1]>>]
    BY <1>3, <2>1 DEF IsWalk
  <2>3. z[k + 1] = s[k + 1] /\ h[k] = e[k]
    BY <1>4, <1>6, <2>1
  <2>4. h[k + 1] = e[k + 1]
    BY <2>2, <2>3
  <2> QED BY <2>1, <2>4
<1> HIDE DEF Q
<1>7. \A k \in 0..i : k \in Q /\ k < i => k + 1 \in Q
  BY <1>6
<1>8. i \in Nat
  BY <1>1
<1>9. \A k \in 0..i : k \in Q
  BY <1>5, <1>7, <1>8, Climb
<1>10. i \in Q
  BY <1>1, <1>9
<1>11. Folded(S, g, c, z) = e[i]
  BY <1>2, <1>10 DEF Folded, WalkAt, h, Q
<1> QED BY <1>11 DEF WalkAt, z, e

\* One step of a fold of g, from x with the i-th element of s.
Step(g, x, s, i) == g[<<x, s[i]>>]

\* The empty fold, the next step of a fold, and its type.
LEMMA FoldedNext ==
  ASSUME NEW S, NEW E, NEW g, Steps(g, S, E), NEW c \in S, NEW s \in Seq(E)
  PROVE  /\ Folded(S, g, c, SubSeq(s, 1, 0)) = c
         /\ \A i \in 0..Len(s) : Folded(S, g, c, SubSeq(s, 1, i)) \in S
         /\ \A i \in 0..Len(s) :
              i < Len(s) => Folded(S, g, c, SubSeq(s, 1, i + 1))
                              = Step(g, Folded(S, g, c, SubSeq(s, 1, i)), s, i + 1)
<1> DEFINE h == Walk(S, g, c, s)
<1>1. Len(s) \in Nat /\ 0 \in 0..Len(s)
      /\ \A i \in 0..Len(s) : i < Len(s) => i + 1 \in 0..Len(s)
  OBVIOUS
<1>2. IsWalk(h, S, g, c, s)
  BY WalkExists
<1>3. \A i \in 0..Len(s) : Folded(S, g, c, SubSeq(s, 1, i)) = h[i]
  <2> SUFFICES ASSUME NEW i \in 0..Len(s)
               PROVE  Folded(S, g, c, SubSeq(s, 1, i)) = h[i]
    OBVIOUS
  <2>1. i \in Nat
    BY <1>1
  <2>1a. i <= Len(s)
    BY <1>1
  <2> HIDE DEF h
  <2>2. Folded(S, g, c, SubSeq(s, 1, i)) = WalkAt(S, g, c, s, i)
    BY <2>1, <2>1a, FoldedPrefix
  <2> QED BY <2>2 DEF WalkAt, h
<1> HIDE DEF h
<1> QED BY <1>1, <1>2, <1>3 DEF IsWalk, Step

\* The fold over one element.
LEMMA FoldedOne ==
  ASSUME NEW S, NEW E, NEW g, Steps(g, S, E), NEW c \in S, NEW s \in Seq(E), Len(s) = 1
  PROVE  Folded(S, g, c, s) = Step(g, c, s, 1)
<1>1. /\ Folded(S, g, c, SubSeq(s, 1, 0)) = c
      /\ \A i \in 0..Len(s) :
           i < Len(s) => Folded(S, g, c, SubSeq(s, 1, i + 1))
                           = Step(g, Folded(S, g, c, SubSeq(s, 1, i)), s, i + 1)
  BY FoldedNext
<1>2. 0 \in 0..Len(s) /\ 0 < Len(s) /\ 0 + 1 = 1
  OBVIOUS
<1>3. Folded(S, g, c, SubSeq(s, 1, 1)) = Step(g, c, s, 1)
  BY <1>1, <1>2
<1>4. SubSeq(s, 1, 1) = s
  <2>1. SubSeq(s, 1, 1) \in Seq(E) /\ Len(SubSeq(s, 1, 1)) = 1
        /\ \A i \in 1..1 : SubSeq(s, 1, 1)[i] = s[i]
    OBVIOUS
  <2> QED BY <2>1
<1> QED BY <1>3, <1>4

\* A fold over two sequences goes on from the fold over the first.
LEMMA FoldedConcat ==
  ASSUME NEW S, NEW E, NEW g, Steps(g, S, E), NEW c \in S, NEW s \in Seq(E),
         NEW z \in Seq(E)
  PROVE  Folded(S, g, c, s \o z) = Folded(S, g, Folded(S, g, c, s), z)
<1> DEFINE y == s \o z
           m == Folded(S, g, c, s)
           h == Walk(S, g, c, y)
           e == Walk(S, g, m, z)
           n == Len(z)
           l == Len(s)
           Q == {i \in 0..n : h[l + i] = e[i]}
<1>1. /\ l \in Nat /\ n \in Nat /\ y \in Seq(E) /\ Len(y) = l + n
      /\ \A i \in 1..n : y[l + i] = z[i]
  OBVIOUS
<1>2. SubSeq(y, 1, l) = s
  <2>1. Len(SubSeq(y, 1, l)) = l
    BY <1>1
  <2>2. SubSeq(y, 1, l) \in Seq(E)
    BY <1>1
  <2>3. \A i \in 1..l : SubSeq(y, 1, l)[i] = s[i]
    BY <1>1
  <2> QED BY <2>1, <2>2, <2>3
<1>3. l \in 0..Len(y)
  BY <1>1
<1>4. m = h[l]
  <2>1. l \in Nat /\ l <= Len(y)
    BY <1>1
  <2> HIDE DEF l, y
  <2>2. Folded(S, g, c, SubSeq(y, 1, l)) = WalkAt(S, g, c, y, l)
    BY <1>1, <2>1, FoldedPrefix
  <2> QED BY <2>2, <1>2 DEF WalkAt
<1>5. IsWalk(h, S, g, c, y)
  <2> HIDE DEF y
  <2> QED BY <1>1, WalkExists
<1>6. m \in S
  BY <1>3, <1>4, <1>5 DEF IsWalk
<1>7. IsWalk(e, S, g, m, z)
  <2> HIDE DEF m
  <2> QED BY <1>6, WalkExists
<1> HIDE DEF h, e, y, m
<1>8. 0 \in Q
  BY <1>1, <1>4, <1>7 DEF IsWalk
<1>9. \A i \in 0..n : i \in Q /\ i < n => i + 1 \in Q
  <2> SUFFICES ASSUME NEW i \in 0..n, i \in Q, i < n PROVE i + 1 \in Q
    OBVIOUS
  <2>1. i + 1 \in 0..n /\ i + 1 \in 1..n /\ l + i \in 0..Len(y) /\ l + i < Len(y)
        /\ l + (i + 1) = (l + i) + 1
    BY <1>1
  <2>2. h[(l + i) + 1] = g[<<h[l + i], y[(l + i) + 1]>>]
    BY <1>5, <2>1 DEF IsWalk
  <2>3. e[i + 1] = g[<<e[i], z[i + 1]>>]
    BY <1>7, <2>1 DEF IsWalk
  <2>4. y[(l + i) + 1] = z[i + 1] /\ h[l + i] = e[i]
    BY <1>1, <2>1
  <2>5. h[l + (i + 1)] = e[i + 1]
    BY <2>1, <2>2, <2>3, <2>4
  <2> QED BY <2>1, <2>5
<1> HIDE DEF Q, n
<1>10. \A i \in 0..n : i \in Q
  BY <1>1, <1>8, <1>9, Climb
<1>11. n \in 0..n
  BY <1>1
<1>12. h[l + n] = e[n]
  BY <1>10, <1>11 DEF Q
<1> QED BY <1>1, <1>12 DEF Folded, WalkAt, h, e, y, m, n

\* A function computed by FoldLeft, which does as g as long as it has states.
Fits(f, S, g, c, s) ==
  /\ f[{}] = c
  /\ \A t \in SUBSET (1..Len(s)) :
       t # {} /\ f[t \ {Max(t)}] \in S => f[t] = g[<<f[t \ {Max(t)}], s[Max(t)]>>]

Result(f, s) == f[1..Len(s)]

\* Its result is the fold of g.
LEMMA FitsFolded ==
  ASSUME NEW S, NEW E, NEW g, Steps(g, S, E), NEW c \in S, NEW s \in Seq(E),
         NEW f, Fits(f, S, g, c, s)
  PROVE  Result(f, s) = Folded(S, g, c, s)
<1> DEFINE n == Len(s)
           h == Walk(S, g, c, s)
           Q == {i \in 0..n : f[1..i] = h[i]}
<1>1. IsWalk(h, S, g, c, s)
  BY WalkExists
<1> HIDE DEF h
<1>2. n \in Nat /\ 0 \in 0..n /\ 1..0 = {}
  OBVIOUS
<1>3. 0 \in Q
  BY <1>1, <1>2 DEF IsWalk, Fits
<1>4. \A i \in 0..n : i \in Q /\ i < n => i + 1 \in Q
  <2> SUFFICES ASSUME NEW i \in 0..n, i \in Q, i < n PROVE i + 1 \in Q
    OBVIOUS
  <2> DEFINE k == i + 1
             t == 1..k
  <2>1. k \in Nat /\ k \in 0..n /\ f[1..i] = h[i]
    BY <1>2
  <2>2. k \in t /\ t \in SUBSET (1..k) /\ t \in SUBSET (1..n) /\ t \ {k} = 1..i
    BY <1>2, <2>1
  <2>3. h[i] \in S /\ h[k] = g[<<h[i], s[k]>>]
    BY <1>1 DEF IsWalk
  <2> HIDE DEF k, t
  <2>4. Max(t) = k
    BY <2>1, <2>2, Greatest
  <2>5. f[t] = g[<<f[t \ {k}], s[k]>>]
    BY <2>1, <2>2, <2>3, <2>4 DEF Fits
  <2>6. f[t] = h[k]
    BY <2>1, <2>2, <2>3, <2>5
  <2> QED BY <2>1, <2>6 DEF k, t
<1> HIDE DEF Q, n
<1>5. \A i \in 0..n : i \in Q
  BY <1>2, <1>3, <1>4, Climb
<1>6. n \in Q
  BY <1>2, <1>5
<1> QED BY <1>6 DEF Q, n, h, Folded, WalkAt, Result

----------------------------------------------------------------------------
\* What the client makes of events

\* Apply, as a function.
Applied == [x \in Pictures \X Events |-> Apply(x[1], x[2])]

\* What the client makes of an event is a picture.
LEMMA ApplyIn ==
  ASSUME NEW c \in Pictures, NEW e \in Events
  PROVE  Apply(c, e) \in Pictures
<1>1. CASE e.type = "button"
  <2>1. e.bit \in Buttons
    BY <1>1 DEF Events, ControlEvent, PadEvent
  <2> QED BY <1>1, <2>1 DEF Apply, Pictures
<1>2. CASE e.type = "encoder"
  <2>1. e.delta \in Int /\ c.encoder + e.delta \in Int
    BY <1>2 DEF Events, ControlEvent, PadEvent, Pictures
  <2> QED BY <1>2, <2>1 DEF Apply, Pictures
<1>3. CASE e.type = "strip"
  <2>1. e.at \in Positions \cup {None}
    BY <1>3 DEF Events, ControlEvent, PadEvent
  <2> QED BY <1>3, <2>1 DEF Apply, Pictures
<1>4. CASE e.type = "knob"
  <2>1. e.value \in Knob
    BY <1>4 DEF Events, ControlEvent, PadEvent
  <2> QED BY <1>4, <2>1 DEF Apply, Pictures
<1>5. CASE e.type = "pad"
  <2>1. e.pad \in Pads
    BY <1>5 DEF Events, ControlEvent, PadEvent
  <2> DEFINE held == CASE e.phase = "attack" -> c.held \cup {e.pad}
                       [] e.phase = "release" -> c.held \ {e.pad}
                       [] OTHER -> c.held
  <2>2. held \in SUBSET Pads
    BY <2>1 DEF Pictures
  <2>3. Apply(c, e) = [c EXCEPT !.held = held]
    BY <1>5 DEF Apply
  <2> HIDE DEF held
  <2> QED BY <2>2, <2>3 DEF Pictures
<1>6. e.type \in {"button", "encoder", "strip", "knob", "pad"}
  BY DEF Events, ControlEvent, PadEvent
<1> QED BY <1>1, <1>2, <1>3, <1>4, <1>5, <1>6

\* The client's picture after some events is the fold of that function.
LEMMA AfterFolds ==
  ASSUME NEW c \in Pictures, NEW s \in Seq(Events)
  PROVE  After(c, s) = Folded(Pictures, Applied, c, s)
<1> DEFINE n == Len(s)
           Is(f) == f = [t \in SUBSET (1..n) |->
                           IF t = {} THEN c ELSE Apply(f[t \ {Max(t)}], s[Max(t)])]
           F == CHOOSE f : Is(f)
<1>1. n \in Nat /\ DOMAIN s = 1..n /\ {} \in SUBSET (1..n)
      /\ \A m \in 1..n : s[m] \in Events
  OBVIOUS
<1>2. Steps(Applied, Pictures, Events)
  BY ApplyIn DEF Applied, Steps
<1>3. PICK f : Folds(f, Pictures, Applied, c, s, n)
  BY <1>2, FoldsExists
<1>4. ASSUME NEW t \in SUBSET (1..n), t # {}
      PROVE  Max(t) \in t /\ s[Max(t)] \in Events
  <2>1. Max(t) \in t
    BY <1>3, <1>4 DEF Folds
  <2>2. Max(t) \in 1..n
    BY <2>1
  <2> HIDE DEF n
  <2> QED BY <1>1, <2>1, <2>2
<1>5. Is(f)
  <2>1. f \in [SUBSET (1..n) -> Pictures]
    BY <1>3 DEF Folds
  <2> SUFFICES ASSUME NEW t \in SUBSET (1..n)
               PROVE  f[t] = IF t = {} THEN c ELSE Apply(f[t \ {Max(t)}], s[Max(t)])
    BY <2>1
  <2>2. CASE t = {}
    BY <1>3, <2>2 DEF Folds
  <2>3. CASE t # {}
    <3>1. f[t] = Applied[<<f[t \ {Max(t)}], s[Max(t)]>>]
      BY <1>3, <2>3 DEF Folds
    <3>2. t \ {Max(t)} \in SUBSET (1..n)
      OBVIOUS
    <3>3. f[t \ {Max(t)}] \in Pictures
      BY <2>1, <3>2
    <3>4. s[Max(t)] \in Events
      BY <1>4, <2>3
    <3> QED BY <2>3, <3>1, <3>3, <3>4 DEF Applied
  <2> QED BY <2>2, <2>3
<1>6. Is(F)
  <2> HIDE DEF Is
  <2> QED BY <1>5
<1>7. After(c, s) = F[1..n]
  BY <1>1 DEF After, FoldLeft, MapThenFoldSet
<1> HIDE DEF F
<1>8. F[{}] = c
  BY <1>1, <1>6
<1>9. ASSUME NEW t \in SUBSET (1..n), t # {}, F[t \ {Max(t)}] \in Pictures
      PROVE  F[t] = Applied[<<F[t \ {Max(t)}], s[Max(t)]>>]
  <2>1. F[t] = Apply(F[t \ {Max(t)}], s[Max(t)])
    BY <1>6, <1>9
  <2>2. s[Max(t)] \in Events
    BY <1>4, <1>9
  <2> QED BY <1>9, <2>1, <2>2 DEF Applied
<1>10. Fits(F, Pictures, Applied, c, s)
  BY <1>8, <1>9 DEF Fits
<1>11. Result(F, s) = Folded(Pictures, Applied, c, s)
  BY <1>2, <1>10, FitsFolded
<1> QED BY <1>7, <1>11 DEF Result

\* What that fold gives after the first events, one by one.
LEMMA AfterFirst ==
  ASSUME NEW c \in Pictures, NEW s \in Seq(Events)
  PROVE  /\ After(c, SubSeq(s, 1, 0)) = c
         /\ \A i \in 0..Len(s) : After(c, SubSeq(s, 1, i)) \in Pictures
         /\ \A i \in 0..Len(s) :
              i < Len(s) => After(c, SubSeq(s, 1, i + 1))
                              = Apply(After(c, SubSeq(s, 1, i)), s[i + 1])
<1>1. Steps(Applied, Pictures, Events)
  BY ApplyIn DEF Applied, Steps
<1>2. Len(s) \in Nat /\ \A i \in 0..Len(s) : SubSeq(s, 1, i) \in Seq(Events)
  OBVIOUS
<1>3. \A i \in 0..Len(s) :
        After(c, SubSeq(s, 1, i)) = Folded(Pictures, Applied, c, SubSeq(s, 1, i))
  BY <1>2, AfterFolds
<1>4. /\ Folded(Pictures, Applied, c, SubSeq(s, 1, 0)) = c
      /\ \A i \in 0..Len(s) : Folded(Pictures, Applied, c, SubSeq(s, 1, i)) \in Pictures
      /\ \A i \in 0..Len(s) :
           i < Len(s) =>
             Folded(Pictures, Applied, c, SubSeq(s, 1, i + 1))
               = Step(Applied, Folded(Pictures, Applied, c, SubSeq(s, 1, i)), s, i + 1)
  BY <1>1, FoldedNext
<1>5. \A i \in 0..Len(s) : After(c, SubSeq(s, 1, i)) \in Pictures
  BY <1>3, <1>4
<1>6. After(c, SubSeq(s, 1, 0)) = c
  <2>1. 0 \in 0..Len(s)
    BY <1>2
  <2> QED BY <1>3, <1>4, <2>1
<1>7. ASSUME NEW i \in 0..Len(s), i < Len(s)
      PROVE  After(c, SubSeq(s, 1, i + 1)) = Apply(After(c, SubSeq(s, 1, i)), s[i + 1])
  <2>1. i + 1 \in 0..Len(s) /\ s[i + 1] \in Events
    BY <1>2, <1>7
  <2>2. After(c, SubSeq(s, 1, i + 1)) = Applied[<<After(c, SubSeq(s, 1, i)), s[i + 1]>>]
    BY <1>3, <1>4, <1>7, <2>1 DEF Step
  <2>3. After(c, SubSeq(s, 1, i)) \in Pictures
    BY <1>5
  <2> QED BY <2>1, <2>2, <2>3 DEF Applied
<1> QED BY <1>5, <1>6, <1>7

\* What it makes of a sequence of them is.
LEMMA AfterAll ==
  ASSUME NEW c \in Pictures, NEW s \in Seq(Events)
  PROVE  After(c, s) \in Pictures /\ SubSeq(s, 1, Len(s)) = s
<1>1. Len(s) \in 0..Len(s) /\ SubSeq(s, 1, Len(s)) = s
  <2>1. SubSeq(s, 1, Len(s)) \in Seq(Events) /\ Len(SubSeq(s, 1, Len(s))) = Len(s)
        /\ \A i \in 1..Len(s) : SubSeq(s, 1, Len(s))[i] = s[i]
    OBVIOUS
  <2> QED BY <2>1
<1> QED BY <1>1, AfterFirst

\* Events after events.
LEMMA AfterConcat ==
  ASSUME NEW c \in Pictures, NEW s \in Seq(Events), NEW z \in Seq(Events)
  PROVE  After(c, s \o z) = After(After(c, s), z)
<1>1. Steps(Applied, Pictures, Events)
  BY ApplyIn DEF Applied, Steps
<1> DEFINE y == s \o z
           d == After(c, s)
<1>2. y \in Seq(Events)
  OBVIOUS
<1>3. d \in Pictures
  BY AfterAll
<1>4. d = Folded(Pictures, Applied, c, s)
  BY AfterFolds
<1>5. Folded(Pictures, Applied, c, y) = Folded(Pictures, Applied, d, z)
  <2>1. Folded(Pictures, Applied, c, s \o z)
          = Folded(Pictures, Applied, Folded(Pictures, Applied, c, s), z)
    BY <1>1, FoldedConcat
  <2> HIDE DEF d
  <2> QED BY <1>4, <2>1
<1> HIDE DEF y, d
<1>6. After(c, y) = Folded(Pictures, Applied, c, y)
      /\ After(d, z) = Folded(Pictures, Applied, d, z)
  BY <1>2, <1>3, AfterFolds
<1> QED BY <1>5, <1>6 DEF y, d

\* No event, and one.
LEMMA AfterFew ==
  ASSUME NEW c \in Pictures
  PROVE  /\ After(c, <<>>) = c
         /\ \A e \in Events : After(c, <<e>>) = Apply(c, e)
<1>1. <<>> \in Seq(Events) /\ SubSeq(<<>>, 1, 0) = <<>>
  OBVIOUS
<1>2. After(c, <<>>) = c
  BY <1>1, AfterFirst
<1>3. ASSUME NEW e \in Events
      PROVE  After(c, <<e>>) = Apply(c, e)
  <2> DEFINE s == <<e>>
  <2>1. s \in Seq(Events) /\ Len(s) = 1 /\ s[1] = e
    OBVIOUS
  <2> HIDE DEF s
  <2>2. SubSeq(s, 1, 1) = s
    BY <2>1, AfterAll
  <2>3. After(c, SubSeq(s, 1, 0)) = c
        /\ After(c, SubSeq(s, 1, 0 + 1)) = Apply(After(c, SubSeq(s, 1, 0)), s[0 + 1])
    <3>1. 0 \in 0..Len(s) /\ 0 < Len(s)
      BY <2>1
    <3> QED BY <2>1, <3>1, AfterFirst
  <2>4. After(c, SubSeq(s, 1, 1)) = Apply(c, s[1])
    BY <2>3
  <2>5. After(c, s) = Apply(c, e)
    BY <2>1, <2>2, <2>4
  <2> QED BY <2>5 DEF s
<1> QED BY <1>2, <1>3

----------------------------------------------------------------------------
\* Remainders

\* q is the quotient of x by W, r the remainder.
Divided(x, W, q, r) == q \in Int /\ r \in 0..W-1 /\ x = q * W + r

\* % is the remainder: there is only one.
LEMMA Remainder ==
  ASSUME NEW W \in Nat, W > 0, NEW x \in Int, NEW q, NEW r, Divided(x, W, q, r)
  PROVE  x % W = r
BY DEF Divided

\* One more or one less.
LEMMA NextDivided ==
  ASSUME NEW W \in Nat, W > 0, NEW x \in Int, NEW q, NEW r, Divided(x, W, q, r)
  PROVE  /\ \E p, z : Divided(x + 1, W, p, z)
         /\ \E p, z : Divided(x - 1, W, p, z)
<1> DEFINE up == q + 1
           down == q - 1
<1>1. /\ q \in Int /\ r \in 0..W-1 /\ q * W \in Int /\ up \in Int /\ down \in Int
      /\ up * W = q * W + W /\ down * W = q * W - W /\ x = q * W + r
  BY DEF Divided
<1> HIDE DEF up, down
<1>2. \E p, z : Divided(x + 1, W, p, z)
  <2>1. CASE r + 1 < W
    <3>1. Divided(x + 1, W, q, r + 1)
      BY <1>1, <2>1 DEF Divided
    <3> QED BY <3>1
  <2>2. CASE ~(r + 1 < W)
    <3>1. Divided(x + 1, W, up, 0)
      BY <1>1, <2>2 DEF Divided
    <3> QED BY <3>1
  <2> QED BY <2>1, <2>2
<1>3. \E p, z : Divided(x - 1, W, p, z)
  <2>1. CASE r > 0
    <3>1. Divided(x - 1, W, q, r - 1)
      BY <1>1, <2>1 DEF Divided
    <3> QED BY <3>1
  <2>2. CASE ~(r > 0)
    <3>1. Divided(x - 1, W, down, W - 1)
      BY <1>1, <2>2 DEF Divided
    <3> QED BY <3>1
  <2> QED BY <2>1, <2>2
<1> QED BY <1>2, <1>3

\* Every integer has its quotient and its remainder, the one that % is.
LEMMA Division ==
  ASSUME NEW W \in Nat, W > 0, NEW x \in Int
  PROVE  \E q : Divided(x, W, q, x % W)
<1> DEFINE Ok(y) == \E q, r : Divided(y, W, q, r)
           n == IF x < 0 THEN -x ELSE x
           Q == {i \in 0..n : Ok(i) /\ Ok(-i)}
<1>1. n \in Nat /\ (x = n \/ x = -n)
  OBVIOUS
<1>2. Ok(0)
  <2>1. Divided(0, W, 0, 0)
    BY DEF Divided
  <2> QED BY <2>1
<1>3. ASSUME NEW y \in Int, Ok(y)
      PROVE  Ok(y + 1) /\ Ok(y - 1)
  BY <1>3, NextDivided
<1> HIDE DEF Ok, n
<1>4. 0 \in Q
  BY <1>1, <1>2
<1>5. \A i \in 0..n : i \in Q /\ i < n => i + 1 \in Q
  <2> SUFFICES ASSUME NEW i \in 0..n, i \in Q, i < n PROVE i + 1 \in Q
    OBVIOUS
  <2>1. i \in Int /\ -i \in Int /\ -i - 1 = -(i + 1) /\ i + 1 \in 0..n
    BY <1>1
  <2>2. Ok(i + 1) /\ Ok(-i - 1)
    BY <1>3, <2>1
  <2>3. Ok(-(i + 1))
    BY <2>1, <2>2
  <2> QED BY <2>1, <2>2, <2>3
<1> HIDE DEF Q
<1>6. \A i \in 0..n : i \in Q
  BY <1>1, <1>4, <1>5, Climb
<1>7. Ok(n) /\ Ok(-n)
  BY <1>1, <1>6 DEF Q
<1>8. PICK q, r : Divided(x, W, q, r)
  BY <1>1, <1>7 DEF Ok
<1>9. x % W = r
  BY <1>8, Remainder
<1> QED BY <1>8, <1>9

\* What is added before the remainder is taken, or after.
LEMMA AddAfter ==
  ASSUME NEW W \in Nat, W > 0, NEW x \in Int, NEW d \in Int,
         NEW r \in 0..W-1, (x % W) + d \in {r, r + W, r - W}
  PROVE  (x + d) % W = r
<1>1. PICK q : Divided(x, W, q, x % W)
  BY Division
<1> DEFINE up == q + 1
           down == q - 1
           m == x % W
           y == x + d
<1>2. /\ q \in Int /\ m \in 0..W-1 /\ q * W \in Int /\ up \in Int /\ down \in Int
      /\ up * W = q * W + W /\ down * W = q * W - W /\ x = q * W + m
  BY <1>1 DEF Divided
<1>3. m + d \in {r, r + W, r - W} /\ y \in Int /\ y = x + d
  OBVIOUS
<1> HIDE DEF up, down, m, y
<1>4. Divided(y, W, q, r) \/ Divided(y, W, up, r) \/ Divided(y, W, down, r)
  BY <1>2, <1>3 DEF Divided
<1>5. y % W = r
  BY <1>3, <1>4, Remainder
<1> QED BY <1>5 DEF y

----------------------------------------------------------------------------
\* What the device does with a report of pads

Pressings == [Pads -> Pressures]
Pressed == [x \in Pressings \X Slots |-> Press(x[1], x[2])]

\* A slot that the device sends leaves pressures.
LEMMA PressIn ==
  ASSUME NEW c \in Pressings, NEW s \in Slots
  PROVE  Press(c, s) \in Pressings
BY DEF Press, Pressings, Slots

\* Its pressures after the slots of a report are a fold.
LEMMA PressFolds ==
  ASSUME NEW c \in Pressings, NEW s \in Seq(Slots)
  PROVE  FoldLeft(Press, c, s) = Folded(Pressings, Pressed, c, s)
<1> DEFINE n == Len(s)
           Is(f) == f = [t \in SUBSET (1..n) |->
                           IF t = {} THEN c ELSE Press(f[t \ {Max(t)}], s[Max(t)])]
           F == CHOOSE f : Is(f)
<1>1. n \in Nat /\ DOMAIN s = 1..n /\ {} \in SUBSET (1..n)
      /\ \A m \in 1..n : s[m] \in Slots
  OBVIOUS
<1>2. Steps(Pressed, Pressings, Slots)
  BY PressIn DEF Pressed, Steps
<1>3. PICK f : Folds(f, Pressings, Pressed, c, s, n)
  BY <1>2, FoldsExists
<1>4. ASSUME NEW t \in SUBSET (1..n), t # {}
      PROVE  Max(t) \in t /\ s[Max(t)] \in Slots
  <2>1. Max(t) \in t
    BY <1>3, <1>4 DEF Folds
  <2>2. Max(t) \in 1..n
    BY <2>1
  <2> HIDE DEF n
  <2> QED BY <1>1, <2>1, <2>2
<1>5. Is(f)
  <2>1. f \in [SUBSET (1..n) -> Pressings]
    BY <1>3 DEF Folds
  <2> SUFFICES ASSUME NEW t \in SUBSET (1..n)
               PROVE  f[t] = IF t = {} THEN c ELSE Press(f[t \ {Max(t)}], s[Max(t)])
    BY <2>1
  <2>2. CASE t = {}
    BY <1>3, <2>2 DEF Folds
  <2>3. CASE t # {}
    <3>1. f[t] = Pressed[<<f[t \ {Max(t)}], s[Max(t)]>>]
      BY <1>3, <2>3 DEF Folds
    <3>2. t \ {Max(t)} \in SUBSET (1..n)
      OBVIOUS
    <3>3. f[t \ {Max(t)}] \in Pressings
      BY <2>1, <3>2
    <3>4. s[Max(t)] \in Slots
      BY <1>4, <2>3
    <3> QED BY <2>3, <3>1, <3>3, <3>4 DEF Pressed
  <2> QED BY <2>2, <2>3
<1>6. Is(F)
  <2> HIDE DEF Is
  <2> QED BY <1>5
<1>7. FoldLeft(Press, c, s) = F[1..n]
  BY <1>1 DEF FoldLeft, MapThenFoldSet
<1> HIDE DEF F
<1>8. F[{}] = c
  BY <1>1, <1>6
<1>9. ASSUME NEW t \in SUBSET (1..n), t # {}, F[t \ {Max(t)}] \in Pressings
      PROVE  F[t] = Pressed[<<F[t \ {Max(t)}], s[Max(t)]>>]
  <2>1. F[t] = Press(F[t \ {Max(t)}], s[Max(t)])
    BY <1>6, <1>9
  <2>2. s[Max(t)] \in Slots
    BY <1>4, <1>9
  <2> QED BY <1>9, <2>1, <2>2 DEF Pressed
<1>10. Fits(F, Pressings, Pressed, c, s)
  BY <1>8, <1>9 DEF Fits
<1>11. Result(F, s) = Folded(Pressings, Pressed, c, s)
  BY <1>2, <1>10, FitsFolded
<1> QED BY <1>7, <1>11 DEF Result

----------------------------------------------------------------------------
\* What the diff task makes of a report of pads

PadAccs == [state : PadStates, sent : Seq(PadEvent)]
Stepped == [x \in PadAccs \X Slots |-> PadStep(x[1], x[2])]

\* emit_pads sends at most one event for a sample.
LEMMA PhaseIn ==
  ASSUME NEW state, NEW s
  PROVE  Phase(state, s) \in {None, "attack", "pressure", "release"}
BY DEF Phase

\* It leaves pads that are on and pressures.
LEMMA NextPadsIn ==
  ASSUME NEW state \in PadStates, NEW s \in Slots
  PROVE  NextPads(state, s) \in PadStates
<1>1. s.pad \in Pads /\ s.pressure \in Pressures
  BY DEF Slots
<1> DEFINE on == CASE Phase(state, s) = "attack" -> state.on \cup {s.pad}
                   [] Phase(state, s) = "release" -> state.on \ {s.pad}
                   [] OTHER -> state.on
<1>2. on \in SUBSET Pads
  BY <1>1 DEF PadStates
<1>3. NextPads(state, s) = [state EXCEPT !.on = on, !.pressures[s.pad] = s.pressure]
  BY DEF NextPads
<1> HIDE DEF on
<1>4. [state.pressures EXCEPT ![s.pad] = s.pressure] \in [Pads -> Pressures]
  BY <1>1 DEF PadStates
<1>5. NextPads(state, s) = [on |-> on, raw_stream |-> state.raw_stream,
                           pressures |-> [state.pressures EXCEPT ![s.pad] = s.pressure]]
  BY <1>3 DEF PadStates
<1> QED BY <1>2, <1>4, <1>5 DEF PadStates

\* It leaves what it has sent so far, and the pads.
LEMMA PadStepIn ==
  ASSUME NEW c \in PadAccs, NEW s \in Slots
  PROVE  PadStep(c, s) \in PadAccs
<1>1. c.state \in PadStates /\ c.sent \in Seq(PadEvent) /\ s.pad \in Pads
  BY DEF PadAccs, Slots
<1>2. NextPads(c.state, s) \in PadStates
  BY <1>1, NextPadsIn
<1> DEFINE phase == Phase(c.state, s)
<1>3. phase \in {None, "attack", "pressure", "release"}
  BY PhaseIn
<1> HIDE DEF phase
<1>4. When(phase # None, PhaseEvent(s, phase)) \in Seq(PadEvent)
  <2>1. CASE phase = None
    BY <2>1 DEF When
  <2>2. CASE phase # None
    <3>1. phase \in Phases
      BY <1>3, <2>2 DEF Phases
    <3>2. PhaseEvent(s, phase) \in PadEvent
      BY <1>1, <3>1 DEF PhaseEvent, PadEvent
    <3>3. <<PhaseEvent(s, phase)>> \in Seq(PadEvent)
      BY <3>2
    <3> QED BY <2>2, <3>3 DEF When
  <2> QED BY <2>1, <2>2
<1>5. c.sent \o When(phase # None, PhaseEvent(s, phase)) \in Seq(PadEvent)
  BY <1>1, <1>4
<1>6. CASE IsSample(s)
  <2>1. PadStep(c, s) = [state |-> NextPads(c.state, s),
                         sent |-> c.sent \o When(phase # None, PhaseEvent(s, phase))]
    BY <1>6 DEF PadStep, phase
  <2> QED BY <1>2, <1>5, <2>1 DEF PadAccs
<1>7. CASE ~IsSample(s)
  BY <1>7 DEF PadStep
<1> QED BY <1>6, <1>7

\* The pad state and the events after the slots of a report are a fold.
LEMMA PadsFold ==
  ASSUME NEW c \in PadAccs, NEW s \in Seq(Slots)
  PROVE  FoldLeft(PadStep, c, s) = Folded(PadAccs, Stepped, c, s)
<1> DEFINE n == Len(s)
           Is(f) == f = [t \in SUBSET (1..n) |->
                           IF t = {} THEN c ELSE PadStep(f[t \ {Max(t)}], s[Max(t)])]
           F == CHOOSE f : Is(f)
<1>1. n \in Nat /\ DOMAIN s = 1..n /\ {} \in SUBSET (1..n)
      /\ \A m \in 1..n : s[m] \in Slots
  OBVIOUS
<1>2. Steps(Stepped, PadAccs, Slots)
  BY PadStepIn DEF Stepped, Steps
<1>3. PICK f : Folds(f, PadAccs, Stepped, c, s, n)
  BY <1>2, FoldsExists
<1>4. ASSUME NEW t \in SUBSET (1..n), t # {}
      PROVE  Max(t) \in t /\ s[Max(t)] \in Slots
  <2>1. Max(t) \in t
    BY <1>3, <1>4 DEF Folds
  <2>2. Max(t) \in 1..n
    BY <2>1
  <2> HIDE DEF n
  <2> QED BY <1>1, <2>1, <2>2
<1>5. Is(f)
  <2>1. f \in [SUBSET (1..n) -> PadAccs]
    BY <1>3 DEF Folds
  <2> SUFFICES ASSUME NEW t \in SUBSET (1..n)
               PROVE  f[t] = IF t = {} THEN c ELSE PadStep(f[t \ {Max(t)}], s[Max(t)])
    BY <2>1
  <2>2. CASE t = {}
    BY <1>3, <2>2 DEF Folds
  <2>3. CASE t # {}
    <3>1. f[t] = Stepped[<<f[t \ {Max(t)}], s[Max(t)]>>]
      BY <1>3, <2>3 DEF Folds
    <3>2. t \ {Max(t)} \in SUBSET (1..n)
      OBVIOUS
    <3>3. f[t \ {Max(t)}] \in PadAccs
      BY <2>1, <3>2
    <3>4. s[Max(t)] \in Slots
      BY <1>4, <2>3
    <3> QED BY <2>3, <3>1, <3>3, <3>4 DEF Stepped
  <2> QED BY <2>2, <2>3
<1>6. Is(F)
  <2> HIDE DEF Is
  <2> QED BY <1>5
<1>7. FoldLeft(PadStep, c, s) = F[1..n]
  BY <1>1 DEF FoldLeft, MapThenFoldSet
<1> HIDE DEF F
<1>8. F[{}] = c
  BY <1>1, <1>6
<1>9. ASSUME NEW t \in SUBSET (1..n), t # {}, F[t \ {Max(t)}] \in PadAccs
      PROVE  F[t] = Stepped[<<F[t \ {Max(t)}], s[Max(t)]>>]
  <2>1. F[t] = PadStep(F[t \ {Max(t)}], s[Max(t)])
    BY <1>6, <1>9
  <2>2. s[Max(t)] \in Slots
    BY <1>4, <1>9
  <2> QED BY <1>9, <2>1, <2>2 DEF Stepped
<1>10. Fits(F, PadAccs, Stepped, c, s)
  BY <1>8, <1>9 DEF Fits
<1>11. Result(F, s) = Folded(PadAccs, Stepped, c, s)
  BY <1>2, <1>10, FitsFolded
<1> QED BY <1>7, <1>11 DEF Result

----------------------------------------------------------------------------
\* Events in a row

\* The elements of a sequence followed by another, and its prefixes.
LEMMA Joined ==
  ASSUME NEW E, NEW s \in Seq(E), NEW z \in Seq(E)
  PROVE  /\ s \o z \in Seq(E) /\ Len(s \o z) = Len(s) + Len(z)
         /\ \A i \in 1..Len(s) : (s \o z)[i] = s[i]
         /\ \A i \in 1..Len(z) : (s \o z)[Len(s) + i] = z[i]
         /\ \A i \in 0..Len(s) : SubSeq(s \o z, 1, i) = SubSeq(s, 1, i)
         /\ \A i \in 0..Len(z) : SubSeq(s \o z, 1, Len(s) + i) = s \o SubSeq(z, 1, i)
<1> DEFINE y == s \o z
<1>1. /\ Len(s) \in Nat /\ Len(z) \in Nat /\ y \in Seq(E) /\ Len(y) = Len(s) + Len(z)
      /\ \A i \in 1..Len(s) : y[i] = s[i]
      /\ \A i \in 1..Len(z) : y[Len(s) + i] = z[i]
  OBVIOUS
<1> HIDE DEF y
<1>2. ASSUME NEW i \in 0..Len(s)
      PROVE  SubSeq(y, 1, i) = SubSeq(s, 1, i)
  <2>1. SubSeq(y, 1, i) \in Seq(E) /\ Len(SubSeq(y, 1, i)) = i
    BY <1>1
  <2>2. SubSeq(s, 1, i) \in Seq(E) /\ Len(SubSeq(s, 1, i)) = i
    BY <1>1
  <2>3. \A k \in 1..i : SubSeq(y, 1, i)[k] = SubSeq(s, 1, i)[k]
    BY <1>1
  <2> QED BY <2>1, <2>2, <2>3
<1>3. ASSUME NEW i \in 0..Len(z)
      PROVE  SubSeq(y, 1, Len(s) + i) = s \o SubSeq(z, 1, i)
  <2> DEFINE x == SubSeq(z, 1, i)
             n == Len(s) + i
  <2>1. n \in Nat /\ n <= Len(y)
    BY <1>1
  <2>2. x \in Seq(E) /\ Len(x) = i /\ \A k \in 1..i : x[k] = z[k]
    BY <1>1
  <2> HIDE DEF x
  <2>3. SubSeq(y, 1, n) \in Seq(E) /\ Len(SubSeq(y, 1, n)) = n
        /\ \A k \in 1..n : SubSeq(y, 1, n)[k] = y[k]
    BY <1>1, <2>1
  <2>4. /\ s \o x \in Seq(E) /\ Len(s \o x) = n
        /\ \A k \in 1..Len(s) : (s \o x)[k] = s[k]
        /\ \A k \in 1..i : (s \o x)[Len(s) + k] = x[k]
    BY <2>2
  <2>5. ASSUME NEW k \in 1..n PROVE y[k] = (s \o x)[k]
    <3>1. CASE k \in 1..Len(s)
      BY <1>1, <2>4, <3>1
    <3>2. CASE k \notin 1..Len(s)
      <4> DEFINE l == k - Len(s)
      <4>1. l \in 1..i /\ l \in 1..Len(z) /\ k = Len(s) + l
        BY <1>1, <3>2
      <4> HIDE DEF l
      <4>2. y[Len(s) + l] = z[l] /\ (s \o x)[Len(s) + l] = x[l] /\ x[l] = z[l]
        BY <1>1, <2>2, <2>4, <4>1
      <4> QED BY <4>1, <4>2
    <3> QED BY <3>1, <3>2
  <2> HIDE DEF n
  <2>6. SubSeq(y, 1, n) = s \o x
    BY <2>3, <2>4, <2>5
  <2> QED BY <2>6 DEF n, x
<1> QED BY <1>1, <1>2, <1>3 DEF y

\* Events of which a client can make sense stay so with more of them that it
\* can make sense of by then.
LEMMA AlternatesConcat ==
  ASSUME NEW c \in Pictures, NEW s \in Seq(Events), NEW z \in Seq(Events),
         Alternates(c, s), Alternates(After(c, s), z)
  PROVE  Alternates(c, s \o z)
<1> DEFINE y == s \o z
           d == After(c, s)
<1>1. /\ y \in Seq(Events) /\ Len(y) = Len(s) + Len(z) /\ Len(s) \in Nat /\ Len(z) \in Nat
      /\ \A i \in 1..Len(s) : y[i] = s[i]
      /\ \A i \in 1..Len(z) : y[Len(s) + i] = z[i]
      /\ \A i \in 0..Len(s) : SubSeq(y, 1, i) = SubSeq(s, 1, i)
      /\ \A i \in 0..Len(z) : SubSeq(y, 1, Len(s) + i) = s \o SubSeq(z, 1, i)
  BY Joined
<1> HIDE DEF y
<1> SUFFICES ASSUME NEW i \in 1..Len(y), y[i].type = "pad"
             PROVE  (y[i].phase = "attack")
                      = (y[i].pad \notin After(c, SubSeq(y, 1, i - 1)).held)
  BY <1>1 DEF Alternates, y
<1>2. CASE i \in 1..Len(s)
  <2>1. y[i] = s[i] /\ i - 1 \in 0..Len(s) /\ i \in DOMAIN s
    BY <1>1, <1>2
  <2>2. SubSeq(y, 1, i - 1) = SubSeq(s, 1, i - 1)
    BY <1>1, <2>1
  <2> QED BY <2>1, <2>2 DEF Alternates
<1>3. CASE i \notin 1..Len(s)
  <2> DEFINE j == i - Len(s)
  <2>1. j \in 1..Len(z) /\ j - 1 \in 0..Len(z) /\ i = Len(s) + j /\ i - 1 = Len(s) + (j - 1)
        /\ j \in DOMAIN z
    BY <1>1, <1>3
  <2> HIDE DEF j
  <2>2. y[i] = z[j]
    BY <1>1, <2>1
  <2>3. SubSeq(y, 1, i - 1) = s \o SubSeq(z, 1, j - 1)
    BY <1>1, <2>1
  <2>4. SubSeq(z, 1, j - 1) \in Seq(Events)
    BY <2>1
  <2>5. After(c, SubSeq(y, 1, i - 1)) = After(d, SubSeq(z, 1, j - 1))
    <3> DEFINE x == SubSeq(z, 1, j - 1)
    <3> HIDE DEF x
    <3>1. x \in Seq(Events)
      BY <2>4 DEF x
    <3>2. After(c, s \o x) = After(After(c, s), x)
      BY <3>1, AfterConcat
    <3> QED BY <2>3, <3>2 DEF x
  <2>6. z[j].type = "pad" => (z[j].phase = "attack")
                               = (z[j].pad \notin After(d, SubSeq(z, 1, j - 1)).held)
    BY <2>1 DEF Alternates
  <2> QED BY <2>2, <2>5, <2>6
<1> QED BY <1>2, <1>3

\* ... and stay so when it has taken the first.
LEMMA AlternatesTail ==
  ASSUME NEW c \in Pictures, NEW s \in Seq(Events), s # <<>>, Alternates(c, s)
  PROVE  Alternates(Apply(c, Head(s)), Tail(s))
<1> DEFINE e == Head(s)
           z == Tail(s)
           h == <<e>>
           d == Apply(c, e)
<1>1. e \in Events /\ z \in Seq(Events) /\ h \in Seq(Events) /\ Len(h) = 1
      /\ s = h \o z /\ Len(s) = 1 + Len(z) /\ Len(z) \in Nat /\ Len(s) \in Nat
  OBVIOUS
<1>2. After(c, h) = d /\ d \in Pictures
  BY <1>1, AfterFew, ApplyIn
<1>a. \A i \in 1..Len(z) : s[i + 1] = z[i]
  OBVIOUS
<1> HIDE DEF z, e, h, d
<1>3. \A i \in 0..Len(z) : SubSeq(s, 1, 1 + i) = h \o SubSeq(z, 1, i)
  BY <1>1, Joined
<1> SUFFICES ASSUME NEW i \in 1..Len(z), z[i].type = "pad"
             PROVE  (z[i].phase = "attack")
                      = (z[i].pad \notin After(d, SubSeq(z, 1, i - 1)).held)
  BY <1>1 DEF Alternates, z, d, e
<1>4. i + 1 \in DOMAIN s /\ s[i + 1] = z[i] /\ i - 1 \in 0..Len(z)
      /\ (i + 1) - 1 = 1 + (i - 1)
  BY <1>1, <1>a
<1>5. SubSeq(s, 1, (i + 1) - 1) = h \o SubSeq(z, 1, i - 1)
  BY <1>3, <1>4
<1>6. SubSeq(z, 1, i - 1) \in Seq(Events)
  <2>1. \A k \in 0..Len(z) : SubSeq(z, 1, k) \in Seq(Events)
    <3> HIDE DEF z
    <3> QED BY <1>1
  <2> QED BY <1>4, <2>1
<1>7. After(c, SubSeq(s, 1, (i + 1) - 1)) = After(d, SubSeq(z, 1, i - 1))
  <2> DEFINE x == SubSeq(z, 1, i - 1)
  <2> HIDE DEF x
  <2>1. x \in Seq(Events)
    BY <1>6 DEF x
  <2>2. After(c, h \o x) = After(After(c, h), x)
    BY <1>1, <2>1, AfterConcat
  <2> QED BY <1>2, <1>5, <2>2 DEF x
<1> QED BY <1>4, <1>7 DEF Alternates

\* Events that are of no pad make sense to any client.
LEMMA NoPadsAlternate ==
  ASSUME NEW c, NEW s \in Seq(ControlEvent)
  PROVE  Alternates(c, s)
<1>1. \A i \in DOMAIN s : s[i] \in ControlEvent
  OBVIOUS
<1>2. \A i \in DOMAIN s : s[i].type # "pad"
  BY <1>1 DEF ControlEvent
<1> QED BY <1>2 DEF Alternates

----------------------------------------------------------------------------
\* The events of a report of controls

\* A set listed as a sequence: its elements, all of them.
LEMMA Listed ==
  ASSUME NEW T, IsFiniteSet(T)
  PROVE  /\ SetToSeq(T) \in Seq(T)
         /\ \A x \in T : \E k \in 1..Len(SetToSeq(T)) : SetToSeq(T)[k] = x
<1> DEFINE n == Cardinality(T)
           f == SetToSeq(T)
<1>1. n \in Nat /\ ExistsBijection(1..n, T)
  BY FS_CardinalityType
<1>2. PICK g : g \in Bijection(1..n, T)
  BY <1>1 DEF ExistsBijection
<1>3. g \in [1..n -> T] /\ IsInjective(g)
  BY <1>2 DEF Bijection, Injection
<1>4. f \in [1..n -> T] /\ IsInjective(f)
  BY <1>3 DEF SetToSeq
<1> HIDE DEF f
<1>5. f \in Injection(1..n, T)
  BY <1>4 DEF Injection
<1>6. Cardinality(1..n) = n
  BY <1>1, FS_Interval
<1>7. f \in Surjection(1..n, T)
  BY <1>5, <1>6, FS_Injection
<1>8. \A x \in T : \E k \in 1..n : f[k] = x
  BY <1>7 DEF Surjection
<1>9. f \in Seq(T) /\ Len(f) = n
  BY <1>1, <1>4
<1> QED BY <1>8, <1>9 DEF f

Changed(was, now) == (was.buttons \ now.buttons) \cup (now.buttons \ was.buttons)
ButtonEvent(now, b) == [type |-> "button", bit |-> b, pressed |-> b \in now.buttons]
ButtonEvents(was, now) == SetToSeq({ButtonEvent(now, b) : b \in Changed(was, now)})

\* There is an event of each button that changed, and no other.
LEMMA ButtonEventsAre ==
  ASSUME NEW was \in Controls, NEW now \in Controls
  PROVE  LET s == ButtonEvents(was, now) IN
         /\ s \in Seq(ControlEvent)
         /\ \A i \in 1..Len(s) : \E b \in Changed(was, now) : s[i] = ButtonEvent(now, b)
         /\ \A b \in Changed(was, now) : \E i \in 1..Len(s) : s[i] = ButtonEvent(now, b)
<1> DEFINE D == Changed(was, now)
           T == {ButtonEvent(now, b) : b \in D}
           s == SetToSeq(T)
           f == [b \in D |-> ButtonEvent(now, b)]
<1>1. D \in SUBSET Buttons /\ IsFiniteSet(Buttons)
  BY InputAssumption DEF Changed, Controls
<1>2. IsFiniteSet(D)
  BY <1>1, FS_Subset
<1>3. f \in Bijection(D, T)
  <2>1. f \in [D -> T] /\ \A t \in T : \E b \in D : f[b] = t
    OBVIOUS
  <2>2. \A a, b \in D : f[a] = f[b] => a = b
    BY DEF ButtonEvent
  <2>3. IsInjective(f)
    BY <2>2 DEF IsInjective
  <2> QED BY <2>1, <2>3 DEF Bijection, Injection, Surjection
<1>4. IsFiniteSet(T)
  <2>1. ExistsBijection(D, T)
    BY <1>3 DEF ExistsBijection
  <2> HIDE DEF D, T
  <2> QED BY <1>2, <2>1, FS_Bijection
<1>5. s \in Seq(T) /\ \A x \in T : \E i \in 1..Len(s) : s[i] = x
  <2> HIDE DEF T
  <2> QED BY <1>4, Listed
<1> HIDE DEF s
<1>6. \A b \in D : ButtonEvent(now, b) \in ControlEvent
  BY <1>1 DEF ButtonEvent, ControlEvent
<1>7. \A i \in 1..Len(s) : s[i] \in T
  BY <1>5
<1>8. s \in Seq(ControlEvent)
  BY <1>5, <1>6
<1>9. \A i \in 1..Len(s) : \E b \in D : s[i] = ButtonEvent(now, b)
  BY <1>7
<1>10. \A b \in D : \E i \in 1..Len(s) : s[i] = ButtonEvent(now, b)
  BY <1>5
<1> QED BY <1>8, <1>9, <1>10 DEF s, ButtonEvents

\* They bring a client's buttons from those of the report before to those of
\* this one, and leave the rest of its picture.
LEMMA ButtonsFollow ==
  ASSUME NEW c \in Pictures, NEW was \in Controls, NEW now \in Controls,
         c.buttons = was.buttons
  PROVE  After(c, ButtonEvents(was, now)) = [c EXCEPT !.buttons = now.buttons]
<1> DEFINE s == ButtonEvents(was, now)
           n == Len(s)
           d(i) == After(c, SubSeq(s, 1, i))
           Seen(i, b) == \E k \in 1..i : s[k].bit = b
           Q == {i \in 0..n : /\ d(i) = [c EXCEPT !.buttons = d(i).buttons]
                              /\ \A b \in Buttons :
                                   b \in d(i).buttons <=> IF Seen(i, b) THEN b \in now.buttons
                                                          ELSE b \in was.buttons}
<1>1. /\ s \in Seq(ControlEvent)
      /\ \A i \in 1..n : \E b \in Changed(was, now) : s[i] = ButtonEvent(now, b)
      /\ \A b \in Changed(was, now) : \E i \in 1..n : s[i] = ButtonEvent(now, b)
  BY ButtonEventsAre
<1> HIDE DEF s
<1>2. s \in Seq(Events) /\ n \in Nat
  BY <1>1 DEF Events
<1>3. /\ d(0) = c
      /\ \A i \in 0..n : d(i) \in Pictures
      /\ \A i \in 0..n : i < n => d(i + 1) = Apply(d(i), s[i + 1])
  BY <1>2, AfterFirst
<1> HIDE DEF n, d
<1>4. was.buttons \in SUBSET Buttons /\ now.buttons \in SUBSET Buttons
  BY DEF Controls
<1>5. 0 \in Q
  <2>1. 0 \in 0..n /\ \A b : ~Seen(0, b)
    BY <1>2
  <2>2. c = [c EXCEPT !.buttons = c.buttons]
    BY DEF Pictures
  <2> QED BY <1>3, <2>1, <2>2
<1>6. \A i \in 0..n : i \in Q /\ i < n => i + 1 \in Q
  <2> SUFFICES ASSUME NEW i \in 0..n, i \in Q, i < n PROVE i + 1 \in Q
    OBVIOUS
  <2> DEFINE k == i + 1
  <2>1. k \in 1..n /\ k \in 0..n
    BY <1>2
  <2>2. PICK a \in Changed(was, now) : s[k] = ButtonEvent(now, a)
    BY <1>1, <2>1
  <2>3. \A b : Seen(k, b) <=> Seen(i, b) \/ a = b
    <3>1. s[k].bit = a
      BY <2>2 DEF ButtonEvent
    <3>2. \A m : m \in 1..k <=> m \in 1..i \/ m = k
      BY <1>2
    <3> HIDE DEF k
    <3> QED BY <3>1, <3>2
  <2>4. d(k) = Apply(d(i), s[k]) /\ d(i) \in Pictures
    BY <1>3
  <2>5. d(k) = [d(i) EXCEPT !.buttons = IF a \in now.buttons THEN @ \cup {a} ELSE @ \ {a}]
    <3> DEFINE e == s[k]
               x == d(i)
    <3>1. e.type = "button" /\ e.bit = a /\ e.pressed = (a \in now.buttons)
      BY <2>2 DEF ButtonEvent
    <3>2. d(k) = Apply(x, e)
      BY <2>4
    <3> HIDE DEF e, x
    <3>3. d(k) = [x EXCEPT !.buttons = IF a \in now.buttons THEN @ \cup {a} ELSE @ \ {a}]
      BY <3>1, <3>2 DEF Apply
    <3> QED BY <3>3 DEF x
  <2>6. d(k).buttons = IF a \in now.buttons THEN d(i).buttons \cup {a}
                       ELSE d(i).buttons \ {a}
    BY <2>4, <2>5 DEF Pictures
  <2>7. d(k) = [c EXCEPT !.buttons = d(k).buttons]
    <3>1. d(i) = [c EXCEPT !.buttons = d(i).buttons]
      OBVIOUS
    <3> HIDE DEF Q, Seen, k
    <3> QED BY <2>5, <2>6, <3>1 DEF Pictures
  <2>8. \A b \in Buttons :
          b \in d(i).buttons <=> IF Seen(i, b) THEN b \in now.buttons ELSE b \in was.buttons
    OBVIOUS
  <2> HIDE DEF Seen, k
  <2>9. \A b \in Buttons :
          b \in d(k).buttons <=> IF Seen(k, b) THEN b \in now.buttons ELSE b \in was.buttons
    BY <2>3, <2>6, <2>8
  <2>10. k \in Q
    BY <2>1, <2>7, <2>9
  <2> QED BY <2>10 DEF k
<1> HIDE DEF Q
<1>7. \A i \in 0..n : i \in Q
  BY <1>2, <1>5, <1>6, Climb
<1>8. n \in Q
  BY <1>2, <1>7
<1>9. \A b \in Changed(was, now) : Seen(n, b)
  <2> SUFFICES ASSUME NEW b \in Changed(was, now) PROVE \E k \in 1..n : s[k].bit = b
    OBVIOUS
  <2>1. PICK k \in 1..n : s[k] = ButtonEvent(now, b)
    BY <1>1
  <2>2. s[k].bit = b
    BY <2>1 DEF ButtonEvent
  <2> QED BY <2>2
<1>10. d(n).buttons \in SUBSET Buttons
  BY <1>2, <1>3 DEF Pictures
<1>11. d(n).buttons = now.buttons
  <2>1. \A b \in Buttons :
          b \in d(n).buttons <=> IF Seen(n, b) THEN b \in now.buttons ELSE b \in was.buttons
    BY <1>8 DEF Q
  <2> HIDE DEF Seen
  <2>2. \A b \in Buttons : b \in d(n).buttons <=> b \in now.buttons
    BY <1>9, <2>1 DEF Changed
  <2> QED BY <1>4, <1>10, <2>2
<1>12. d(n) = [c EXCEPT !.buttons = now.buttons]
  BY <1>8, <1>11 DEF Q
<1>13. SubSeq(s, 1, n) = s
  BY <1>2, AfterAll DEF n
<1> QED BY <1>12, <1>13 DEF d, s

\* A delta brings the position before to the position now, but for the wrap.
LEMMA DeltaIs ==
  ASSUME NEW prev \in 0..ENCODER_WRAP-1, NEW now \in 0..ENCODER_WRAP-1
  PROVE  /\ EncoderDelta(prev, now) \in Int
         /\ prev + EncoderDelta(prev, now) \in {now, now + ENCODER_WRAP, now - ENCODER_WRAP}
<1> DEFINE W == ENCODER_WRAP
           d == now - prev
           turned == d % W
<1>1. W \in Nat /\ W > 0
  BY InputAssumption
<1> HIDE DEF W
<1>2. prev \in 0..W-1 /\ now \in 0..W-1 /\ d \in Int
  BY DEF W
<1>3. turned = d \/ turned = d + W
  <2>1. CASE d >= 0
    <3>1. Divided(d, W, 0, d)
      BY <1>1, <1>2, <2>1 DEF Divided
    <3> HIDE DEF d
    <3> QED BY <1>1, <1>2, <3>1, Remainder
  <2>2. CASE ~(d >= 0)
    <3> DEFINE r == d + W
    <3>1. Divided(d, W, -1, r)
      BY <1>1, <1>2, <2>2 DEF Divided
    <3> HIDE DEF d, r
    <3>2. d % W = r
      BY <1>1, <1>2, <3>1, Remainder
    <3> QED BY <3>2 DEF r
  <2> QED BY <2>1, <2>2
<1>4. EncoderDelta(prev, now) = turned \/ EncoderDelta(prev, now) = turned - W
  BY DEF EncoderDelta, W
<1> HIDE DEF turned
<1>5. turned \in Int
  BY <1>1, <1>2, <1>3
<1>6. EncoderDelta(prev, now) \in {d, d + W, d - W}
  BY <1>1, <1>2, <1>3, <1>4, <1>5
<1> QED BY <1>1, <1>2, <1>6 DEF W

\* One event of the encoder, the strip or the knob.
LEMMA AfterTurn ==
  ASSUME NEW c \in Pictures, NEW delta \in Int
  PROVE  LET e == [type |-> "encoder", delta |-> delta] IN
         e \in ControlEvent /\ Apply(c, e) = [c EXCEPT !.encoder = @ + delta]
BY DEF ControlEvent, Apply

\* A strip event sets the strip.
LEMMA AfterTouch ==
  ASSUME NEW c \in Pictures, NEW at \in Positions \cup {None}
  PROVE  LET e == [type |-> "strip", at |-> at] IN
         e \in ControlEvent /\ Apply(c, e) = [c EXCEPT !.strip = at]
BY DEF ControlEvent, Apply

\* A knob event sets the knob.
LEMMA AfterKnob ==
  ASSUME NEW c \in Pictures, NEW value \in Knob
  PROVE  LET e == [type |-> "knob", value |-> value] IN
         e \in ControlEvent /\ Apply(c, e) = [c EXCEPT !.knob = value]
BY DEF ControlEvent, Apply

\* The events of each part.
LEMMA TurnFollows ==
  ASSUME NEW c \in Pictures, NEW delta \in Int
  PROVE  LET s == When(delta # 0, [type |-> "encoder", delta |-> delta]) IN
         s \in Seq(ControlEvent) /\ After(c, s) = [c EXCEPT !.encoder = @ + delta]
<1> DEFINE e == [type |-> "encoder", delta |-> delta]
<1>1. e \in ControlEvent /\ e \in Events /\ Apply(c, e) = [c EXCEPT !.encoder = @ + delta]
  BY AfterTurn DEF Events
<1> HIDE DEF e
<1>2. CASE delta = 0
  <2>1. When(delta # 0, e) = <<>>
    BY <1>2 DEF When
  <2>2. c = [c EXCEPT !.encoder = @ + delta]
    BY <1>2 DEF Pictures
  <2>3. <<>> \in Seq(ControlEvent) /\ After(c, <<>>) = c
    BY AfterFew
  <2> QED BY <2>1, <2>2, <2>3 DEF e
<1>3. CASE delta # 0
  <2>1. When(delta # 0, e) = <<e>> /\ <<e>> \in Seq(ControlEvent)
    BY <1>1, <1>3 DEF When
  <2> QED BY <1>1, <2>1, AfterFew DEF e
<1> QED BY <1>2, <1>3

\* The client follows the strip.
LEMMA TouchFollows ==
  ASSUME NEW c \in Pictures, NEW was, NEW now \in Positions \cup {None}, c.strip = was
  PROVE  StripEvents(was, now) \in Seq(ControlEvent)
         /\ After(c, StripEvents(was, now)) = [c EXCEPT !.strip = now]
<1> DEFINE e == [type |-> "strip", at |-> now]
<1>1. e \in ControlEvent /\ e \in Events /\ Apply(c, e) = [c EXCEPT !.strip = now]
  BY AfterTouch DEF Events
<1>2. CASE now # None \/ was # None
  <2>1. StripEvents(was, now) = <<e>>
    <3>1. CASE now # None
      <4>1. StripEvents(was, now) = <<e>> \o <<>>
        BY <3>1 DEF StripEvents, When
      <4> QED BY <4>1
    <3>2. CASE now = None /\ was # None
      <4>1. StripEvents(was, now) = <<>> \o <<e>>
        BY <3>2 DEF StripEvents, When
      <4> QED BY <4>1
    <3> QED BY <1>2, <3>1, <3>2
  <2> HIDE DEF e
  <2>2. <<e>> \in Seq(ControlEvent)
    BY <1>1
  <2> QED BY <1>1, <2>1, <2>2, AfterFew
<1>3. CASE now = None /\ was = None
  <2>1. StripEvents(was, now) = <<>>
    BY <1>3 DEF StripEvents, When
  <2>2. c = [c EXCEPT !.strip = now]
    BY <1>3 DEF Pictures
  <2>3. <<>> \in Seq(ControlEvent) /\ After(c, <<>>) = c
    BY AfterFew
  <2> QED BY <2>1, <2>2, <2>3
<1> QED BY <1>2, <1>3

\* The client follows the knob.
LEMMA KnobFollows ==
  ASSUME NEW c \in Pictures, NEW was, NEW now \in Knob, c.knob = was
  PROVE  LET s == When(was # now, [type |-> "knob", value |-> now]) IN
         s \in Seq(ControlEvent) /\ After(c, s) = [c EXCEPT !.knob = now]
<1> DEFINE e == [type |-> "knob", value |-> now]
<1>1. e \in ControlEvent /\ e \in Events /\ Apply(c, e) = [c EXCEPT !.knob = now]
  BY AfterKnob DEF Events
<1> HIDE DEF e
<1>2. CASE was = now
  <2>1. When(was # now, e) = <<>>
    BY <1>2 DEF When
  <2>2. c = [c EXCEPT !.knob = now]
    BY <1>2 DEF Pictures
  <2>3. <<>> \in Seq(ControlEvent) /\ After(c, <<>>) = c
    BY AfterFew
  <2> QED BY <2>1, <2>2, <2>3 DEF e
<1>3. CASE was # now
  <2>1. When(was # now, e) = <<e>> /\ <<e>> \in Seq(ControlEvent)
    BY <1>1, <1>3 DEF When
  <2>2. After(c, <<e>>) = Apply(c, e)
    BY <1>1, AfterFew
  <2> QED BY <1>1, <2>1, <2>2 DEF e
<1> QED BY <1>2, <1>3

\* A client that agrees with the report before agrees with this one after its
\* events.
LEMMA ControlsFollow ==
  ASSUME NEW c \in Pictures, NEW was \in Controls, NEW now \in Controls, NEW state,
         Agrees(c, was, state)
  PROVE  LET s == ControlEvents(was, now) IN
         /\ s \in Seq(ControlEvent)
         /\ Agrees(After(c, s), now, state)
         /\ After(c, s).encoder = c.encoder + EncoderDelta(was.encoder, now.encoder)
<1> DEFINE delta == EncoderDelta(was.encoder, now.encoder)
           s1 == ButtonEvents(was, now)
           s2 == When(delta # 0, [type |-> "encoder", delta |-> delta])
           s3 == StripEvents(was.strip, now.strip)
           s4 == When(was.knob # now.knob, [type |-> "knob", value |-> now.knob])
           c1 == [c EXCEPT !.buttons = now.buttons]
           c2 == [c1 EXCEPT !.encoder = @ + delta]
           c3 == [c2 EXCEPT !.strip = now.strip]
           c4 == [c3 EXCEPT !.knob = now.knob]
<1>1. ControlEvents(was, now) = ((s1 \o s2) \o s3) \o s4
  BY DEF ControlEvents, ButtonEvents, ButtonEvent, Changed
<1>2. /\ c.buttons = was.buttons /\ c.strip = was.strip /\ c.knob = was.knob
      /\ c.encoder % ENCODER_WRAP = was.encoder /\ c.held = state.on
  BY DEF Agrees
<1>3. /\ was.encoder \in 0..ENCODER_WRAP-1 /\ now.encoder \in 0..ENCODER_WRAP-1
      /\ now.buttons \in SUBSET Buttons /\ now.strip \in Positions \cup {None}
      /\ now.knob \in Knob
  BY DEF Controls
<1>4. /\ delta \in Int
      /\ was.encoder + delta \in {now.encoder, now.encoder + ENCODER_WRAP,
                                  now.encoder - ENCODER_WRAP}
  BY <1>3, DeltaIs
<1> HIDE DEF delta
<1>5. s1 \in Seq(ControlEvent) /\ After(c, s1) = c1
  BY <1>2, ButtonsFollow, ButtonEventsAre
<1>a. c = [buttons |-> c.buttons, encoder |-> c.encoder, strip |-> c.strip,
           knob |-> c.knob, held |-> c.held]
      /\ c.encoder \in Int /\ c.encoder + delta \in Int
  BY <1>4 DEF Pictures
<1>b. c1 = [buttons |-> now.buttons, encoder |-> c.encoder, strip |-> c.strip,
            knob |-> c.knob, held |-> c.held]
  BY <1>a
<1> HIDE DEF c1
<1>c. c2 = [buttons |-> now.buttons, encoder |-> c.encoder + delta, strip |-> c.strip,
            knob |-> c.knob, held |-> c.held]
  BY <1>b
<1> HIDE DEF c2
<1>d. c3 = [buttons |-> now.buttons, encoder |-> c.encoder + delta, strip |-> now.strip,
            knob |-> c.knob, held |-> c.held]
  BY <1>c
<1> HIDE DEF c3
<1>8. c4 = [buttons |-> now.buttons, encoder |-> c.encoder + delta,
            strip |-> now.strip, knob |-> now.knob, held |-> c.held]
  BY <1>d
<1> HIDE DEF c4
<1>6. c1 \in Pictures /\ c2 \in Pictures /\ c3 \in Pictures /\ c4 \in Pictures
  BY <1>3, <1>a, <1>b, <1>c, <1>d, <1>8 DEF Pictures
<1>7. c2.strip = was.strip /\ c3.knob = was.knob
  BY <1>2, <1>c, <1>d
<1> HIDE DEF s1
<1>9. s2 \in Seq(ControlEvent) /\ After(c1, s2) = c2
  BY <1>4, <1>6, TurnFollows DEF c2
<1>10. s3 \in Seq(ControlEvent) /\ After(c2, s3) = c3
  <2> DEFINE old == was.strip
             new == now.strip
  <2>1. c2 \in Pictures /\ c2.strip = old /\ new \in Positions \cup {None}
    BY <1>3, <1>6, <1>7
  <2> HIDE DEF old, new
  <2>2. /\ StripEvents(old, new) \in Seq(ControlEvent)
        /\ After(c2, StripEvents(old, new)) = [c2 EXCEPT !.strip = new]
    BY <2>1, TouchFollows
  <2> QED BY <2>2 DEF c3, old, new
<1>11. s4 \in Seq(ControlEvent) /\ After(c3, s4) = c4
  BY <1>3, <1>6, <1>7, KnobFollows DEF c4
<1> HIDE DEF s2, s3, s4
<1>12. /\ s1 \in Seq(Events) /\ s2 \in Seq(Events) /\ s3 \in Seq(Events)
       /\ s4 \in Seq(Events)
  BY <1>5, <1>9, <1>10, <1>11 DEF Events
<1>13. After(c, s1 \o s2) = c2
  BY <1>5, <1>9, <1>12, AfterConcat
<1>14. s1 \o s2 \in Seq(Events) /\ s1 \o s2 \in Seq(ControlEvent)
  BY <1>5, <1>9, <1>12
<1> DEFINE s12 == s1 \o s2
           s123 == s12 \o s3
<1>15. s12 \in Seq(Events) /\ s12 \in Seq(ControlEvent) /\ After(c, s12) = c2
  BY <1>13, <1>14
<1> HIDE DEF s12
<1>16. s123 \in Seq(Events) /\ s123 \in Seq(ControlEvent)
  BY <1>10, <1>12, <1>15
<1>17. After(c, s123) = c3
  BY <1>10, <1>12, <1>15, AfterConcat
<1> HIDE DEF s123
<1>18. After(c, s123 \o s4) = c4 /\ s123 \o s4 \in Seq(ControlEvent)
  <2>1. After(c, s123 \o s4) = After(After(c, s123), s4)
    BY <1>12, <1>16, AfterConcat
  <2> QED BY <1>11, <1>16, <1>17, <2>1
<1>19. c4.encoder % ENCODER_WRAP = now.encoder
  <2>1. c.encoder \in Int /\ ENCODER_WRAP \in Nat /\ ENCODER_WRAP > 0
    BY InputAssumption DEF Pictures
  <2>2. (c.encoder + delta) % ENCODER_WRAP = now.encoder
    BY <1>2, <1>3, <1>4, <2>1, AddAfter
  <2> QED BY <1>8, <2>2
<1>20. Agrees(c4, now, state)
  BY <1>2, <1>8, <1>19 DEF Agrees
<1> QED BY <1>1, <1>8, <1>18, <1>20 DEF s12, s123, delta

----------------------------------------------------------------------------
\* The pressures after a report of pads

\* The pressure of pad p after the slots: that of its last, or the one before.
LastShown(new, old, slots, p) ==
  \/ (\A k \in DOMAIN slots : slots[k].pad # p) /\ new = old
  \/ LastIs(slots, p, new)

\* v[i] is it after the first i of them.
Tracks(v, new, old, slots, p) ==
  /\ v[0] = old /\ v[Len(slots)] = new
  /\ \A i \in 0..Len(slots) : i < Len(slots) =>
       v[i + 1] = IF slots[i + 1].pad = p THEN slots[i + 1].pressure ELSE v[i]

\* What tracks the slots is shown by the last.
LEMMA LastTracked ==
  ASSUME NEW slots \in Seq(Slots), NEW v, NEW new, NEW old, NEW p,
         Tracks(v, new, old, slots, p)
  PROVE  LastShown(new, old, slots, p)
<1> DEFINE n == Len(slots)
           Of(i, k) == slots[k] = [pad |-> p, pressure |-> v[i]]
           Q == {i \in 0..n :
                   \/ (\A k \in 1..i : slots[k].pad # p) /\ v[i] = old
                   \/ \E k \in 1..i : Of(i, k) /\ \A l \in 1..i : l > k => slots[l].pad # p}
<1>1. n \in Nat /\ DOMAIN slots = 1..n
  OBVIOUS
<1>2. /\ v[0] = old /\ v[n] = new
      /\ \A i \in 0..n : i < n =>
           v[i + 1] = IF slots[i + 1].pad = p THEN slots[i + 1].pressure ELSE v[i]
  BY DEF Tracks
<1>3. \A k \in 1..n : slots[k] = [pad |-> slots[k].pad, pressure |-> slots[k].pressure]
  <2> SUFFICES ASSUME NEW k \in 1..n
               PROVE  slots[k] = [pad |-> slots[k].pad, pressure |-> slots[k].pressure]
    OBVIOUS
  <2> DEFINE s == slots[k]
  <2>1. s \in Slots
    OBVIOUS
  <2> HIDE DEF s
  <2>2. s = [pad |-> s.pad, pressure |-> s.pressure]
    BY <2>1 DEF Slots
  <2> QED BY <2>2 DEF s
<1> HIDE DEF n
<1>4. 0 \in Q
  BY <1>1, <1>2
<1>5. \A i \in 0..n : i \in Q /\ i < n => i + 1 \in Q
  <2> SUFFICES ASSUME NEW i \in 0..n, i \in Q, i < n PROVE i + 1 \in Q
    OBVIOUS
  <2> DEFINE m == i + 1
  <2>1. m \in 0..n /\ m \in 1..n /\ m \in 1..m /\ \A k : k \in 1..m <=> k \in 1..i \/ k = m
    BY <1>1
  <2>2. v[m] = IF slots[m].pad = p THEN slots[m].pressure ELSE v[i]
    BY <1>2
  <2>3. \A k \in 1..i : ~(m = k) /\ m > k
    BY <1>1
  <2> HIDE DEF m
  <2>4. CASE slots[m].pad = p
    <3>1. slots[m] = [pad |-> p, pressure |-> v[m]]
      BY <1>3, <2>1, <2>2, <2>4
    <3>2. \A l \in 1..m : l > m => slots[l].pad # p
      BY <1>1, <2>1
    <3>3. m \in Q
      BY <2>1, <3>1, <3>2
    <3> QED BY <3>3 DEF m
  <2>5. CASE slots[m].pad # p
    <3>1. v[m] = v[i]
      BY <2>2, <2>5
    <3>2. CASE (\A k \in 1..i : slots[k].pad # p) /\ v[i] = old
      <4>1. (\A k \in 1..m : slots[k].pad # p) /\ v[m] = old
        BY <2>1, <2>5, <3>1, <3>2
      <4>2. m \in Q
        BY <2>1, <4>1
      <4> QED BY <4>2 DEF m
    <3>3. CASE \E k \in 1..i : Of(i, k) /\ \A l \in 1..i : l > k => slots[l].pad # p
      <4>1. PICK k \in 1..i : Of(i, k) /\ \A l \in 1..i : l > k => slots[l].pad # p
        BY <3>3
      <4>2. k \in 1..m /\ Of(m, k) /\ \A l \in 1..m : l > k => slots[l].pad # p
        BY <2>1, <2>5, <3>1, <4>1
      <4>3. m \in Q
        BY <2>1, <4>2
      <4> QED BY <4>3 DEF m
    <3>4. \/ (\A k \in 1..i : slots[k].pad # p) /\ v[i] = old
          \/ \E k \in 1..i : Of(i, k) /\ \A l \in 1..i : l > k => slots[l].pad # p
      OBVIOUS
    <3> QED BY <3>2, <3>3, <3>4
  <2> QED BY <2>4, <2>5
<1> HIDE DEF Q
<1>6. \A i \in 0..n : i \in Q
  BY <1>1, <1>4, <1>5, Climb
<1>7. n \in Q
  BY <1>1, <1>6
<1>8. \/ (\A k \in 1..n : slots[k].pad # p) /\ v[n] = old
      \/ \E k \in 1..n : /\ slots[k] = [pad |-> p, pressure |-> v[n]]
                         /\ \A l \in 1..n : l > k => slots[l].pad # p
  BY <1>7 DEF Q
<1> QED BY <1>1, <1>2, <1>8 DEF LastShown, LastIs

\* So it is of the device's pressures.
LEMMA PressShows ==
  ASSUME NEW c \in Pressings, NEW slots \in Seq(Slots)
  PROVE  LET new == FoldLeft(Press, c, slots) IN
         new \in Pressings /\ \A p \in Pads : LastShown(new[p], c[p], slots, p)
<1> DEFINE at(i) == Folded(Pressings, Pressed, c, SubSeq(slots, 1, i))
           n == Len(slots)
           new == FoldLeft(Press, c, slots)
<1>1. Steps(Pressed, Pressings, Slots)
  BY PressIn DEF Pressed, Steps
<1>2. n \in Nat /\ SubSeq(slots, 1, n) = slots /\ \A i \in 1..n : slots[i] \in Slots
  OBVIOUS
<1>3. new = at(n)
  BY <1>2, PressFolds
<1>4. /\ at(0) = c
      /\ \A i \in 0..n : at(i) \in Pressings
      /\ \A i \in 0..n : i < n => at(i + 1) = Step(Pressed, at(i), slots, i + 1)
  BY <1>1, FoldedNext
<1> HIDE DEF at, new
<1>5. \A i \in 0..n : i < n => at(i + 1) = Press(at(i), slots[i + 1])
  <2> SUFFICES ASSUME NEW i \in 0..n, i < n
               PROVE  at(i + 1) = Press(at(i), slots[i + 1])
    OBVIOUS
  <2>1. at(i) \in Pressings /\ slots[i + 1] \in Slots
    BY <1>2, <1>4
  <2> QED BY <1>4, <2>1 DEF Step, Pressed
<1>6. ASSUME NEW p \in Pads
      PROVE  LastShown(new[p], c[p], slots, p)
  <2> DEFINE v == [i \in 0..n |-> at(i)[p]]
  <2>1. v[0] = c[p] /\ v[n] = new[p]
    BY <1>2, <1>3, <1>4
  <2>2. ASSUME NEW i \in 0..n, i < n
        PROVE  v[i + 1] = IF slots[i + 1].pad = p THEN slots[i + 1].pressure ELSE v[i]
    <3> DEFINE s == slots[i + 1]
               x == at(i)
    <3>1. i + 1 \in 0..n /\ s \in Slots
      BY <1>2, <2>2
    <3>2. v[i + 1] = Press(x, s)[p] /\ v[i] = x[p] /\ x \in Pressings
      BY <1>4, <1>5, <2>2, <3>1
    <3> HIDE DEF v, s, x
    <3>3. Press(x, s)[p] = IF s.pad = p THEN s.pressure ELSE x[p]
      BY <3>1, <3>2 DEF Press, Pressings, Slots
    <3> QED BY <3>2, <3>3 DEF s
  <2> HIDE DEF v
  <2>3. Tracks(v, new[p], c[p], slots, p)
    BY <2>1, <2>2 DEF Tracks
  <2> QED BY <2>3, LastTracked
<1>7. new \in Pressings
  BY <1>2, <1>3, <1>4
<1> QED BY <1>6, <1>7 DEF new

----------------------------------------------------------------------------
\* The events of a report of pads

\* What has been made of the slots so far: a client c that had the pads as they
\* were has them as they are after the events, each of which makes sense to it.
Good(c, acc) ==
  /\ OnIsPressed(acc.state)
  /\ After(c, acc.sent) = [c EXCEPT !.held = acc.state.on]
  /\ ~acc.state.raw_stream => Alternates(c, acc.sent)

\* One event more.
LEMMA OneMore ==
  ASSUME NEW c \in Pictures, NEW s \in Seq(Events), NEW e \in Events, NEW d,
         d = After(c, s)
  PROVE  /\ After(c, s \o <<e>>) = Apply(d, e)
         /\ Alternates(c, s) /\ (e.type = "pad" => (e.phase = "attack") = (e.pad \notin d.held))
            => Alternates(c, s \o <<e>>)
<1> DEFINE z == <<e>>
<1>1. z \in Seq(Events) /\ Len(z) = 1 /\ z[1] = e /\ DOMAIN z = {1}
  OBVIOUS
<1>2. d \in Pictures
  BY AfterAll
<1>3. After(d, z) = Apply(d, e)
  BY <1>2, AfterFew
<1> HIDE DEF z
<1>4. After(c, s \o z) = After(d, z)
  BY <1>1, AfterConcat
<1>5. ASSUME Alternates(c, s), e.type = "pad" => (e.phase = "attack") = (e.pad \notin d.held)
      PROVE  Alternates(c, s \o z)
  <2>1. After(d, SubSeq(z, 1, 0)) = d
    BY <1>1, <1>2, AfterFirst
  <2>2. \A i \in DOMAIN z : i = 1 /\ i - 1 = 0
    BY <1>1
  <2>3. Alternates(d, z)
    BY <1>1, <1>5, <2>1, <2>2 DEF Alternates
  <2> QED BY <1>1, <1>5, <2>3, AlternatesConcat
<1> QED BY <1>3, <1>4, <1>5 DEF z

\* A sample that brings no event.
LEMMA QuietSample ==
  ASSUME NEW state \in PadStates, NEW s \in Slots, OnIsPressed(state),
         Phase(state, s) \in {None, "pressure"}
  PROVE  OnIsPressed(NextPads(state, s)) /\ NextPads(state, s).on = state.on
         /\ NextPads(state, s).raw_stream = state.raw_stream
<1> DEFINE x == NextPads(state, s)
<1>1. x.on = state.on /\ x.raw_stream = state.raw_stream
      /\ x.pressures = [state.pressures EXCEPT ![s.pad] = s.pressure]
  BY DEF NextPads, PadStates, None
<1>2. s.pad \in Pads /\ s.pressure \in Nat
  BY InputAssumption DEF Slots
<1>3. s.pad \in state.on => s.pressure > pad_off_threshold
  <2>1. ASSUME s.pad \in state.on, ~(s.pressure > pad_off_threshold)
        PROVE  FALSE
    <3>1. ~state.raw_stream
      BY <2>1 DEF OnIsPressed
    <3>2. s.pressure <= pad_off_threshold
      BY <1>2, <2>1, InputAssumption
    <3>3. ~(s.pad \notin state.on)
      BY <2>1
    <3>4. Phase(state, s) = "release"
      BY <2>1, <3>1, <3>2, <3>3 DEF Phase, PadStates
    <3> QED BY <3>4 DEF None
  <2> QED BY <2>1
<1>4. ASSUME NEW p \in state.on PROVE x.pressures[p] > pad_off_threshold
  <2>1. p \in Pads /\ state.pressures \in [Pads -> Pressures]
    BY DEF PadStates
  <2>2. CASE p = s.pad
    BY <1>1, <1>3, <2>1, <2>2
  <2>3. CASE p # s.pad
    BY <1>1, <2>1, <2>3 DEF OnIsPressed
  <2> QED BY <2>2, <2>3
<1> HIDE DEF x
<1>5. OnIsPressed(x)
  BY <1>1, <1>4 DEF OnIsPressed
<1> QED BY <1>1, <1>5 DEF x

\* A sample that attacks turns a pad on that was off, and leaves it pressed.
LEMMA AttackSample ==
  ASSUME NEW state \in PadStates, NEW s \in Slots, OnIsPressed(state),
         Phase(state, s) = "attack"
  PROVE  /\ OnIsPressed(NextPads(state, s)) /\ s.pad \notin state.on
         /\ NextPads(state, s).on = state.on \cup {s.pad}
         /\ ~state.raw_stream /\ ~NextPads(state, s).raw_stream
<1> DEFINE x == NextPads(state, s)
<1>1. x.on = state.on \cup {s.pad} /\ x.raw_stream = state.raw_stream
      /\ x.pressures = [state.pressures EXCEPT ![s.pad] = s.pressure]
  BY DEF NextPads, PadStates
<1>2. s.pad \in Pads /\ s.pressure \in Nat
  BY InputAssumption DEF Slots
<1>3. ~state.raw_stream /\ s.pad \notin state.on /\ s.pressure >= pad_on_threshold
  BY DEF Phase, None
<1>4. s.pressure > pad_off_threshold
  BY <1>2, <1>3, InputAssumption
<1>5. ASSUME NEW p \in state.on \cup {s.pad} PROVE x.pressures[p] > pad_off_threshold
  <2>1. p \in Pads /\ state.pressures \in [Pads -> Pressures]
    BY <1>2 DEF PadStates
  <2>2. CASE p = s.pad
    BY <1>1, <1>4, <2>1, <2>2
  <2>3. CASE p # s.pad
    BY <1>1, <2>1, <2>3 DEF OnIsPressed
  <2> QED BY <2>2, <2>3
<1> HIDE DEF x
<1>6. OnIsPressed(x)
  BY <1>1, <1>3, <1>5 DEF OnIsPressed
<1> QED BY <1>1, <1>3, <1>6 DEF x

\* A sample that releases turns a pad off that was on.
LEMMA ReleaseSample ==
  ASSUME NEW state \in PadStates, NEW s \in Slots, OnIsPressed(state),
         Phase(state, s) = "release"
  PROVE  /\ OnIsPressed(NextPads(state, s)) /\ s.pad \in state.on
         /\ NextPads(state, s).on = state.on \ {s.pad}
         /\ ~state.raw_stream /\ ~NextPads(state, s).raw_stream
<1> DEFINE x == NextPads(state, s)
<1>1. x.on = state.on \ {s.pad} /\ x.raw_stream = state.raw_stream
      /\ x.pressures = [state.pressures EXCEPT ![s.pad] = s.pressure]
  BY DEF NextPads, PadStates
<1>2. ~state.raw_stream /\ s.pad \in state.on
  BY DEF Phase, None
<1>3. ASSUME NEW p \in state.on \ {s.pad} PROVE x.pressures[p] > pad_off_threshold
  <2>1. p \in Pads /\ state.pressures \in [Pads -> Pressures]
    BY DEF PadStates
  <2> QED BY <1>1, <2>1 DEF OnIsPressed
<1> HIDE DEF x
<1>4. OnIsPressed(x)
  BY <1>1, <1>2, <1>3 DEF OnIsPressed
<1> QED BY <1>1, <1>2, <1>4 DEF x

\* One slot more.
LEMMA PadStepGood ==
  ASSUME NEW c \in Pictures, NEW acc \in PadAccs, NEW s \in Slots, Good(c, acc)
  PROVE  Good(c, PadStep(acc, s))
         /\ PadStep(acc, s).state.raw_stream = acc.state.raw_stream
<1> DEFINE state == acc.state
           sent == acc.sent
           phase == Phase(state, s)
           next == NextPads(state, s)
           e == PhaseEvent(s, phase)
           d == After(c, sent)
           new == PadStep(acc, s)
<1>1. state \in PadStates /\ sent \in Seq(PadEvent) /\ s.pad \in Pads /\ new \in PadAccs
  BY PadStepIn DEF PadAccs, Slots
<1>2. sent \in Seq(Events)
  BY <1>1 DEF Events
<1>3. /\ OnIsPressed(state) /\ d = [c EXCEPT !.held = state.on]
      /\ ~state.raw_stream => Alternates(c, sent)
  BY DEF Good
<1>4. d \in Pictures /\ d.held = state.on
  BY <1>1, <1>3 DEF Pictures, PadStates
<1>5. CASE ~IsSample(s)
  BY <1>5 DEF PadStep
<1>6. CASE IsSample(s)
  <2>1. new.state = next /\ new.sent = sent \o When(phase # None, e)
    BY <1>6 DEF PadStep
  <2>2. phase \in {None, "attack", "pressure", "release"}
    BY PhaseIn
  <2>3. CASE phase = None
    <3>1. new.sent = sent
      <4>1. When(phase # None, e) = <<>>
        BY <2>3 DEF When
      <4> HIDE DEF sent
      <4> QED BY <1>2, <2>1, <4>1
    <3>2. OnIsPressed(next) /\ next.on = state.on /\ next.raw_stream = state.raw_stream
      <4> HIDE DEF state
      <4> QED BY <1>1, <1>3, <2>3, QuietSample
    <3> HIDE DEF new, next, state, sent, d
    <3>3. Good(c, new) /\ new.state.raw_stream = state.raw_stream
      BY <1>3, <2>1, <3>1, <3>2 DEF Good, d
    <3> QED BY <3>3 DEF new, state
  <2>4. CASE phase # None
    <3>1. new.sent = sent \o <<e>>
      BY <2>1, <2>4 DEF When
    <3>2. e.type = "pad" /\ e.phase = phase /\ e.pad = s.pad
      BY DEF PhaseEvent
    <3>3. e \in PadEvent /\ e \in Events
      BY <1>1, <2>2, <2>4 DEF PhaseEvent, PadEvent, Phases, Events
    <3> HIDE DEF e, d, sent, new
    <3>4. /\ After(c, sent \o <<e>>) = Apply(d, e)
          /\ Alternates(c, sent) /\ (e.type = "pad" => (e.phase = "attack") = (e.pad \notin d.held))
             => Alternates(c, sent \o <<e>>)
      BY <1>2, <3>3, OneMore DEF d
    <3>5. CASE phase = "attack"
      <4>1. /\ OnIsPressed(next) /\ s.pad \notin state.on /\ next.on = state.on \cup {s.pad}
            /\ ~state.raw_stream /\ ~next.raw_stream
        <5> HIDE DEF state
        <5> QED BY <1>1, <1>3, <3>5, AttackSample
      <4> HIDE DEF next, state, phase
      <4>2. Apply(d, e) = [d EXCEPT !.held = @ \cup {s.pad}]
        BY <3>2, <3>5 DEF Apply
      <4>3. Apply(d, e) = [c EXCEPT !.held = next.on]
        BY <1>3, <1>4, <4>1, <4>2 DEF Pictures
      <4>4. Alternates(c, new.sent)
        BY <1>3, <1>4, <3>1, <3>2, <3>4, <3>5, <4>1
      <4>5. Good(c, new) /\ new.state.raw_stream = state.raw_stream
        <5>1. next.raw_stream = state.raw_stream
          BY <2>1 DEF next, NextPads, state, PadAccs, PadStates
        <5> QED BY <2>1, <3>1, <3>4, <4>1, <4>3, <4>4, <5>1 DEF Good
      <4> QED BY <4>5 DEF new, state
    <3>6. CASE phase = "release"
      <4>1. /\ OnIsPressed(next) /\ s.pad \in state.on /\ next.on = state.on \ {s.pad}
            /\ ~state.raw_stream /\ ~next.raw_stream
        <5> HIDE DEF state
        <5> QED BY <1>1, <1>3, <3>6, ReleaseSample
      <4> HIDE DEF next, state, phase
      <4>2. Apply(d, e) = [d EXCEPT !.held = @ \ {s.pad}]
        BY <3>2, <3>6 DEF Apply
      <4>3. Apply(d, e) = [c EXCEPT !.held = next.on]
        BY <1>3, <1>4, <4>1, <4>2 DEF Pictures
      <4>4. Alternates(c, new.sent)
        BY <1>3, <1>4, <3>1, <3>2, <3>4, <3>6, <4>1
      <4>5. Good(c, new) /\ new.state.raw_stream = state.raw_stream
        <5>1. next.raw_stream = state.raw_stream
          BY <2>1 DEF next, NextPads, state, PadAccs, PadStates
        <5> QED BY <2>1, <3>1, <3>4, <4>1, <4>3, <4>4, <5>1 DEF Good
      <4> QED BY <4>5 DEF new, state
    <3>7. CASE phase = "pressure"
      <4>1. OnIsPressed(next) /\ next.on = state.on /\ next.raw_stream = state.raw_stream
        <5> HIDE DEF state
        <5> QED BY <1>1, <1>3, <3>7, QuietSample
      <4>2. state.raw_stream \/ s.pad \in state.on
        BY <3>7 DEF Phase, None
      <4> HIDE DEF next, state, phase
      <4>3. Apply(d, e) = [d EXCEPT !.held = @]
        BY <3>2, <3>7 DEF Apply
      <4>4. Apply(d, e) = [c EXCEPT !.held = next.on]
        BY <1>3, <1>4, <4>1, <4>3 DEF Pictures
      <4>5. ~state.raw_stream => Alternates(c, new.sent)
        BY <1>3, <1>4, <3>1, <3>2, <3>4, <3>7, <4>2
      <4>6. Good(c, new) /\ new.state.raw_stream = state.raw_stream
        BY <2>1, <3>1, <3>4, <4>1, <4>4, <4>5 DEF Good
      <4> QED BY <4>6 DEF new, state
    <3> QED BY <2>2, <2>4, <3>5, <3>6, <3>7
  <2> QED BY <2>3, <2>4
<1> QED BY <1>5, <1>6

\* The pressure of a pad other than 0, which is never taken for an empty slot.
LEMMA PadStepPressure ==
  ASSUME NEW acc \in PadAccs, NEW s \in Slots, NEW p \in Pads \ {0}
  PROVE  PadStep(acc, s).state.pressures[p]
           = IF s.pad = p THEN s.pressure ELSE acc.state.pressures[p]
<1>1. acc.state \in PadStates /\ acc.state.pressures \in [Pads -> Pressures]
      /\ s.pad \in Pads
  BY DEF PadAccs, PadStates, Slots
<1>2. CASE IsSample(s)
  <2>1. PadStep(acc, s).state = NextPads(acc.state, s)
    BY <1>2 DEF PadStep
  <2>2. NextPads(acc.state, s).pressures
          = [acc.state.pressures EXCEPT ![s.pad] = s.pressure]
    BY <1>1 DEF NextPads, PadStates
  <2> QED BY <1>1, <2>1, <2>2
<1>3. CASE ~IsSample(s)
  <2>1. s.pad # p /\ PadStep(acc, s) = acc
    BY <1>3 DEF IsSample, PadStep
  <2> QED BY <2>1
<1> QED BY <1>2, <1>3

\* All the slots.
LEMMA PadsFollow ==
  ASSUME NEW c \in Pictures, NEW was \in PadStates, NEW slots \in Seq(Slots),
         c.held = was.on, OnIsPressed(was)
  PROVE  LET acc == FoldLeft(PadStep, [state |-> was, sent |-> <<>>], slots) IN
         /\ acc \in PadAccs /\ Good(c, acc) /\ acc.state.raw_stream = was.raw_stream
         /\ \A p \in Pads \ {0} :
              LastShown(acc.state.pressures[p], was.pressures[p], slots, p)
<1> DEFINE start == [state |-> was, sent |-> <<>>]
           at(i) == Folded(PadAccs, Stepped, start, SubSeq(slots, 1, i))
           n == Len(slots)
           end == FoldLeft(PadStep, start, slots)
           Q == {i \in 0..n : Good(c, at(i)) /\ at(i).state.raw_stream = was.raw_stream}
<1>1. Steps(Stepped, PadAccs, Slots)
  BY PadStepIn DEF Stepped, Steps
<1>2. n \in Nat /\ SubSeq(slots, 1, n) = slots /\ \A i \in 1..n : slots[i] \in Slots
  OBVIOUS
<1>3. start \in PadAccs /\ start.state = was /\ start.sent = <<>>
  <2>1. <<>> \in Seq(PadEvent)
    OBVIOUS
  <2> QED BY <2>1 DEF PadAccs
<1> HIDE DEF start
<1>4. end = at(n)
  BY <1>2, <1>3, PadsFold
<1>5. /\ at(0) = start
      /\ \A i \in 0..n : at(i) \in PadAccs
      /\ \A i \in 0..n : i < n => at(i + 1) = Step(Stepped, at(i), slots, i + 1)
  BY <1>1, <1>3, FoldedNext
<1> HIDE DEF at, end
<1>6. \A i \in 0..n : i < n => at(i + 1) = PadStep(at(i), slots[i + 1])
  <2> SUFFICES ASSUME NEW i \in 0..n, i < n
               PROVE  at(i + 1) = PadStep(at(i), slots[i + 1])
    OBVIOUS
  <2>1. at(i) \in PadAccs /\ slots[i + 1] \in Slots
    BY <1>2, <1>5
  <2> QED BY <1>5, <2>1 DEF Step, Stepped
<1>7. 0 \in Q
  <2>1. After(c, <<>>) = c /\ c = [c EXCEPT !.held = was.on]
    BY AfterFew DEF Pictures
  <2>2. Alternates(c, <<>>)
    BY DEF Alternates
  <2>3. Good(c, start)
    BY <1>3, <2>1, <2>2 DEF Good
  <2> QED BY <1>2, <1>3, <1>5, <2>3
<1>8. \A i \in 0..n : i \in Q /\ i < n => i + 1 \in Q
  <2> SUFFICES ASSUME NEW i \in 0..n, i \in Q, i < n PROVE i + 1 \in Q
    OBVIOUS
  <2> DEFINE acc == at(i)
             s == slots[i + 1]
  <2>1. acc \in PadAccs /\ s \in Slots /\ Good(c, acc)
        /\ acc.state.raw_stream = was.raw_stream
    BY <1>2, <1>5
  <2>2. at(i + 1) = PadStep(acc, s) /\ i + 1 \in 0..n
    BY <1>2, <1>6
  <2> HIDE DEF acc, s
  <2>3. Good(c, PadStep(acc, s)) /\ PadStep(acc, s).state.raw_stream = acc.state.raw_stream
    BY <2>1, PadStepGood
  <2> QED BY <2>1, <2>2, <2>3
<1> HIDE DEF Q
<1>9. \A i \in 0..n : i \in Q
  BY <1>2, <1>7, <1>8, Climb
<1>10. n \in Q
  BY <1>2, <1>9
<1>11. end \in PadAccs /\ Good(c, end) /\ end.state.raw_stream = was.raw_stream
  BY <1>2, <1>4, <1>5, <1>10 DEF Q
<1>12. ASSUME NEW p \in Pads \ {0}
       PROVE  LastShown(end.state.pressures[p], was.pressures[p], slots, p)
  <2> DEFINE v == [i \in 0..n |-> at(i).state.pressures[p]]
             new == end.state.pressures[p]
             old == was.pressures[p]
  <2>1. v[0] = old /\ v[n] = new
    BY <1>2, <1>3, <1>4, <1>5
  <2>2. ASSUME NEW i \in 0..n, i < n
        PROVE  v[i + 1] = IF slots[i + 1].pad = p THEN slots[i + 1].pressure ELSE v[i]
    <3> DEFINE s == slots[i + 1]
               acc == at(i)
    <3>1. i + 1 \in 0..n /\ s \in Slots /\ acc \in PadAccs
      BY <1>2, <1>5, <2>2
    <3>2. v[i + 1] = PadStep(acc, s).state.pressures[p] /\ v[i] = acc.state.pressures[p]
      BY <1>6, <2>2, <3>1
    <3> HIDE DEF v, s, acc
    <3>3. PadStep(acc, s).state.pressures[p]
            = IF s.pad = p THEN s.pressure ELSE acc.state.pressures[p]
      BY <3>1, PadStepPressure
    <3> QED BY <3>2, <3>3 DEF s
  <2> HIDE DEF v, new, old
  <2>3. Tracks(v, new, old, slots, p)
    BY <2>1, <2>2 DEF Tracks
  <2>4. LastShown(new, old, slots, p)
    BY <2>3, LastTracked
  <2> QED BY <2>4 DEF new, old
<1> QED BY <1>11, <1>12 DEF end, start

----------------------------------------------------------------------------
\* Reports on their way

\* The last slot has one pressure only, and is one of the pad.
LEMMA LastIsOne ==
  ASSUME NEW slots \in Seq(Slots), NEW p, NEW x, NEW y, LastIs(slots, p, x)
  PROVE  /\ \E k \in DOMAIN slots : slots[k].pad = p
         /\ LastShown(y, x, slots, p) => y = x
         /\ LastIs(slots, p, y) => y = x
<1>1. PICK k \in DOMAIN slots : /\ slots[k] = [pad |-> p, pressure |-> x]
                                /\ \A l \in DOMAIN slots : l > k => slots[l].pad # p
  BY DEF LastIs
<1>2. slots[k].pad = p /\ slots[k].pressure = x
  BY <1>1
<1>3. ASSUME LastIs(slots, p, y) PROVE y = x
  <2>1. PICK m \in DOMAIN slots : /\ slots[m] = [pad |-> p, pressure |-> y]
                                  /\ \A l \in DOMAIN slots : l > m => slots[l].pad # p
    BY <1>3 DEF LastIs
  <2>2. slots[m].pad = p /\ slots[m].pressure = y
    BY <2>1
  <2>3. k \in Nat /\ m \in Nat /\ ~(k > m) /\ ~(m > k)
    BY <1>1, <1>2, <2>1, <2>2
  <2>4. k = m
    BY <2>3
  <2> QED BY <1>2, <2>2, <2>4
<1> QED BY <1>2, <1>3 DEF LastShown

\* What a report changes of a pad's pressure.
Brings(r, new, old, p) ==
  IF r.id = "pads" THEN LastShown(new, old, r.slots, p) ELSE new = old

\* One report more.
LEMMA ShowsMore ==
  ASSUME NEW q \in Seq(Reports), NEW r \in Reports, NEW p, NEW last, NEW had, NEW new,
         Shows(q, last, had, p), Brings(r, new, last, p)
  PROVE  Shows(Append(q, r), new, had, p)
<1> DEFINE y == Append(q, r)
           n == Len(q) + 1
<1>1. /\ DOMAIN y = 1..n /\ DOMAIN q = 1..Len(q) /\ Len(q) \in Nat /\ y[n] = r
      /\ \A i \in 1..Len(q) : y[i] = q[i] /\ i < n /\ i \in 1..n
      /\ \A i \in 1..n : i = n \/ i \in 1..Len(q)
      /\ n \in 1..n
  OBVIOUS
<1> HIDE DEF y, n
<1>2. CASE r.id = "pads" /\ LastIs(r.slots, p, new)
  <2>1. \A j \in 1..n : ~(j > n)
    BY <1>1 DEF n
  <2>2. Shows(y, new, had, p)
    BY <1>1, <1>2, <2>1 DEF Shows
  <2> QED BY <2>2 DEF y
<1>3. CASE ~Has(r, p) /\ new = last
  <2>1. CASE (\A i \in DOMAIN q : ~Has(q[i], p)) /\ last = had
    <3>1. \A i \in 1..n : ~Has(y[i], p)
      BY <1>1, <1>3, <2>1
    <3>2. Shows(y, new, had, p)
      BY <1>1, <1>3, <2>1, <3>1 DEF Shows
    <3> QED BY <3>2 DEF y
  <2>2. CASE \E i \in DOMAIN q : /\ q[i].id = "pads" /\ LastIs(q[i].slots, p, last)
                                 /\ \A j \in DOMAIN q : j > i => ~Has(q[j], p)
    <3>1. PICK i \in DOMAIN q : /\ q[i].id = "pads" /\ LastIs(q[i].slots, p, last)
                                /\ \A j \in DOMAIN q : j > i => ~Has(q[j], p)
      BY <2>2
    <3>2. i \in 1..n /\ y[i] = q[i] /\ \A j \in 1..n : j > i => ~Has(y[j], p)
      BY <1>1, <1>3, <3>1
    <3>3. Shows(y, new, had, p)
      BY <1>1, <1>3, <3>1, <3>2 DEF Shows
    <3> QED BY <3>3 DEF y
  <2> QED BY <2>1, <2>2 DEF Shows
<1>4. \/ r.id = "pads" /\ LastIs(r.slots, p, new)
      \/ ~Has(r, p) /\ new = last
  BY DEF Brings, LastShown, Has
<1> QED BY <1>2, <1>3, <1>4

\* One report fewer, of which the diff task takes notice.
LEMMA ShowsLess ==
  ASSUME NEW q \in Seq(Reports), q # <<>>, NEW p, NEW last, NEW had, NEW new,
         Shows(q, last, had, p), Brings(Head(q), new, had, p)
  PROVE  Shows(Tail(q), last, new, p)
<1> DEFINE y == Tail(q)
           r == Head(q)
           n == Len(y)
<1>1. /\ DOMAIN y = 1..n /\ n \in Nat /\ r = q[1] /\ DOMAIN q = 1..n + 1 /\ r \in Reports
      /\ \A i \in 1..n : y[i] = q[i + 1]
  OBVIOUS
<1> HIDE DEF y, r, n
<1>2. Brings(r, new, had, p)
  BY DEF r
<1>3. CASE (\A i \in DOMAIN q : ~Has(q[i], p)) /\ last = had
  <2>1. ~Has(r, p)
    BY <1>1, <1>3
  <2>2. new = had
    <3>1. CASE r.id = "pads"
      <4>1. \A k \in DOMAIN r.slots : r.slots[k].pad # p
        BY <2>1, <3>1 DEF Has
      <4>2. r.slots \in Seq(Slots)
        BY <1>1, <3>1 DEF Reports
      <4>3. LastShown(new, had, r.slots, p)
        BY <1>2, <3>1 DEF Brings
      <4>4. ~LastIs(r.slots, p, new)
        BY <4>1 DEF LastIs
      <4> QED BY <4>3, <4>4 DEF LastShown
    <3>2. CASE r.id # "pads"
      BY <1>2, <3>2 DEF Brings
    <3> QED BY <3>1, <3>2
  <2>3. \A i \in 1..n : ~Has(y[i], p)
    <3>1. \A i \in 1..n : i + 1 \in DOMAIN q
      BY <1>1
    <3> QED BY <1>1, <1>3, <3>1
  <2>4. Shows(y, last, new, p)
    BY <1>1, <1>3, <2>2, <2>3 DEF Shows
  <2> QED BY <2>4 DEF y
<1>4. CASE \E i \in DOMAIN q : /\ q[i].id = "pads" /\ LastIs(q[i].slots, p, last)
                               /\ \A j \in DOMAIN q : j > i => ~Has(q[j], p)
  <2>1. PICK i \in DOMAIN q : /\ q[i].id = "pads" /\ LastIs(q[i].slots, p, last)
                              /\ \A j \in DOMAIN q : j > i => ~Has(q[j], p)
    BY <1>4
  <2>2. CASE i = 1
    <3>1. r.id = "pads" /\ LastIs(r.slots, p, last) /\ r.slots \in Seq(Slots)
      BY <1>1, <2>1, <2>2 DEF Reports
    <3>2. LastShown(new, had, r.slots, p)
      BY <1>2, <3>1 DEF Brings
    <3>3. \E k \in DOMAIN r.slots : r.slots[k].pad = p
      BY <3>1, LastIsOne
    <3>4. LastIs(r.slots, p, new)
      BY <3>2, <3>3 DEF LastShown
    <3>5. new = last
      BY <3>1, <3>4, LastIsOne
    <3>6. \A j \in 1..n : j + 1 \in DOMAIN q /\ j + 1 > i
      BY <1>1, <2>2
    <3>7. \A j \in 1..n : ~Has(y[j], p)
      BY <1>1, <2>1, <3>6
    <3>8. Shows(y, last, new, p)
      BY <1>1, <3>5, <3>7 DEF Shows
    <3> QED BY <3>8 DEF y
  <2>3. CASE i # 1
    <3> DEFINE k == i - 1
    <3>1. k \in 1..n /\ k + 1 = i
      BY <1>1, <2>1, <2>3
    <3>2. \A j \in 1..n : j > k => j + 1 \in DOMAIN q /\ j + 1 > i
      BY <1>1, <3>1
    <3> HIDE DEF k
    <3>3. y[k] = q[i]
      BY <1>1, <3>1
    <3>4. \A j \in 1..n : j > k => ~Has(y[j], p)
      BY <1>1, <2>1, <3>2
    <3>5. Shows(y, last, new, p)
      BY <1>1, <2>1, <3>1, <3>3, <3>4 DEF Shows
    <3> QED BY <3>5 DEF y
  <2> QED BY <2>2, <2>3
<1> QED BY <1>3, <1>4 DEF Shows

----------------------------------------------------------------------------
\* The invariant

\* Nothing is on its way, and everything is at rest.
LEMMA InitInv ==
  ASSUME Init
  PROVE  IInv
<1>1. /\ ENCODER_WRAP \in Nat /\ ENCODER_WRAP > 2 /\ 0 \in Knob /\ 0 \in Pressures
      /\ Starts \subseteq 0..ENCODER_WRAP-1 /\ RawCap \in Nat /\ EventCap \in Nat
      /\ MaxReports \in Nat
  BY InputAssumption
<1>2. /\ reader = "running" /\ raw = <<>> /\ diff = "receiving" /\ controls = Rest
      /\ out = <<>> /\ events = <<>> /\ open = TRUE /\ reports = 0
      /\ client = [buttons |-> {}, encoder |-> 0, strip |-> None, knob |-> 0, held |-> {}]
  BY DEF Init
<1>3. PICK start \in Starts :
        device = [controls |-> [Rest EXCEPT !.encoder = start], first |-> {},
                  pressure |-> [p \in Pads |-> 0]]
  BY DEF Init
<1>4. PICK stream \in BOOLEAN :
        pads = [on |-> {}, pressures |-> [p \in Pads |-> 0], raw_stream |-> stream]
  BY DEF Init
<1>5. client \in Pictures /\ pads \in PadStates /\ controls \in Controls
  <2>1. pads \in PadStates
    BY <1>1, <1>4 DEF PadStates
  <2>2. controls \in Controls
    BY <1>1, <1>2 DEF Rest, Controls
  <2>3. client \in Pictures
    BY <1>1, <1>2 DEF Pictures
  <2> QED BY <2>1, <2>2, <2>3
<1>6. device \in [controls : Touched, first : SUBSET Int, pressure : [Pads -> Pressures]]
  <2>1. [Rest EXCEPT !.encoder = start] \in Touched
    <3>1. start \in Int
      BY <1>1
    <3> QED BY <1>1, <3>1 DEF Rest, Touched
  <2>2. [p \in Pads |-> 0] \in [Pads -> Pressures]
    BY <1>1
  <2> QED BY <1>3, <2>1, <2>2
<1>7. <<>> \in Seq(Reports) /\ <<>> \in Seq(Events)
  OBVIOUS
<1>8. Len(raw) = 0 /\ Len(events) = 0
  BY <1>2
<1>9. Typed
  BY <1>1, <1>2, <1>5, <1>6, <1>7, <1>8 DEF Typed
<1>10. Tasks
  BY <1>2 DEF Tasks
<1>11. Coming = <<>> /\ After(client, Coming) = client
  <2>1. Coming = <<>>
    BY <1>2 DEF Coming
  <2> QED BY <1>5, <2>1, AfterFew
<1>12. 0 % ENCODER_WRAP = 0
  <2>1. Divided(0, ENCODER_WRAP, 0, 0)
    BY <1>1 DEF Divided
  <2> QED BY <1>1, <2>1, Remainder
<1>13. Agreed
  <2>1. Agrees(client, controls, pads)
    BY <1>2, <1>4, <1>12 DEF Agrees, Rest
  <2> QED BY <1>11, <2>1 DEF Agreed
<1>14. Alternating
  BY <1>11 DEF Alternating, Alternates
<1>15. OnIsPressed(pads)
  BY <1>4 DEF OnIsPressed
<1>16. Stepping
  BY <1>2, <1>3, <1>4 DEF Stepping, Shows
<1> QED BY <1>9, <1>10, <1>13, <1>14, <1>15, <1>16 DEF IInv

\* A step that leaves the client, the events and the diff state alone.
LEMMA SameEvents ==
  ASSUME IInv, UNCHANGED <<diffVars, out, events, open, client>>
  PROVE  Agreed' /\ Alternating' /\ OnIsPressed(pads)'
<1>1. Coming' = Coming
  BY DEF Coming
<1>2. Agreed'
  BY <1>1 DEF IInv, Agreed, Agrees, diffVars
<1>3. Alternating'
  BY <1>1 DEF IInv, Alternating, Alternates, diffVars
<1>4. OnIsPressed(pads)'
  BY DEF IInv, OnIsPressed, diffVars
<1> QED BY <1>2, <1>3, <1>4

\* A report completes.
LEMMA ReportKeeps ==
  ASSUME IInv, NEW r \in Reports, Report(r),
         device' \in [controls : Touched, first : SUBSET Int, pressure : [Pads -> Pressures]],
         \A p \in Pads : Brings(r, device'.pressure[p], device.pressure[p], p)
  PROVE  IInv'
<1>1. Typed /\ Tasks /\ Stepping
  BY DEF IInv
<1>2. Typed'
  <2>1. raw' \in Seq(Reports) /\ Len(raw') <= RawCap /\ reader' \in {"running", "ended"}
    <3>1. CASE diff = "ended"
      BY <1>1, <3>1 DEF Report, Typed
    <3>2. CASE diff # "ended"
      <4>1. Len(raw) < RawCap /\ raw' = Append(raw, r) /\ reader' = reader
        BY <3>2 DEF Report
      <4>2. raw \in Seq(Reports) /\ RawCap \in Nat
        BY <1>1, InputAssumption DEF Typed
      <4>3. raw' \in Seq(Reports) /\ Len(raw') = Len(raw) + 1
        BY <4>1, <4>2
      <4>4. Len(raw') <= RawCap
        BY <4>1, <4>2, <4>3
      <4> QED BY <1>1, <4>1, <4>3, <4>4 DEF Typed
    <3> QED BY <3>1, <3>2
  <2>2. reports' \in 0..MaxReports
    BY <1>1, InputAssumption DEF Report, Typed
  <2> QED BY <1>1, <2>1, <2>2 DEF Report, Typed, diffVars
<1>3. Tasks'
  BY <1>1 DEF Report, Tasks
<1>4. Stepping'
  <2> SUFFICES ASSUME open', NEW p \in Pads \ {0}
               PROVE  Shows(raw', device'.pressure[p], pads'.pressures[p], p)
    BY DEF Stepping
  <2>1. open /\ diff # "ended" /\ raw' = Append(raw, r) /\ pads' = pads
    BY <1>1 DEF Report, Tasks, diffVars
  <2> DEFINE last == device.pressure[p]
             had == pads.pressures[p]
             new == device'.pressure[p]
  <2>2. Shows(raw, last, had, p) /\ Brings(r, new, last, p)
    BY <1>1, <2>1 DEF Stepping
  <2>3. raw \in Seq(Reports)
    BY <1>1 DEF Typed
  <2> HIDE DEF last, had, new
  <2>4. Shows(Append(raw, r), new, had, p)
    BY <2>2, <2>3, ShowsMore
  <2> QED BY <2>1, <2>4 DEF had, new
<1>5. Agreed' /\ Alternating' /\ OnIsPressed(pads)'
  BY SameEvents DEF Report
<1> QED BY <1>2, <1>3, <1>4, <1>5 DEF IInv

\* A report of controls has no slot of a pad.
LEMMA ReportControlsKeeps ==
  ASSUME IInv, ReportControls
  PROVE  IInv'
<1>1. PICK pressed \in SUBSET Buttons, turn \in {-1, 0, 1},
           strip \in Positions \cup {None}, knob \in Knob :
        LET now == [buttons |-> pressed, encoder |-> device.controls.encoder + turn,
                    strip |-> strip, knob |-> knob]
        IN  /\ Report([id |-> "controls",
                       controls |-> [now EXCEPT !.encoder = @ % ENCODER_WRAP]])
            /\ device' = [device EXCEPT !.controls = now,
                            !.first = IF @ = {} THEN {now.encoder} ELSE @]
  BY DEF ReportControls
<1> DEFINE at == device.controls.encoder + turn
           now == [buttons |-> pressed, encoder |-> at, strip |-> strip, knob |-> knob]
           told == [now EXCEPT !.encoder = @ % ENCODER_WRAP]
           r == [id |-> "controls", controls |-> told]
           first == IF device.first = {} THEN {at} ELSE device.first
<1>2. device \in [controls : Touched, first : SUBSET Int, pressure : [Pads -> Pressures]]
  BY DEF IInv, Typed
<1>3. at \in Int /\ now \in Touched
  BY <1>2 DEF Touched
<1>4. at % ENCODER_WRAP \in 0..ENCODER_WRAP-1
  BY <1>3, InputAssumption
<1>5. told = [buttons |-> pressed, encoder |-> at % ENCODER_WRAP, strip |-> strip,
              knob |-> knob]
  OBVIOUS
<1>6. Report(r) /\ device' = [device EXCEPT !.controls = now, !.first = first]
  BY <1>1
<1> HIDE DEF told, now, at
<1>7. told \in Controls
  BY <1>4, <1>5 DEF Controls
<1>8. r \in Reports
  BY <1>7 DEF Reports
<1>9. first \in SUBSET Int
  BY <1>2, <1>3
<1> HIDE DEF first
<1>10. device' \in [controls : Touched, first : SUBSET Int, pressure : [Pads -> Pressures]]
       /\ device'.pressure = device.pressure
  BY <1>2, <1>3, <1>6, <1>9
<1>11. \A p \in Pads : Brings(r, device'.pressure[p], device.pressure[p], p)
  BY <1>10 DEF Brings
<1> HIDE DEF r
<1> QED BY <1>6, <1>8, <1>10, <1>11, ReportKeeps

\* The device has the pressures of the report that it appends.
LEMMA ReportPadsKeeps ==
  ASSUME IInv, ReportPads
  PROVE  IInv'
<1>1. PICK slots \in PadReports :
        /\ Report([id |-> "pads", slots |-> slots])
        /\ device' = [device EXCEPT !.pressure = FoldLeft(Press, @, slots)]
  BY DEF ReportPads
<1> DEFINE r == [id |-> "pads", slots |-> slots]
           old == device.pressure
           new == FoldLeft(Press, old, slots)
<1>2. device \in [controls : Touched, first : SUBSET Int, pressure : [Pads -> Pressures]]
  BY DEF IInv, Typed
<1>3. slots \in Seq(Slots)
  BY InputAssumption DEF Slots
<1>4. old \in Pressings
  BY <1>2 DEF Pressings
<1>5. r \in Reports
  BY <1>3 DEF Reports
<1>6. Report(r) /\ device' = [device EXCEPT !.pressure = new]
  BY <1>1
<1> HIDE DEF old
<1>7. new \in Pressings /\ \A p \in Pads : LastShown(new[p], old[p], slots, p)
  BY <1>3, <1>4, PressShows
<1> HIDE DEF new
<1>8. device' \in [controls : Touched, first : SUBSET Int, pressure : [Pads -> Pressures]]
       /\ device'.pressure = new
  BY <1>2, <1>6, <1>7 DEF Pressings
<1>9. \A p \in Pads : Brings(r, device'.pressure[p], device.pressure[p], p)
  BY <1>7, <1>8 DEF Brings, old
<1> HIDE DEF r
<1> QED BY <1>5, <1>6, <1>8, <1>9, ReportKeeps

\* A report of another id has no slot of a pad.
LEMMA ReportOtherKeeps ==
  ASSUME IInv, ReportOther
  PROVE  IInv'
<1> DEFINE r == [id |-> "other"]
<1>1. Report(r) /\ device' = device /\ r \in Reports
  BY DEF ReportOther, Reports
<1>2. device' \in [controls : Touched, first : SUBSET Int, pressure : [Pads -> Pressures]]
  BY <1>1 DEF IInv, Typed
<1>3. \A p \in Pads : Brings(r, device'.pressure[p], device.pressure[p], p)
  BY <1>1 DEF Brings
<1> HIDE DEF r
<1> QED BY <1>1, <1>2, <1>3, ReportKeeps

\* The events of a report of controls are events, whatever the client has.
LEMMA ControlEventsIn ==
  ASSUME NEW was \in Controls, NEW now \in Controls
  PROVE  ControlEvents(was, now) \in Seq(ControlEvent)
<1> DEFINE c == [buttons |-> was.buttons, encoder |-> was.encoder, strip |-> was.strip,
                 knob |-> was.knob, held |-> {}]
           state == [on |-> {}]
<1>1. ENCODER_WRAP \in Nat /\ ENCODER_WRAP > 0 /\ was.encoder \in 0..ENCODER_WRAP-1
  BY InputAssumption DEF Controls
<1>2. was.encoder % ENCODER_WRAP = was.encoder
  <2>1. Divided(was.encoder, ENCODER_WRAP, 0, was.encoder) /\ was.encoder \in Int
    BY <1>1 DEF Divided
  <2> QED BY <1>1, <2>1, Remainder
<1>3. c \in Pictures
  BY <1>1 DEF Controls, Pictures
<1>4. Agrees(c, was, state)
  BY <1>2 DEF Agrees
<1> HIDE DEF c, state
<1> QED BY <1>3, <1>4, ControlsFollow

\* The diff task takes a report of controls.
LEMMA TakeControlsKeeps ==
  ASSUME IInv, TakeReport, Head(raw).id = "controls"
  PROVE  /\ out' \in Seq(Events) /\ controls' \in Controls /\ pads' = pads
         /\ diff' = "sending" /\ Agreed' /\ Alternating'
         /\ open => After(client', Coming').encoder
                      = After(client, Coming).encoder
                          + EncoderDelta(controls.encoder, Head(raw).controls.encoder)
<1> DEFINE now == Head(raw).controls
           s == ControlEvents(controls, now)
           d == After(client, events)
<1>1. Typed /\ Tasks /\ diff = "receiving" /\ out = <<>>
  BY DEF IInv, Tasks, TakeReport
<1>2. /\ out' = s /\ controls' = now /\ diff' = "sending" /\ pads' = pads
      /\ client' = client /\ events' = events /\ open' = open
  BY DEF TakeReport
<1>3. Head(raw) \in Reports
  BY <1>1 DEF TakeReport, Typed
<1>4. now \in Controls /\ controls \in Controls
  BY <1>1, <1>3 DEF Reports, Typed
<1>5. client \in Pictures /\ events \in Seq(Events)
  BY <1>1 DEF Typed
<1> HIDE DEF now
<1>6. s \in Seq(ControlEvent) /\ s \in Seq(Events)
  BY <1>4, ControlEventsIn DEF Events
<1>7. Coming = events /\ Coming' = events \o s
  BY <1>1, <1>2, <1>5 DEF Coming
<1>8. d \in Pictures
  BY <1>5, AfterAll
<1> HIDE DEF s
<1>9. After(client, events \o s) = After(d, s)
  BY <1>5, <1>6, AfterConcat
<1> HIDE DEF d
<1>10. Agreed'
  <2> SUFFICES ASSUME open' PROVE Agrees(After(client, Coming)', controls', pads')
    BY DEF Agreed, Agrees
  <2>1. Agrees(d, controls, pads)
    BY <1>2, <1>7 DEF IInv, Agreed, d
  <2>2. Agrees(After(d, s), now, pads)
    BY <1>4, <1>8, <2>1, ControlsFollow DEF s
  <2> QED BY <1>2, <1>7, <1>9, <2>2
<1>11. Alternating'
  <2> SUFFICES ASSUME open', ~pads'.raw_stream
               PROVE  Alternates(client', Coming')
    BY DEF Alternating, Alternates
  <2>1. Alternates(client, events)
    BY <1>2, <1>7 DEF IInv, Alternating
  <2>2. Alternates(d, s)
    BY <1>6, NoPadsAlternate
  <2>3. Alternates(client, events \o s)
    BY <1>5, <1>6, <2>1, <2>2, AlternatesConcat DEF d
  <2> QED BY <1>2, <1>7, <2>3
<1>12. ASSUME open
       PROVE  After(client', Coming').encoder
                = After(client, Coming).encoder
                    + EncoderDelta(controls.encoder, now.encoder)
  <2>1. Agrees(d, controls, pads)
    BY <1>7, <1>12 DEF IInv, Agreed, d
  <2>2. After(d, s).encoder = d.encoder + EncoderDelta(controls.encoder, now.encoder)
    BY <1>4, <1>8, <2>1, ControlsFollow DEF s
  <2>3. After(client', Coming') = After(d, s) /\ After(client, Coming) = d
    BY <1>2, <1>7, <1>9 DEF d
  <2> QED BY <2>2, <2>3
<1> QED BY <1>2, <1>4, <1>6, <1>10, <1>11, <1>12 DEF now

\* The diff task takes a report of pads.
LEMMA TakePadsKeeps ==
  ASSUME IInv, TakeReport, Head(raw).id = "pads"
  PROVE  /\ out' \in Seq(Events) /\ controls' = controls /\ pads' \in PadStates
         /\ diff' = "sending" /\ Agreed' /\ Alternating' /\ OnIsPressed(pads')
         /\ \A p \in Pads \ {0} : Brings(Head(raw), pads'.pressures[p], pads.pressures[p], p)
         /\ open => After(client', Coming').encoder = After(client, Coming).encoder
<1> DEFINE slots == Head(raw).slots
           acc == FoldLeft(PadStep, [state |-> pads, sent |-> <<>>], slots)
           d == After(client, events)
           x == [client EXCEPT !.held = pads.on]
<1>1. Typed /\ Tasks /\ OnIsPressed(pads) /\ diff = "receiving" /\ out = <<>>
  BY DEF IInv, Tasks, TakeReport
<1>2. /\ out' = acc.sent /\ pads' = acc.state /\ diff' = "sending" /\ controls' = controls
      /\ client' = client /\ events' = events /\ open' = open
  BY DEF TakeReport, EmitPads
<1>3. Head(raw) \in Reports
  BY <1>1 DEF TakeReport, Typed
<1>4. slots \in Seq(Slots)
  BY <1>3 DEF Reports
<1>5. client \in Pictures /\ events \in Seq(Events) /\ pads \in PadStates
  BY <1>1 DEF Typed
<1>6. x \in Pictures /\ x.held = pads.on
  BY <1>5 DEF Pictures, PadStates
<1> HIDE DEF slots, x
<1>7. /\ acc \in PadAccs /\ Good(x, acc)
      /\ \A p \in Pads \ {0} :
           LastShown(acc.state.pressures[p], pads.pressures[p], slots, p)
  BY <1>1, <1>4, <1>5, <1>6, PadsFollow
<1>8. acc.sent \in Seq(Events) /\ acc.state \in PadStates
  BY <1>7 DEF PadAccs, Events
<1>9. Coming = events /\ Coming' = events \o acc.sent
  <2> HIDE DEF acc
  <2> QED BY <1>1, <1>2, <1>5, <1>8 DEF Coming
<1>10. d \in Pictures
  BY <1>5, AfterAll
<1>11. ASSUME open
       PROVE  Agrees(d, controls, pads) /\ Good(d, acc)
              /\ acc.state.raw_stream = pads.raw_stream
  <2>1. Agrees(d, controls, pads)
    BY <1>9, <1>11 DEF IInv, Agreed
  <2>2. d.held = pads.on
    BY <2>1 DEF Agrees
  <2> HIDE DEF d
  <2> QED BY <1>1, <1>4, <1>5, <1>10, <2>1, <2>2, PadsFollow
<1> HIDE DEF acc
<1>12. After(client, events \o acc.sent) = After(d, acc.sent)
  <2> DEFINE s == acc.sent
  <2>1. s \in Seq(Events)
    BY <1>8
  <2> HIDE DEF s
  <2>2. After(client, events \o s) = After(After(client, events), s)
    BY <1>5, <2>1, AfterConcat
  <2> QED BY <2>2 DEF s
<1>13. Agreed'
  <2> SUFFICES ASSUME open' PROVE Agrees(After(client, Coming)', controls', pads')
    BY DEF Agreed, Agrees
  <2>1. Agrees(d, controls, pads) /\ Good(d, acc)
    BY <1>2, <1>11
  <2> HIDE DEF d
  <2>2. After(d, acc.sent) = [d EXCEPT !.held = acc.state.on]
    BY <2>1 DEF Good
  <2>3. Agrees([d EXCEPT !.held = acc.state.on], controls, acc.state)
    BY <1>10, <2>1 DEF Agrees, Pictures
  <2> QED BY <1>2, <1>9, <1>12, <2>2, <2>3
<1>14. Alternating'
  <2> SUFFICES ASSUME open', ~pads'.raw_stream
               PROVE  Alternates(client', Coming')
    BY DEF Alternating, Alternates
  <2>1. open /\ ~acc.state.raw_stream /\ ~pads.raw_stream /\ Good(d, acc)
    BY <1>2, <1>11
  <2>2. Alternates(client, events)
    BY <1>9, <2>1 DEF IInv, Alternating
  <2>3. Alternates(d, acc.sent)
    BY <2>1 DEF Good
  <2>4. Alternates(client, events \o acc.sent)
    <3> DEFINE s == acc.sent
    <3>1. s \in Seq(Events) /\ Alternates(After(client, events), s)
      BY <1>8, <2>3
    <3> HIDE DEF s
    <3>2. Alternates(client, events \o s)
      BY <1>5, <2>2, <3>1, AlternatesConcat
    <3> QED BY <3>2 DEF s
  <2> QED BY <1>2, <1>9, <2>4
<1>15. OnIsPressed(pads')
  BY <1>2, <1>7 DEF Good
<1>16. \A p \in Pads \ {0} : Brings(Head(raw), pads'.pressures[p], pads.pressures[p], p)
  BY <1>2, <1>7 DEF Brings, slots
<1>17. open => After(client', Coming').encoder = After(client, Coming).encoder
  <2> SUFFICES ASSUME open PROVE After(client', Coming').encoder = d.encoder
    BY <1>9
  <2>1. After(d, acc.sent) = [d EXCEPT !.held = acc.state.on]
    BY <1>11 DEF Good
  <2>2. After(client', Coming') = After(d, acc.sent)
    BY <1>2, <1>9, <1>12
  <2> HIDE DEF d
  <2> QED BY <1>10, <2>1, <2>2 DEF Pictures
<1> QED BY <1>2, <1>8, <1>13, <1>14, <1>15, <1>16, <1>17

\* The diff task takes the picture of the report, and its events bring it to
\* the client.
LEMMA TakeReportKeeps ==
  ASSUME IInv, TakeReport
  PROVE  IInv'
<1> DEFINE r == Head(raw)
<1>1. Typed /\ Tasks /\ Agreed /\ Alternating /\ OnIsPressed(pads) /\ Stepping
  BY DEF IInv
<1>2. /\ diff = "receiving" /\ raw # <<>> /\ raw' = Tail(raw)
      /\ UNCHANGED <<device, reader, events, open, client, reports>>
  BY DEF TakeReport
<1>3. raw \in Seq(Reports) /\ Len(raw) <= RawCap /\ RawCap \in Nat
  BY <1>1, InputAssumption DEF Typed
<1>4. raw' \in Seq(Reports) /\ Len(raw') <= RawCap
  <2>1. raw' \in Seq(Reports) /\ Len(raw') = Len(raw) - 1 /\ Len(raw) \in Nat
    BY <1>2, <1>3
  <2> QED BY <1>3, <2>1
<1>5. /\ out' \in Seq(Events) /\ controls' \in Controls /\ pads' \in PadStates
      /\ diff' \in {"receiving", "sending"} /\ (diff' = "receiving" => out' = <<>>)
      /\ Agreed' /\ Alternating' /\ OnIsPressed(pads')
      /\ \A p \in Pads \ {0} : Brings(r, pads'.pressures[p], pads.pressures[p], p)
  <2>1. CASE r.id = "controls"
    <3>1. /\ out' \in Seq(Events) /\ controls' \in Controls /\ pads' = pads
          /\ diff' = "sending" /\ Agreed' /\ Alternating'
      BY <2>1, TakeControlsKeeps
    <3>2. \A p \in Pads \ {0} : Brings(r, pads'.pressures[p], pads.pressures[p], p)
      BY <2>1, <3>1 DEF Brings
    <3>3. pads' \in PadStates /\ OnIsPressed(pads')
      BY <1>1, <3>1 DEF Typed
    <3> QED BY <3>1, <3>2, <3>3
  <2>2. CASE r.id = "pads"
    <3>1. controls \in Controls
      BY <1>1 DEF Typed
    <3>2. /\ out' \in Seq(Events) /\ controls' = controls /\ pads' \in PadStates
          /\ diff' = "sending" /\ Agreed' /\ Alternating' /\ OnIsPressed(pads')
          /\ \A p \in Pads \ {0} : Brings(r, pads'.pressures[p], pads.pressures[p], p)
      BY <2>2, TakePadsKeeps
    <3> QED BY <3>1, <3>2
  <2>3. CASE r.id \notin {"controls", "pads"}
    <3>1. UNCHANGED <<out, diff, diffVars>>
      BY <2>3 DEF TakeReport
    <3>2. Agreed' /\ Alternating' /\ OnIsPressed(pads)'
      BY <1>2, <3>1, SameEvents
    <3>3. \A p \in Pads \ {0} : Brings(r, pads'.pressures[p], pads.pressures[p], p)
      BY <2>3, <3>1 DEF Brings, diffVars
    <3> QED BY <1>1, <1>2, <3>1, <3>2, <3>3 DEF Typed, Tasks, diffVars
  <2> QED BY <2>1, <2>2, <2>3
<1>6. Typed'
  BY <1>1, <1>2, <1>4, <1>5 DEF Typed
<1>7. Tasks'
  BY <1>5 DEF Tasks
<1>8. Stepping'
  <2> SUFFICES ASSUME open', NEW p \in Pads \ {0}
               PROVE  Shows(raw', device'.pressure[p], pads'.pressures[p], p)
    BY DEF Stepping
  <2> DEFINE last == device.pressure[p]
             had == pads.pressures[p]
             new == pads'.pressures[p]
  <2>1. Shows(raw, last, had, p) /\ Brings(Head(raw), new, had, p)
    BY <1>1, <1>2, <1>5 DEF Stepping
  <2> HIDE DEF last, had, new
  <2>2. Shows(Tail(raw), last, new, p)
    BY <1>2, <1>3, <2>1, ShowsLess
  <2> QED BY <1>2, <2>2 DEF last, new
<1> QED BY <1>5, <1>6, <1>7, <1>8 DEF IInv

\* An event moves from the task to the channel: nothing changes on the way.
LEMMA SendKeeps ==
  ASSUME IInv, Send
  PROVE  IInv'
<1>1. Typed /\ Tasks /\ Agreed /\ Alternating /\ OnIsPressed(pads) /\ Stepping
  BY DEF IInv
<1>2. /\ diff = "sending" /\ out # <<>> /\ out' = Tail(out)
      /\ open => Len(events) < EventCap
      /\ events' = IF open THEN Append(events, Head(out)) ELSE events
      /\ UNCHANGED <<device, raw, taskVars, diffVars, open, client, reports>>
  BY DEF Send
<1>3. out \in Seq(Events) /\ events \in Seq(Events) /\ Len(events) <= EventCap
      /\ EventCap \in Nat
  BY <1>1, InputAssumption DEF Typed
<1>4. out' \in Seq(Events) /\ events' \in Seq(Events) /\ Len(events') <= EventCap
  <2>1. Head(out) \in Events /\ Tail(out) \in Seq(Events)
    BY <1>2, <1>3
  <2>2. CASE open
    <3>1. events' = Append(events, Head(out)) /\ Len(events) < EventCap
      BY <1>2, <2>2
    <3>2. events' \in Seq(Events) /\ Len(events') = Len(events) + 1 /\ Len(events) \in Nat
      BY <1>3, <2>1, <3>1
    <3> QED BY <1>2, <1>3, <2>1, <3>1, <3>2
  <2>3. CASE ~open
    BY <1>2, <1>3, <2>1, <2>3
  <2> QED BY <2>2, <2>3
<1>5. open => Coming' = Coming
  <2> SUFFICES ASSUME open PROVE Append(events, Head(out)) \o Tail(out) = events \o out
    BY <1>2 DEF Coming
  <2> QED BY <1>2, <1>3
<1>6. Typed'
  BY <1>1, <1>2, <1>4 DEF Typed, taskVars, diffVars
<1>7. Tasks'
  BY <1>1, <1>2 DEF Tasks, taskVars
<1>8. Agreed'
  BY <1>1, <1>2, <1>5 DEF Agreed, Agrees, diffVars
<1>9. Alternating'
  BY <1>1, <1>2, <1>5 DEF Alternating, Alternates, diffVars
<1>10. OnIsPressed(pads)' /\ Stepping'
  BY <1>1, <1>2 DEF OnIsPressed, Stepping, diffVars
<1> QED BY <1>6, <1>7, <1>8, <1>9, <1>10 DEF IInv

\* The task ends only when there is no client to agree with.
LEMMA FinishKeeps ==
  ASSUME IInv, Finish
  PROVE  IInv'
<1>1. Typed /\ Tasks /\ Stepping
  BY DEF IInv
<1>2. /\ diff = "sending" /\ out = <<>>
      /\ diff' = IF open THEN "receiving" ELSE "ended"
      /\ raw' = IF open THEN raw ELSE <<>>
      /\ UNCHANGED <<device, reader, diffVars, out, events, open, client, reports>>
  BY DEF Finish
<1>3. raw' \in Seq(Reports) /\ Len(raw') <= RawCap
  <2>1. <<>> \in Seq(Reports) /\ Len(<<>>) = 0 /\ RawCap \in Nat
    BY InputAssumption
  <2>2. CASE open
    BY <1>1, <1>2, <2>2 DEF Typed
  <2>3. CASE ~open
    BY <1>2, <2>1, <2>3
  <2> QED BY <2>2, <2>3
<1>4. Typed'
  BY <1>1, <1>2, <1>3 DEF Typed, diffVars
<1>5. Tasks'
  BY <1>1, <1>2 DEF Tasks, Typed
<1>6. Stepping'
  BY <1>1, <1>2 DEF Stepping, diffVars
<1>7. Agreed' /\ Alternating' /\ OnIsPressed(pads)'
  BY <1>2, SameEvents
<1> QED BY <1>4, <1>5, <1>6, <1>7 DEF IInv

\* What the client makes of the first event, and then of the rest, is what it
\* will have made of all.
LEMMA TakeEventAfter ==
  ASSUME IInv, TakeEvent
  PROVE  After(client', Coming') = After(client, Coming)
<1> DEFINE e == Head(events)
           z == Tail(events) \o out
           d == Apply(client, e)
<1>1. /\ client \in Pictures /\ events \in Seq(Events) /\ out \in Seq(Events)
      /\ events # <<>> /\ client' = d /\ Coming' = z
  BY DEF IInv, Typed, TakeEvent, Coming
<1>2. e \in Events /\ z \in Seq(Events) /\ Coming = <<e>> \o z
  <2>1. e \in Events /\ Tail(events) \in Seq(Events) /\ events = <<e>> \o Tail(events)
    BY <1>1
  <2> QED BY <1>1, <2>1 DEF Coming
<1> HIDE DEF z, e
<1> DEFINE h == <<e>>
<1>3. h \in Seq(Events) /\ After(client, h) = d
  BY <1>1, <1>2, AfterFew
<1> HIDE DEF h
<1>4. After(client, h \o z) = After(After(client, h), z)
  BY <1>1, <1>2, <1>3, AfterConcat
<1> QED BY <1>1, <1>2, <1>3, <1>4 DEF h

\* So an event that is taken changes nothing of what is to come.
LEMMA TakeEventKeeps ==
  ASSUME IInv, TakeEvent
  PROVE  IInv'
<1> DEFINE e == Head(events)
           z == Tail(events) \o out
           d == Apply(client, e)
<1>1. Typed /\ Tasks /\ Agreed /\ Alternating /\ OnIsPressed(pads) /\ Stepping
  BY DEF IInv
<1>2. /\ open /\ events # <<>> /\ client' = d /\ events' = Tail(events)
      /\ UNCHANGED <<device, raw, taskVars, diffVars, out, open, reports>>
  BY DEF TakeEvent
<1>3. /\ client \in Pictures /\ events \in Seq(Events) /\ out \in Seq(Events)
      /\ Len(events) <= EventCap /\ EventCap \in Nat
  BY <1>1, InputAssumption DEF Typed
<1>4. /\ e \in Events /\ Tail(events) \in Seq(Events) /\ Len(Tail(events)) <= EventCap
      /\ z \in Seq(Events) /\ Coming \in Seq(Events) /\ Coming # <<>>
      /\ Head(Coming) = e /\ Tail(Coming) = z /\ Coming = <<e>> \o z
  <2>1. e \in Events /\ Tail(events) \in Seq(Events) /\ Len(Tail(events)) = Len(events) - 1
        /\ Len(events) \in Nat /\ events = <<e>> \o Tail(events)
    BY <1>2, <1>3
  <2>2. Len(Tail(events)) <= EventCap
    BY <1>3, <2>1
  <2>3. Coming = events \o out
    BY DEF Coming
  <2>4. z \in Seq(Events) /\ events \o out \in Seq(Events) /\ events \o out # <<>>
        /\ Head(events \o out) = e /\ Tail(events \o out) = z
    BY <1>2, <1>3
  <2>5. events \o out = <<e>> \o z
    BY <1>3, <2>1, <2>4
  <2> QED BY <2>1, <2>2, <2>3, <2>4, <2>5
<1>5. d \in Pictures /\ Coming' = z
  BY <1>2, <1>3, <1>4, ApplyIn DEF Coming
<1>6. Typed'
  BY <1>1, <1>2, <1>4, <1>5 DEF Typed, taskVars, diffVars
<1>7. Tasks'
  BY <1>1, <1>2 DEF Tasks, taskVars
<1> HIDE DEF z, e
<1>8. After(client, Coming) = After(d, z)
  BY <1>2, <1>5, TakeEventAfter
<1>9. Agreed'
  <2> SUFFICES Agrees(After(client, Coming)', controls', pads')
    BY DEF Agreed, Agrees
  <2>1. Agrees(After(client, Coming), controls, pads)
    BY <1>1, <1>2 DEF Agreed
  <2> HIDE DEF d
  <2> QED BY <1>2, <1>5, <1>8, <2>1 DEF diffVars
<1>10. Alternating'
  <2> SUFFICES ASSUME ~pads'.raw_stream PROVE Alternates(client', Coming')
    BY DEF Alternating, Alternates
  <2> DEFINE s == Coming
  <2>1. Alternates(client, s) /\ s \in Seq(Events) /\ s # <<>> /\ Head(s) = e /\ Tail(s) = z
    BY <1>1, <1>2, <1>4 DEF Alternating, diffVars
  <2> HIDE DEF s
  <2>2. Alternates(Apply(client, Head(s)), Tail(s))
    BY <1>3, <2>1, AlternatesTail
  <2> QED BY <1>2, <1>5, <2>1, <2>2
<1>11. OnIsPressed(pads)' /\ Stepping'
  BY <1>1, <1>2 DEF OnIsPressed, Stepping, diffVars
<1> QED BY <1>6, <1>7, <1>9, <1>10, <1>11 DEF IInv

\* Nothing is promised to a client that is gone.
LEMMA CloseKeeps ==
  ASSUME IInv, Close
  PROVE  IInv'
<1>1. Typed /\ Tasks /\ OnIsPressed(pads)
  BY DEF IInv
<1>2. /\ open' = FALSE /\ events' = <<>>
      /\ UNCHANGED <<device, raw, taskVars, diffVars, out, client, reports>>
  BY DEF Close
<1>3. events' \in Seq(Events) /\ Len(events') <= EventCap
  <2>1. <<>> \in Seq(Events) /\ Len(<<>>) = 0 /\ EventCap \in Nat
    BY InputAssumption
  <2> QED BY <1>2, <2>1
<1>4. Typed'
  BY <1>1, <1>2, <1>3 DEF Typed, taskVars, diffVars
<1>5. Tasks' /\ OnIsPressed(pads)' /\ Agreed' /\ Alternating' /\ Stepping'
  BY <1>1, <1>2 DEF Tasks, OnIsPressed, Agreed, Alternating, Stepping, taskVars, diffVars
<1> QED BY <1>4, <1>5 DEF IInv

\* Nothing changes.
LEMMA StutterKeeps ==
  ASSUME IInv, UNCHANGED vars
  PROVE  IInv'
<1>1. Agreed' /\ Alternating' /\ OnIsPressed(pads)'
  BY SameEvents DEF vars
<1>2. Typed' /\ Tasks' /\ Stepping'
  BY DEF IInv, Typed, Tasks, Stepping, vars, taskVars, diffVars
<1> QED BY <1>1, <1>2 DEF IInv

\* The invariant holds in every reachable state.
THEOREM InputInvariant == Spec => []IInv
<1>1. Init => IInv
  BY InitInv
<1>2. IInv /\ [Next]_vars => IInv'
  <2> SUFFICES ASSUME IInv, [Next]_vars PROVE IInv'
    OBVIOUS
  <2> QED BY ReportControlsKeeps, ReportPadsKeeps, ReportOtherKeeps, TakeReportKeeps,
             SendKeeps, FinishKeeps, TakeEventKeeps, CloseKeeps, StutterKeeps DEF Next
<1> QED BY <1>1, <1>2, PTL DEF Spec

----------------------------------------------------------------------------
\* What follows from the invariant

\* Every value is of its type, the channels are never over their capacities,
\* and every event is of a pad that there is.
THEOREM TypeCorrect == Spec => []TypeOK
<1>1. IInv => TypeOK
  <2> SUFFICES ASSUME IInv PROVE TypeOK
    OBVIOUS
  <2>1. Typed
    BY DEF IInv
  <2>2. ASSUME NEW e \in Range(events \o out), e.type = "pad"
        PROVE  e.pad \in Pads /\ e.phase \in Phases
    <3> DEFINE s == events \o out
    <3>1. s \in Seq(Events)
      BY <2>1 DEF Typed
    <3> HIDE DEF s
    <3>2. \A i \in DOMAIN s : s[i] \in Events
      BY <3>1
    <3>3. e \in Events
      BY <3>2 DEF Range, s
    <3>4. e \in PadEvent
      BY <2>2, <3>3 DEF Events, ControlEvent
    <3> QED BY <3>4 DEF PadEvent
  <2>3. client.encoder \in Int /\ client.held \subseteq Pads
    BY <2>1 DEF Typed, Pictures
  <2> QED BY <2>1, <2>2, <2>3 DEF TypeOK, Typed, PadStates
<1> QED BY <1>1, InputInvariant, PTL

\* A client that holds the stream will have the buttons, strip, knob and pads
\* that the diff task has, and the encoder's position up to the wrap.
THEOREM ClientAgrees == Spec => []ClientWillAgree
<1>1. IInv => ClientWillAgree
  BY DEF IInv, Agreed, Agrees, After, ClientWillAgree
<1> QED BY <1>1, InputInvariant, PTL

\* The client gets an attack of no pad that it holds, and a pressure or a
\* release of none that it does not hold.
THEOREM PhasesDoAlternate == Spec => []PhasesAlternate
<1>1. IInv => PhasesAlternate
  BY DEF IInv, Alternating, Alternates, After, PhasesAlternate
<1> QED BY <1>1, InputInvariant, PTL

\* A pad other than 0 that the client holds, with nothing on its way, was last
\* reported above the threshold of release.
THEOREM NoPadIsLeftHanging == Spec => []NoPadHangs
<1>1. IInv => NoPadHangs
  <2> SUFFICES ASSUME IInv, open, raw = <<>>, Coming = <<>>,
                      NEW p \in (Pads \ {0}) \cap client.held
               PROVE  device.pressure[p] > pad_off_threshold
    BY DEF NoPadHangs, HeldIsPressed
  <2>1. Typed /\ Agreed /\ OnIsPressed(pads) /\ Stepping
    BY DEF IInv
  <2>2. client \in Pictures
    BY <2>1 DEF Typed
  <2>3. After(client, Coming) = client
    BY <2>2, AfterFew
  <2>4. client.held = pads.on
    BY <2>1, <2>3 DEF Agreed, Agrees
  <2>5. Shows(raw, device.pressure[p], pads.pressures[p], p)
    BY <2>1 DEF Stepping
  <2>6. DOMAIN raw = {}
    OBVIOUS
  <2>7. device.pressure[p] = pads.pressures[p]
    BY <2>5, <2>6 DEF Shows
  <2> QED BY <2>1, <2>4, <2>7 DEF OnIsPressed
<1> QED BY <1>1, InputInvariant, PTL
----------------------------------------------------------------------------
\* The rotation of the encoder

\* The sum of deltas x after report r, of controls or not.
Turn(x, r) ==
  IF r.id = "controls"
  THEN x + EncoderDelta(x % ENCODER_WRAP, r.controls.encoder)
  ELSE x

Sums == Int
Turning == [x \in Sums \X Reports |-> Turn(x[1], x[2])]

\* What a sum of deltas x comes to when reports q are told.
Unwound(x, q) == Folded(Sums, Turning, x, q)

\* The sum that the client will have of the reports on their way is how far the
\* encoder has turned since the first one.
Rotating ==
  open =>
    LET then == Unwound(After(client, Coming).encoder, raw) IN
    /\ device.first = {} => then = 0
    /\ \A first \in device.first :
         /\ then - EncoderDelta(0, first % ENCODER_WRAP) = device.controls.encoder - first
         /\ then % ENCODER_WRAP = device.controls.encoder % ENCODER_WRAP

\* Zero is its own remainder.
LEMMA ZeroWraps == 0 % ENCODER_WRAP = 0
<1>1. Divided(0, ENCODER_WRAP, 0, 0) /\ ENCODER_WRAP \in Nat /\ ENCODER_WRAP > 0
  BY InputAssumption DEF Divided
<1> QED BY <1>1, Remainder

\* Less than half a revolution between two reports, in either direction, is
\* the delta: the wrap does not matter.
LEMMA TurnIs ==
  ASSUME NEW x \in Int, NEW t \in {-1, 0, 1}
  PROVE  LET y == (x + t) % ENCODER_WRAP IN
         /\ y \in 0..ENCODER_WRAP-1
         /\ EncoderDelta(x % ENCODER_WRAP, y) = t
<1> DEFINE W == ENCODER_WRAP
           r == x % W
           z == IF r + t = W THEN 0 ELSE IF r + t = -1 THEN W - 1 ELSE r + t
           d == z - r
           k == IF t = -1 THEN W - 1 ELSE t
<1>1. W \in Nat /\ W > 3
  BY InputAssumption
<1>2. 0 % W = 0
  BY ZeroWraps
<1> HIDE DEF W
<1>3. r \in 0..W-1
  BY <1>1
<1>4. z \in 0..W-1 /\ r + t \in {z, z + W, z - W}
  BY <1>1, <1>3
<1>5. t \in Int /\ W > 0
  BY <1>1
<1>6. (x + t) % W = z
  <2> HIDE DEF z
  <2> QED BY <1>1, <1>4, <1>5, AddAfter
<1>7. k \in 0..W-1 /\ d \in Int /\ (0 % W) + d \in {k, k + W, k - W}
  BY <1>1, <1>2, <1>3, <1>4
<1> HIDE DEF r, z
<1>8. (0 + d) % W = k
  <2> HIDE DEF d, k
  <2> QED BY <1>1, <1>5, <1>7, AddAfter
<1>9. d % W = k
  <2> HIDE DEF k
  <2> QED BY <1>7, <1>8
<1>10. (IF k > W \div 2 THEN k - W ELSE k) = t
  BY <1>1
<1> HIDE DEF k
<1>11. EncoderDelta(r, z) = t
  BY <1>9, <1>10 DEF EncoderDelta, W, d
<1> QED BY <1>4, <1>6, <1>11 DEF W, r

\* A sum of deltas is a number.
LEMMA TurningSteps == Steps(Turning, Sums, Reports)
<1> SUFFICES ASSUME NEW x \in Int, NEW r \in Reports
             PROVE  Turn(x, r) \in Int
  BY DEF Steps, Turning, Sums
<1>1. CASE r.id = "controls"
  <2>1. r.controls.encoder \in 0..ENCODER_WRAP-1
    BY <1>1 DEF Reports, Controls
  <2>2. x % ENCODER_WRAP \in 0..ENCODER_WRAP-1
    BY InputAssumption
  <2>3. EncoderDelta(x % ENCODER_WRAP, r.controls.encoder) \in Int
    BY <2>1, <2>2, DeltaIs
  <2> QED BY <1>1, <2>3 DEF Turn
<1>2. CASE r.id # "controls"
  BY <1>2 DEF Turn
<1> QED BY <1>1, <1>2

\* No report, one more, and the first.
LEMMA UnwoundIs ==
  ASSUME NEW x \in Int, NEW q \in Seq(Reports)
  PROVE  /\ Unwound(x, <<>>) = x
         /\ Unwound(x, q) \in Int
         /\ \A r \in Reports : Unwound(x, Append(q, r)) = Turn(Unwound(x, q), r)
         /\ q # <<>> => Unwound(x, q) = Unwound(Turn(x, Head(q)), Tail(q))
<1>0. x \in Sums
  BY DEF Sums
<1>1. ASSUME NEW c \in Sums
      PROVE  /\ Unwound(c, <<>>) = c
             /\ \A r \in Reports : Unwound(c, <<r>>) = Turn(c, r)
  <2>1. SubSeq(q, 1, 0) = <<>>
    OBVIOUS
  <2>2. Unwound(c, SubSeq(q, 1, 0)) = c
    BY TurningSteps, FoldedNext DEF Unwound
  <2>3. ASSUME NEW r \in Reports
        PROVE  Unwound(c, <<r>>) = Turn(c, r)
    <3> DEFINE s == <<r>>
    <3>1. s \in Seq(Reports) /\ Len(s) = 1 /\ s[1] = r
      OBVIOUS
    <3> HIDE DEF s
    <3>2. Folded(Sums, Turning, c, s) = Step(Turning, c, s, 1)
      BY <3>1, TurningSteps, FoldedOne
    <3>3. Unwound(c, s) = Turning[<<c, r>>]
      BY <3>1, <3>2 DEF Unwound, Step
    <3> QED BY <3>3 DEF s, Turning
  <2> QED BY <2>1, <2>2, <2>3
<1>2. \A i \in 0..Len(q) : Folded(Sums, Turning, x, SubSeq(q, 1, i)) \in Sums
  BY <1>0, TurningSteps, FoldedNext
<1>3. Unwound(x, q) \in Sums
  <2>1. Len(q) \in 0..Len(q) /\ SubSeq(q, 1, Len(q)) = q
    OBVIOUS
  <2> QED BY <1>2, <2>1 DEF Unwound
<1>4. ASSUME NEW r \in Reports
      PROVE  Unwound(x, Append(q, r)) = Turn(Unwound(x, q), r)
  <2> DEFINE s == <<r>>
  <2>1. s \in Seq(Reports) /\ Append(q, r) = q \o s
    OBVIOUS
  <2>2. \A c \in Sums : Unwound(c, s) = Turn(c, r)
    BY <1>1
  <2> HIDE DEF s
  <2>3. Unwound(x, q \o s) = Unwound(Unwound(x, q), s)
    BY <1>0, <2>1, TurningSteps, FoldedConcat DEF Unwound
  <2> QED BY <1>3, <2>1, <2>2, <2>3
<1>5. ASSUME q # <<>>
      PROVE  Unwound(x, q) = Unwound(Turn(x, Head(q)), Tail(q))
  <2> DEFINE s == <<Head(q)>>
             z == Tail(q)
  <2>1. s \in Seq(Reports) /\ z \in Seq(Reports) /\ q = s \o z /\ Head(q) \in Reports
    BY <1>5
  <2>2. Unwound(x, s) = Turn(x, Head(q))
    BY <1>0, <1>1, <2>1
  <2> HIDE DEF s, z
  <2>3. Unwound(x, s \o z) = Unwound(Unwound(x, s), z)
    BY <1>0, <2>1, TurningSteps, FoldedConcat DEF Unwound
  <2> QED BY <2>1, <2>2, <2>3 DEF z
<1>6. Unwound(x, q) \in Int
  BY <1>3 DEF Sums
<1> QED BY <1>0, <1>1, <1>4, <1>5, <1>6

\* The sum that a client with the stream will have of the events on their way.
LEMMA SumIn ==
  ASSUME IInv, open
  PROVE  /\ After(client, Coming).encoder \in Int
         /\ After(client, Coming).encoder % ENCODER_WRAP = controls.encoder
<1>1. client \in Pictures /\ Coming \in Seq(Events)
  BY DEF IInv, Typed, Coming
<1>2. After(client, Coming) \in Pictures
  BY <1>1, AfterAll
<1> QED BY <1>2 DEF IInv, Agreed, Agrees, Pictures

\* A report of controls turns the sum as the device turned the encoder.
LEMMA ReportControlsTurns ==
  ASSUME IInv, Rotating, ReportControls
  PROVE  Rotating'
<1>1. PICK pressed \in SUBSET Buttons, turn \in {-1, 0, 1},
           strip \in Positions \cup {None}, knob \in Knob :
        LET now == [buttons |-> pressed, encoder |-> device.controls.encoder + turn,
                    strip |-> strip, knob |-> knob]
        IN  /\ Report([id |-> "controls",
                       controls |-> [now EXCEPT !.encoder = @ % ENCODER_WRAP]])
            /\ device' = [device EXCEPT !.controls = now,
                            !.first = IF @ = {} THEN {now.encoder} ELSE @]
  BY DEF ReportControls
<1> SUFFICES ASSUME open'
             PROVE  LET then == Unwound(After(client', Coming').encoder, raw') IN
                    /\ device'.first = {} => then = 0
                    /\ \A first \in device'.first :
                         /\ then - EncoderDelta(0, first % ENCODER_WRAP)
                              = device'.controls.encoder - first
                         /\ then % ENCODER_WRAP = device'.controls.encoder % ENCODER_WRAP
  BY DEF Rotating, After
<1> DEFINE was == device.controls.encoder
           at == was + turn
           told == [buttons |-> pressed, encoder |-> at % ENCODER_WRAP,
                    strip |-> strip, knob |-> knob]
           r == [id |-> "controls", controls |-> told]
           sum == After(client, Coming).encoder
           then == Unwound(sum, raw)
           next == Unwound(sum, Append(raw, r))
<1>2. device \in [controls : Touched, first : SUBSET Int, pressure : [Pads -> Pressures]]
      /\ raw \in Seq(Reports)
  BY DEF IInv, Typed
<1>3. was \in Int /\ at \in Int
  BY <1>2 DEF Touched
<1>4. /\ Report(r) /\ device'.controls.encoder = at
      /\ device'.first = IF device.first = {} THEN {at} ELSE device.first
  BY <1>1, <1>2
<1>5. open /\ raw' = Append(raw, r) /\ client' = client /\ Coming' = Coming
  BY <1>4 DEF IInv, Tasks, Report, Coming
<1>6. at % ENCODER_WRAP \in 0..ENCODER_WRAP-1
  BY <1>3, InputAssumption
<1>7. r \in Reports /\ r.id = "controls" /\ r.controls.encoder = at % ENCODER_WRAP
  <2>1. told \in Controls
    BY <1>6 DEF Controls
  <2> QED BY <2>1 DEF Reports
<1> HIDE DEF r, told
<1>8. sum \in Int
  BY <1>5, SumIn
<1>9. /\ device.first = {} => then = 0
      /\ \A first \in device.first :
           /\ then - EncoderDelta(0, first % ENCODER_WRAP) = was - first
           /\ then % ENCODER_WRAP = was % ENCODER_WRAP
  BY <1>5 DEF Rotating
<1> HIDE DEF sum, was
<1>10. then \in Int /\ next = then + EncoderDelta(then % ENCODER_WRAP, at % ENCODER_WRAP)
  <2>1. then \in Int /\ next = Turn(then, r)
    BY <1>2, <1>7, <1>8, UnwoundIs
  <2> HIDE DEF then, next, at
  <2>2. Turn(then, r) = then + EncoderDelta(then % ENCODER_WRAP, at % ENCODER_WRAP)
    BY <1>7 DEF Turn
  <2> QED BY <2>1, <2>2
<1> HIDE DEF then, next
<1>11. CASE device.first = {}
  <2> DEFINE delta == EncoderDelta(0, at % ENCODER_WRAP)
             y == at % ENCODER_WRAP
  <2>1. next = delta
    <3>1. delta \in Int
      <4>1. 0 \in 0..ENCODER_WRAP-1
        BY InputAssumption
      <4> QED BY <1>6, <4>1, DeltaIs
    <3>2. then = 0 /\ 0 % ENCODER_WRAP = 0
      BY <1>9, <1>11, ZeroWraps
    <3>3. next = 0 + delta
      BY <1>10, <3>2
    <3> HIDE DEF delta
    <3> QED BY <3>1, <3>3
  <2>2. next % ENCODER_WRAP = y
    <3>1. ENCODER_WRAP \in Nat /\ ENCODER_WRAP > 0 /\ 0 \in 0..ENCODER_WRAP-1
      BY InputAssumption
    <3>2. delta \in Int /\ 0 + delta \in {y, y + ENCODER_WRAP, y - ENCODER_WRAP}
      BY <1>6, <3>1, DeltaIs
    <3> HIDE DEF delta
    <3>3. y \in 0..ENCODER_WRAP-1
      BY <1>6
    <3> HIDE DEF y
    <3>4. (0 % ENCODER_WRAP) + delta \in {y, y + ENCODER_WRAP, y - ENCODER_WRAP}
      BY <3>2, ZeroWraps
    <3>5. (0 + delta) % ENCODER_WRAP = y /\ 0 + delta = delta
      BY <3>1, <3>2, <3>3, <3>4, AddAfter
    <3> QED BY <2>1, <3>5
  <2>3. next \in Int
    BY <1>6, <2>1, InputAssumption, DeltaIs
  <2> HIDE DEF at
  <2>4. next - EncoderDelta(0, at % ENCODER_WRAP) = at - at
    BY <1>3, <2>1, <2>3
  <2> QED BY <1>4, <1>5, <1>11, <2>2, <2>4 DEF next, sum
<1>12. CASE device.first # {}
  <2> SUFFICES ASSUME NEW first \in device.first
               PROVE  /\ next - EncoderDelta(0, first % ENCODER_WRAP) = at - first
                      /\ next % ENCODER_WRAP = at % ENCODER_WRAP
    BY <1>4, <1>5, <1>12 DEF next, sum
  <2> DEFINE zero == EncoderDelta(0, first % ENCODER_WRAP)
             y == at % ENCODER_WRAP
             x == was % ENCODER_WRAP
  <2>1. first \in Int /\ then - zero = was - first /\ then % ENCODER_WRAP = x
    BY <1>2, <1>9
  <2>2. zero \in Int
    <3>1. 0 \in 0..ENCODER_WRAP-1 /\ first % ENCODER_WRAP \in 0..ENCODER_WRAP-1
      BY <2>1, InputAssumption
    <3> QED BY <3>1, DeltaIs
  <2>3. EncoderDelta(x, y) = turn
    BY <1>3, TurnIs
  <2>4. next = then + turn
    BY <1>10, <2>1, <2>3
  <2>5. next - zero = at - first
    <3> HIDE DEF zero
    <3> QED BY <1>3, <1>10, <2>1, <2>2, <2>4
  <2>6. next % ENCODER_WRAP = y
    <3>1. ENCODER_WRAP \in Nat /\ ENCODER_WRAP > 0 /\ turn \in Int
          /\ x \in 0..ENCODER_WRAP-1 /\ y \in 0..ENCODER_WRAP-1
      BY <1>3, InputAssumption
    <3>2. x + turn \in {y, y + ENCODER_WRAP, y - ENCODER_WRAP}
      <4>1. x + EncoderDelta(x, y) \in {y, y + ENCODER_WRAP, y - ENCODER_WRAP}
        BY <3>1, DeltaIs
      <4> QED BY <2>3, <4>1
    <3> HIDE DEF x, y
    <3>3. (then % ENCODER_WRAP) + turn \in {y, y + ENCODER_WRAP, y - ENCODER_WRAP}
      BY <2>1, <3>2
    <3>4. (then + turn) % ENCODER_WRAP = y
      BY <1>10, <3>1, <3>3, AddAfter
    <3> QED BY <2>4, <3>4
  <2> QED BY <2>5, <2>6
<1> QED BY <1>11, <1>12

\* A report without controls turns nothing.
LEMMA ReportTurnsNothing ==
  ASSUME IInv, Rotating, NEW r \in Reports, r.id # "controls", Report(r),
         device'.controls = device.controls, device'.first = device.first
  PROVE  Rotating'
<1> SUFFICES ASSUME open'
             PROVE  Unwound(After(client', Coming').encoder, raw')
                      = Unwound(After(client, Coming).encoder, raw)
  BY DEF Rotating, Report, After
<1>1. open /\ raw' = Append(raw, r) /\ client' = client /\ Coming' = Coming
  BY DEF IInv, Tasks, Report, Coming
<1> DEFINE sum == After(client, Coming).encoder
<1>2. sum \in Int /\ raw \in Seq(Reports)
  BY <1>1, SumIn DEF IInv, Typed
<1>3. Unwound(sum, Append(raw, r)) = Unwound(sum, raw)
  <2> HIDE DEF sum
  <2> QED BY <1>2, UnwoundIs DEF Turn
<1> QED BY <1>1, <1>3

\* The sum after a report that is taken is what it was to be.
LEMMA TakeReportTurns ==
  ASSUME IInv, Rotating, TakeReport
  PROVE  Rotating'
<1> SUFFICES ASSUME open'
             PROVE  Unwound(After(client', Coming').encoder, raw')
                      = Unwound(After(client, Coming).encoder, raw)
  BY DEF Rotating, TakeReport, After
<1> DEFINE sum == After(client, Coming).encoder
           next == After(client', Coming').encoder
<1>1. open /\ raw # <<>> /\ raw' = Tail(raw)
  BY DEF TakeReport
<1>2. /\ raw \in Seq(Reports) /\ sum \in Int
      /\ sum % ENCODER_WRAP = controls.encoder
  BY <1>1, SumIn DEF IInv, Typed
<1>3. next = Turn(sum, Head(raw))
  <2>1. CASE Head(raw).id = "controls"
    BY <1>1, <1>2, <2>1, TakeControlsKeeps DEF Turn
  <2>2. CASE Head(raw).id = "pads"
    BY <1>1, <2>2, TakePadsKeeps DEF Turn
  <2>3. CASE Head(raw).id \notin {"controls", "pads"}
    <3>1. client' = client /\ Coming' = Coming
      BY <2>3 DEF TakeReport, Coming
    <3> QED BY <2>3, <3>1 DEF Turn
  <2> QED BY <2>1, <2>2, <2>3
<1> HIDE DEF sum, next
<1>4. Unwound(sum, raw) = Unwound(next, Tail(raw))
  BY <1>1, <1>2, <1>3, UnwoundIs
<1> QED BY <1>1, <1>4 DEF sum, next

\* In every reachable state.
THEOREM RotationInvariant == Spec => []Rotating
<1>1. Init => Rotating
  <2> SUFFICES ASSUME Init PROVE Rotating
    OBVIOUS
  <2>1. IInv
    BY InitInv
  <2>2. client.encoder = 0 /\ Coming = <<>> /\ raw = <<>> /\ device.first = {}
        /\ client \in Pictures
    BY <2>1 DEF Init, Coming, IInv, Typed
  <2>3. After(client, Coming).encoder = 0
    BY <2>2, AfterFew
  <2>4. Unwound(0, <<>>) = 0
    <3>1. raw \in Seq(Reports) /\ 0 \in Int
      BY <2>1 DEF IInv, Typed
    <3> QED BY <3>1, UnwoundIs
  <2> QED BY <2>2, <2>3, <2>4 DEF Rotating
<1>2. IInv /\ IInv' /\ Rotating /\ [Next]_vars => Rotating'
  <2> SUFFICES ASSUME IInv, IInv', Rotating, [Next]_vars PROVE Rotating'
    OBVIOUS
  <2>1. CASE ReportControls
    BY <2>1, ReportControlsTurns
  <2>2. CASE ReportPads
    <3>1. PICK slots \in PadReports :
            /\ Report([id |-> "pads", slots |-> slots])
            /\ device' = [device EXCEPT !.pressure = FoldLeft(Press, @, slots)]
      BY <2>2 DEF ReportPads
    <3> DEFINE r == [id |-> "pads", slots |-> slots]
    <3>2. r \in Reports /\ r.id # "controls"
      BY InputAssumption DEF Reports, Slots
    <3>3. device'.controls = device.controls /\ device'.first = device.first
      BY <3>1 DEF IInv, Typed
    <3>4. Report(r)
      BY <3>1
    <3> HIDE DEF r
    <3> QED BY <3>2, <3>3, <3>4, ReportTurnsNothing
  <2>3. CASE ReportOther
    <3> DEFINE r == [id |-> "other"]
    <3>1. r \in Reports /\ r.id # "controls" /\ Report(r) /\ device' = device
      BY <2>3 DEF ReportOther, Reports
    <3> HIDE DEF r
    <3> QED BY <3>1, ReportTurnsNothing
  <2>4. CASE TakeReport
    BY <2>4, TakeReportTurns
  <2>5. CASE Send
    <3>1. open => Coming' = Coming
      <4> SUFFICES ASSUME open PROVE Append(events, Head(out)) \o Tail(out) = events \o out
        BY <2>5 DEF Send, Coming
      <4>1. events \in Seq(Events) /\ out \in Seq(Events) /\ out # <<>>
        BY <2>5 DEF Send, IInv, Typed
      <4> QED BY <4>1
    <3> QED BY <2>5, <3>1 DEF Send, Rotating
  <2>6. CASE Finish
    <3>1. Coming' = Coming
      BY <2>6 DEF Finish, Coming
    <3> QED BY <2>6, <3>1 DEF Finish, Rotating
  <2>7. CASE TakeEvent
    <3>1. After(client', Coming') = After(client, Coming)
      BY <2>7, TakeEventAfter
    <3> QED BY <2>7, <3>1 DEF TakeEvent, Rotating
  <2>8. CASE Close
    BY <2>8 DEF Close, Rotating
  <2>9. CASE UNCHANGED vars
    <3>1. Coming' = Coming
      BY <2>9 DEF vars, Coming
    <3> QED BY <2>9, <3>1 DEF vars, Rotating
  <2> QED BY <2>1, <2>2, <2>3, <2>4, <2>5, <2>6, <2>7, <2>8, <2>9 DEF Next
<1> QED BY <1>1, <1>2, InputInvariant, PTL DEF Spec

\* When nothing is on its way, the deltas that the client got after the first
\* report add up to how far the encoder has turned since.
THEOREM TurnsAddUp == Spec => []EncoderTurnsAddUp
<1>1. IInv /\ Rotating => EncoderTurnsAddUp
  <2> SUFFICES ASSUME IInv, Rotating, open, raw = <<>>, Coming = <<>>,
                      NEW first \in device.first
               PROVE  client.encoder - EncoderDelta(0, first % ENCODER_WRAP)
                        = device.controls.encoder - first
    BY DEF EncoderTurnsAddUp
  <2>1. client \in Pictures /\ client.encoder \in Int
    BY DEF IInv, Typed, Pictures
  <2>2. After(client, Coming) = client
    BY <2>1, AfterFew
  <2>3. Unwound(client.encoder, raw) = client.encoder
    <3>1. <<>> \in Seq(Reports)
      OBVIOUS
    <3> QED BY <2>1, <3>1, UnwoundIs
  <2> QED BY <2>2, <2>3 DEF Rotating
<1> QED BY <1>1, InputInvariant, RotationInvariant, PTL
=============================================================================
