--------------------------- MODULE Display_proofs ---------------------------
(***************************************************************************)
(* Proofs about the display: DisplayPipeline, for any set of tiles and any *)
(* number of paintings, and FrameEncoder, for any size of screen and of    *)
(* tile, any colors and any drawing operations.                            *)
(*                                                                         *)
(* What the recursive functions of FrameEncoder compute is proved by       *)
(* induction over sets of numbers (Climb, Descend), which rests on the     *)
(* library's theorem that < is well founded on the natural numbers.        *)
(***************************************************************************)
EXTENDS DisplayPipeline, FrameEncoder, WellFoundedInduction, TLAPS

----------------------------------------------------------------------------
\* DisplayPipeline

\* The initial state: nothing painted, sent or shown.
LEMMA InitIInv == Init => IInv
<1> SUFFICES ASSUME Init PROVE IInv
  OBVIOUS
<1>1. 0 \in Stamps
  BY MaxPaintsAssumption DEF Stamps
<1>2. TypeOK
  BY <1>1 DEF Init, TypeOK
<1>3. NoUpdateForgotten /\ Aged /\ PayloadCurrent /\ PayloadOnlyWhileWriting
  BY DEF Init, NoUpdateForgotten, Aged, PayloadCurrent, PayloadOnlyWhileWriting
<1> QED BY <1>2, <1>3 DEF IInv

\* Painting.  A painted tile is dirty afterwards, and painted content is newer
\* than anything in the payload or on the panel.
LEMMA ModifyIInv ==
  ASSUME IInv, NEW painted \in SUBSET Tiles, NEW marked \in SUBSET Tiles,
         Modify(painted, marked)
  PROVE  IInv'
<1> USE DEF IInv, Modify, Stamps
<1>1. paints + 1 \in Stamps
  BY MaxPaintsAssumption DEF TypeOK
<1>2. TypeOK'
  BY <1>1 DEF TypeOK
<1>3. \A t \in Tiles : fb'[t] # fb[t] => t \in dirty'
  BY DEF TypeOK
<1>4. NoUpdateForgotten'
  BY <1>3 DEF NoUpdateForgotten, TypeOK
<1>5. Aged'
  BY MaxPaintsAssumption DEF Aged, TypeOK
<1>6. PayloadCurrent'
  BY <1>3 DEF PayloadCurrent, TypeOK
<1>7. PayloadOnlyWhileWriting'
  BY DEF PayloadOnlyWhileWriting
<1> QED BY <1>2, <1>4, <1>5, <1>6, <1>7

\* Encoding.  The tiles that lose their dirty bit enter the payload with the
\* content they have.
LEMMA FlushIInv ==
  ASSUME IInv, Flush
  PROVE  IInv'
<1> USE DEF IInv, Flush, painterVars
<1>1. sending = {}
  BY DEF PayloadOnlyWhileWriting
<1>2. TypeOK'
  BY DEF TypeOK
<1>3. NoUpdateForgotten'
  BY <1>1 DEF NoUpdateForgotten, TypeOK
<1>4. Aged'
  BY <1>1, MaxPaintsAssumption DEF Aged, TypeOK, Stamps
<1>5. PayloadCurrent'
  BY <1>1 DEF PayloadCurrent, TypeOK
<1>6. PayloadOnlyWhileWriting'
  BY <1>1 DEF PayloadOnlyWhileWriting
<1> QED BY <1>2, <1>3, <1>4, <1>5, <1>6

\* A successful write: the payload's tiles that are not dirty again become
\* current on the panel.
LEMMA WriteOkIInv ==
  ASSUME IInv, WriteOk
  PROVE  IInv'
<1> USE DEF IInv, WriteOk, Written, painterVars
<1>1. TypeOK'
  BY DEF TypeOK
<1>2. NoUpdateForgotten'
  BY DEF NoUpdateForgotten, PayloadCurrent, TypeOK
<1>3. Aged'
  BY MaxPaintsAssumption DEF Aged, TypeOK, Stamps
<1>4. PayloadCurrent'
  BY DEF PayloadCurrent
<1>5. PayloadOnlyWhileWriting'
  BY DEF PayloadOnlyWhileWriting
<1> QED BY <1>1, <1>2, <1>3, <1>4, <1>5

\* A failed write: each tile of the payload is written or recorded as lost.
LEMMA WriteFailIInv ==
  ASSUME IInv, NEW written \in SUBSET Tiles, WriteFail(written)
  PROVE  IInv'
<1> USE DEF IInv, WriteFail, Written, Dropped, painterVars
<1>1. TypeOK'
  BY DEF TypeOK
<1>2. NoUpdateForgotten'
  BY DEF NoUpdateForgotten, PayloadCurrent, TypeOK
<1>3. Aged'
  BY MaxPaintsAssumption DEF Aged, TypeOK, Stamps
<1>4. PayloadCurrent'
  BY DEF PayloadCurrent
<1>5. PayloadOnlyWhileWriting'
  BY DEF PayloadOnlyWhileWriting
<1> QED BY <1>1, <1>2, <1>3, <1>4, <1>5

\* The steps that move only the scheduler.
LEMMA SchedulerIInv ==
  ASSUME IInv, Wake \/ BackoffElapsed \/ UNCHANGED vars
  PROVE  IInv'
BY DEF IInv, Wake, BackoffElapsed, vars, painterVars, TypeOK,
       NoUpdateForgotten, Aged, PayloadCurrent, PayloadOnlyWhileWriting

\* The inductive invariant holds in every reachable state.
THEOREM PipelineInvariant == Spec => []IInv
<1>1. IInv /\ [Next]_vars => IInv'
  BY ModifyIInv, FlushIInv, WriteOkIInv, WriteFailIInv, SchedulerIInv
     DEF Next, WriteReturns
<1> QED BY InitIInv, <1>1, PTL DEF Spec

\* Type correctness.
THEOREM TypeCorrect == Spec => []TypeOK
<1>1. IInv => TypeOK
  BY DEF IInv
<1> QED BY PipelineInvariant, <1>1, PTL

\* No painted tile is forgotten: whatever the panel does not show yet is
\* dirty, in the payload being written, or recorded as lost.
THEOREM NothingForgotten == Spec => []NoUpdateForgotten
<1>1. IInv => NoUpdateForgotten
  BY DEF IInv
<1> QED BY PipelineInvariant, <1>1, PTL

\* The pipeline implements the abstract display TileMirror.
THEOREM ImplementsMirror == Spec => MirrorsFramebuffer
<1>1. Init => Mirror!Init
  BY DEF Init, Mirror!Init
<1>2. IInv /\ IInv' /\ [Next]_vars => [Mirror!Next]_<<fb, panel>>
  <2> SUFFICES ASSUME IInv, IInv', [Next]_vars
               PROVE  [Mirror!Next]_<<fb, panel>>
    OBVIOUS
  <2> USE DEF Mirror!Next
  <2>1. fb' \in Mirror!Contents /\ panel' \in Mirror!Contents
    BY MaxPaintsAssumption DEF IInv, TypeOK, Stamps, Mirror!Contents
  <2>2. ASSUME NEW painted \in SUBSET Tiles, NEW marked \in SUBSET Tiles,
               Modify(painted, marked)
        PROVE  Mirror!Paint
    BY <2>1, <2>2, MaxPaintsAssumption
       DEF Modify, Mirror!Paint, IInv, Aged, TypeOK, Stamps
  <2>3. ASSUME NEW written \in SUBSET Tiles, written \subseteq sending,
               panel' = Written(written), UNCHANGED fb
        PROVE  Mirror!Refresh
    BY <2>1, <2>3, MaxPaintsAssumption
       DEF Written, Mirror!Refresh, IInv, Aged, TypeOK, Stamps
  <2>4. CASE WriteOk
    BY <2>3, <2>4 DEF WriteOk, painterVars, IInv, TypeOK
  <2>5. ASSUME NEW written \in SUBSET Tiles, WriteFail(written)
        PROVE  Mirror!Refresh
    BY <2>3, <2>5 DEF WriteFail, painterVars
  <2>6. CASE Wake \/ Flush \/ BackoffElapsed \/ UNCHANGED vars
    BY <2>6 DEF Wake, Flush, BackoffElapsed, vars, painterVars
  <2> QED BY <2>2, <2>4, <2>5, <2>6 DEF Next, WriteReturns
<1> QED
  BY <1>1, <1>2, PipelineInvariant, PTL DEF Spec, MirrorsFramebuffer, Mirror!Spec

----------------------------------------------------------------------------
\* FrameEncoder: induction

\* A set of numbers has a smallest.
LEMMA Smallest ==
  ASSUME NEW T \in SUBSET Nat, T # {}
  PROVE  \E m \in T : \A k \in T : m <= k
<1>1. PICK m \in T : \A k \in T : <<k, m>> \notin OpToRel(<, Nat)
  BY NatLessThanWellFounded, WFMin
<1>2. \A k \in T : ~ (k < m)
  BY <1>1 DEF OpToRel
<1>3. \A k \in T : k \in Nat /\ m \in Nat
  OBVIOUS
<1>4. \A k \in T : m <= k
  BY <1>2, <1>3
<1> QED BY <1>4

\* Induction from 0 to n, on a set.
LEMMA Climb ==
  ASSUME NEW n \in Nat, NEW Q, 0 \in Q,
         \A i \in 0..n : i \in Q /\ i < n => i + 1 \in Q
  PROVE  \A i \in 0..n : i \in Q
<1> DEFINE T == {i \in 0..n : i \notin Q}
<1>1. SUFFICES ASSUME T # {} PROVE FALSE
  OBVIOUS
<1>a. T \in SUBSET Nat
  OBVIOUS
<1> HIDE DEF T
<1>2. PICK m \in T : \A k \in T : m <= k
  BY <1>1, <1>a, Smallest
<1>3. m \in 0..n /\ m \notin Q /\ m # 0
  BY DEF T
<1>4. m - 1 \in 0..n /\ m - 1 < n /\ m - 1 + 1 = m /\ ~(m <= m - 1)
  BY <1>3
<1>5. m - 1 \in Q
  BY <1>2, <1>4 DEF T
<1> DEFINE i == m - 1
<1>6. i \in 0..n /\ i < n /\ i \in Q /\ i + 1 = m
  BY <1>4, <1>5
<1> HIDE DEF i
<1>7. i + 1 \in Q
  BY <1>6
<1> QED BY <1>3, <1>6, <1>7

\* And from n down to 0.
LEMMA Descend ==
  ASSUME NEW n \in Nat, NEW Q, n \in Q,
         \A i \in 0..n : i + 1 \in Q /\ i < n => i \in Q
  PROVE  \A i \in 0..n : i \in Q
<1> DEFINE R == {i \in 0..n : n - i \in Q}
<1>1. 0 \in R
  OBVIOUS
<1>2. ASSUME NEW i \in 0..n, i \in R, i < n
      PROVE  i + 1 \in R
  <2>1. /\ n - (i + 1) \in 0..n /\ n - (i + 1) < n
        /\ n - (i + 1) + 1 = n - i
    BY <1>2
  <2>2. n - (i + 1) \in Q
    BY <1>2, <2>1
  <2> QED BY <1>2, <2>2
<1>3. \A i \in 0..n : i \in R
  <2> HIDE DEF R
  <2> QED BY <1>1, <1>2, Climb
<1>4. ASSUME NEW i \in 0..n
      PROVE  i \in Q
  <2>1. n - i \in 0..n /\ n - (n - i) = i
    OBVIOUS
  <2> QED BY <1>3, <2>1
<1> QED BY <1>4

----------------------------------------------------------------------------
\* runs()

\* The inner loop stops at the first clean tile, or past the last column.
LEMMA ScanStops ==
  ASSUME NEW row, NEW c \in 0..COLS
  PROVE  /\ ScanEnd(row, c) \in c..COLS
         /\ \A i \in c..ScanEnd(row, c)-1 : IsTileDirty(i, row)
         /\ ScanEnd(row, c) < COLS => ~IsTileDirty(ScanEnd(row, c), row)
<1> DEFINE Dirty(i) == IsTileDirty(i, row)
           Is(f, k) ==
             f = [i \in k..COLS |-> IF i < COLS /\ Dirty(i) THEN f[i + 1] ELSE i]
           F == CHOOSE f : Is(f, 0)
           Q == {k \in 0..COLS : \E f : Is(f, k)}
<1>1. COLS \in Nat /\ 0 \in 0..COLS /\ COLS \in 0..COLS
  BY GeometryAssumption
<1> HIDE DEF Dirty
<1>2. COLS \in Q
  <2>1. Is([i \in COLS..COLS |-> i], COLS)
    BY <1>1
  <2> QED BY <1>1, <2>1
<1>3. ASSUME NEW k \in 0..COLS, k + 1 \in Q, k < COLS
      PROVE  k \in Q
  <2>1. PICK f : Is(f, k + 1)
    BY <1>3
  <2> DEFINE e == [i \in k..COLS |->
                     IF i = k THEN (IF Dirty(k) THEN f[k + 1] ELSE k) ELSE f[i]]
  <2>2. \A i \in k+1..COLS : f[i] = IF i < COLS /\ Dirty(i) THEN f[i + 1] ELSE i
    BY <2>1
  <2>3. \A i \in k..COLS :
          i # k => i \in k+1..COLS /\ (i < COLS => i + 1 \in k..COLS /\ i + 1 # k)
    BY <1>1
  <2>4. k + 1 \in k..COLS /\ k + 1 # k
    BY <1>1, <1>3
  <2>5. Is(e, k)
    <3> SUFFICES ASSUME NEW i \in k..COLS
                 PROVE  e[i] = IF i < COLS /\ Dirty(i) THEN e[i + 1] ELSE i
      OBVIOUS
    <3>1. CASE i = k
      BY <1>3, <2>4, <3>1
    <3>2. CASE i # k
      BY <2>2, <2>3, <3>2
    <3> QED BY <3>1, <3>2
  <2> QED BY <2>5
<1>4. 0 \in Q
  <2> HIDE DEF Q
  <2>1. \A i \in 0..COLS : i \in Q
    BY <1>1, <1>2, <1>3, Descend
  <2> QED BY <1>1, <2>1
<1>5. Is(F, 0)
  <2> HIDE DEF Is
  <2> QED BY <1>4
<1>6. \A i \in 0..COLS : F[i] = IF i < COLS /\ Dirty(i) THEN F[i + 1] ELSE i
  BY <1>5
<1>7. ScanEnd(row, c) = F[c]
  BY DEF ScanEnd, Dirty
<1> HIDE DEF F, Q, Is
<1> DEFINE P == {k \in 0..COLS : /\ F[k] \in k..COLS
                                 /\ \A i \in k..F[k]-1 : Dirty(i)
                                 /\ F[k] < COLS => ~Dirty(F[k])}
<1>8. COLS \in P
  BY <1>1, <1>6
<1>9. ASSUME NEW k \in 0..COLS, k + 1 \in P, k < COLS
      PROVE  k \in P
  <2>1. CASE Dirty(k)
    <3>1. F[k] = F[k + 1]
      BY <1>6, <1>9, <2>1
    <3>2. \A i \in k..F[k]-1 : i = k \/ i \in k+1..F[k+1]-1
      BY <1>1, <1>9, <3>1
    <3>3. F[k] \in k..COLS
      BY <1>1, <1>9, <3>1
    <3> QED BY <1>9, <2>1, <3>1, <3>2, <3>3
  <2>2. CASE ~Dirty(k)
    <3>1. F[k] = k
      BY <1>6, <2>2
    <3> QED BY <1>1, <2>2, <3>1
  <2> QED BY <2>1, <2>2
<1>10. c \in P
  <2> HIDE DEF P
  <2>1. \A i \in 0..COLS : i \in P
    BY <1>1, <1>8, <1>9, Descend
  <2> QED BY <2>1
<1> QED BY <1>7, <1>10 DEF Dirty

\* Two sequences without a common or repeated element, one after the other.
LEMMA Joined ==
  ASSUME NEW S, NEW s \in Seq(S), NEW t \in Seq(S), IsInjective(s), IsInjective(t),
         Range(s) \cap Range(t) = {}
  PROVE  /\ s \o t \in Seq(S) /\ IsInjective(s \o t)
         /\ Range(s \o t) = Range(s) \cup Range(t)
<1> DEFINE u == s \o t
<1>1. /\ u \in Seq(S) /\ Len(s) \in Nat /\ Len(t) \in Nat
      /\ DOMAIN s = 1..Len(s) /\ DOMAIN t = 1..Len(t) /\ DOMAIN u = 1..Len(s)+Len(t)
  OBVIOUS
<1>2. /\ \A i \in 1..Len(s) : u[i] = s[i] /\ i \in DOMAIN u
      /\ \A i \in 1..Len(t) : u[i + Len(s)] = t[i] /\ i + Len(s) \in DOMAIN u
  OBVIOUS
<1>3. \A i \in DOMAIN u :
        i \in DOMAIN s \/ (i - Len(s) \in DOMAIN t /\ (i - Len(s)) + Len(s) = i)
  BY <1>1
<1> HIDE DEF u
<1>4. \A i \in DOMAIN u : \/ i \in DOMAIN s /\ u[i] = s[i]
                          \/ i - Len(s) \in DOMAIN t /\ u[i] = t[i - Len(s)]
  BY <1>1, <1>2, <1>3
<1>5. Range(u) = Range(s) \cup Range(t)
  <2>1. ASSUME NEW x \in Range(u)
        PROVE  x \in Range(s) \cup Range(t)
    BY <1>4 DEF Range
  <2>2. ASSUME NEW x \in Range(s)
        PROVE  x \in Range(u)
    BY <1>1, <1>2 DEF Range
  <2>3. ASSUME NEW x \in Range(t)
        PROVE  x \in Range(u)
    BY <1>1, <1>2 DEF Range
  <2> QED BY <2>1, <2>2, <2>3
<1>6. IsInjective(u)
  <2> SUFFICES ASSUME NEW a \in DOMAIN u, NEW b \in DOMAIN u, u[a] = u[b]
               PROVE  a = b
    BY DEF IsInjective
  <2>1. CASE a \in DOMAIN s /\ u[a] = s[a] /\ b \in DOMAIN s /\ u[b] = s[b]
    BY <2>1 DEF IsInjective
  <2>2. CASE /\ a - Len(s) \in DOMAIN t /\ u[a] = t[a - Len(s)]
             /\ b - Len(s) \in DOMAIN t /\ u[b] = t[b - Len(s)]
    <3>1. a - Len(s) = b - Len(s)
      BY <2>2 DEF IsInjective
    <3> QED BY <1>1, <3>1
  <2>3. \A i \in DOMAIN s, j \in DOMAIN t : s[i] # t[j]
    BY DEF Range
  <2> QED BY <1>4, <2>1, <2>2, <2>3
<1> QED BY <1>1, <1>5, <1>6 DEF u

\* The maximal runs of a row in the columns from c on.
RunsFrom(row, c) ==
  {r \in {row} \X (c..COLS-1) \X (c..COLS-1) :
     /\ r[2] <= r[3]
     /\ \A i \in r[2]..r[3] : IsTileDirty(i, row)
     /\ r[2] > c => ~IsTileDirty(r[2] - 1, row)
     /\ ~IsTileDirty(r[3] + 1, row)}

\* A sequence that has each of them once.
HasRuns(s, row, c) ==
  /\ s \in Seq((0..ROWS-1) \X (0..COLS-1) \X (0..COLS-1))
  /\ IsInjective(s)
  /\ Range(s) = RunsFrom(row, c)

\* From a clean tile on they are those from the next.
LEMMA RunsAfterClean ==
  ASSUME NEW row \in 0..ROWS-1, NEW c \in 0..COLS-1, ~IsTileDirty(c, row)
  PROVE  RunsFrom(row, c) = RunsFrom(row, c + 1)
<1>1. COLS \in Nat
  BY GeometryAssumption
<1> DEFINE Dirty(i) == IsTileDirty(i, row)
<1>2. ~Dirty(c)
  OBVIOUS
<1> HIDE DEF Dirty
<1>3. ASSUME NEW a \in c..COLS-1, NEW b \in c..COLS-1, a <= b, \A i \in a..b : Dirty(i)
      PROVE  a \in c+1..COLS-1 /\ b \in c+1..COLS-1 /\ (a = c + 1 => a - 1 = c)
  <2>1. a \in a..b
    BY <1>3
  <2>2. a # c
    BY <1>2, <1>3, <2>1
  <2> QED BY <1>1, <1>3, <2>2
<1>4. ASSUME NEW a \in c..COLS-1, NEW b \in c..COLS-1, a <= b
      PROVE  <<row, a, b>> \in RunsFrom(row, c) <=> <<row, a, b>> \in RunsFrom(row, c + 1)
  <2>1. CASE \A i \in a..b : Dirty(i)
    <3>1. a \in c+1..COLS-1 /\ b \in c+1..COLS-1 /\ (a = c + 1 => a - 1 = c) /\ a > c
      BY <1>3, <1>4, <2>1
    <3>2. a > c + 1 \/ a = c + 1
      BY <3>1
    <3>3. <<row, a, b>> \in RunsFrom(row, c) <=> ~Dirty(a - 1) /\ ~Dirty(b + 1)
      BY <1>4, <2>1, <3>1 DEF RunsFrom, Dirty
    <3>4. <<row, a, b>> \in RunsFrom(row, c + 1)
            <=> (a > c + 1 => ~Dirty(a - 1)) /\ ~Dirty(b + 1)
      BY <1>4, <2>1, <3>1 DEF RunsFrom, Dirty
    <3> QED BY <1>2, <3>1, <3>2, <3>3, <3>4
  <2>2. CASE ~ \A i \in a..b : Dirty(i)
    BY <2>2 DEF RunsFrom, Dirty
  <2> QED BY <2>1, <2>2
<1>5. \A r \in RunsFrom(row, c) \cup RunsFrom(row, c + 1) :
        \E a, b \in c..COLS-1 : a <= b /\ r = <<row, a, b>>
  BY <1>1 DEF RunsFrom
<1> QED BY <1>4, <1>5

\* A run that starts at c and stops before e, and those from e on.
LEMMA RunsAfterRun ==
  ASSUME NEW row \in 0..ROWS-1, NEW c \in 0..COLS-1, NEW e \in c+1..COLS,
         \A i \in c..e-1 : IsTileDirty(i, row), ~IsTileDirty(e, row)
  PROVE  /\ <<row, c, e - 1>> \notin RunsFrom(row, e)
         /\ RunsFrom(row, c) = {<<row, c, e - 1>>} \cup RunsFrom(row, e)
<1>1. COLS \in Nat
  BY GeometryAssumption
<1> DEFINE Dirty(i) == IsTileDirty(i, row)
<1>2. ~Dirty(e) /\ \A i \in c..e-1 : Dirty(i)
  OBVIOUS
<1>3. \A f \in 0..COLS : \A r \in RunsFrom(row, f) :
        \E a, b \in f..COLS-1 :
          /\ a <= b /\ r = <<row, a, b>> /\ (\A i \in a..b : Dirty(i))
          /\ (a > f => ~Dirty(a - 1)) /\ ~Dirty(b + 1)
  BY <1>1 DEF RunsFrom
<1>4. \A f \in 0..COLS : \A a, b \in f..COLS-1 :
          /\ a <= b /\ (\A i \in a..b : Dirty(i))
          /\ (a > f => ~Dirty(a - 1)) /\ ~Dirty(b + 1)
          => <<row, a, b>> \in RunsFrom(row, f)
  BY <1>1 DEF RunsFrom
<1> HIDE DEF Dirty
<1>5. c \in 0..COLS /\ e \in 0..COLS /\ e - 1 \in c..COLS-1 /\ c \in c..COLS-1
      /\ e - 1 + 1 = e /\ c <= e - 1
  BY <1>1
<1>6. <<row, c, e - 1>> \in RunsFrom(row, c)
  BY <1>2, <1>4, <1>5
<1>7. <<row, c, e - 1>> \notin RunsFrom(row, e)
  <2>1. \A a \in e..COLS-1 : a # c
    BY <1>1
  <2> QED BY <1>3, <1>5, <2>1
<1>8. ASSUME NEW r \in RunsFrom(row, c)
      PROVE  r = <<row, c, e - 1>> \/ r \in RunsFrom(row, e)
  <2>1. PICK a \in c..COLS-1, b \in c..COLS-1 :
          /\ a <= b /\ r = <<row, a, b>> /\ (\A i \in a..b : Dirty(i))
          /\ (a > c => ~Dirty(a - 1)) /\ ~Dirty(b + 1)
    BY <1>3, <1>5
  <2>2. CASE a = c
    <3>1. ~(b < e - 1)
      <4>1. ASSUME b < e - 1
            PROVE  b + 1 \in c..e-1
        BY <1>1, <2>1, <4>1
      <4> QED BY <1>2, <2>1, <4>1
    <3>2. ~(b > e - 1)
      <4>1. ASSUME b > e - 1
            PROVE  e \in a..b
        BY <1>1, <2>1, <2>2, <4>1
      <4> QED BY <1>2, <2>1, <4>1
    <3>3. b = e - 1
      BY <1>1, <3>1, <3>2
    <3> QED BY <2>1, <2>2, <3>3
  <2>3. CASE a # c
    <3>1. a > c /\ ~(a - 1 \in c..e-1)
      BY <1>2, <2>1, <2>3
    <3>2. \/ a > e /\ a \in e..COLS-1 /\ b \in e..COLS-1
          \/ a = e /\ e \in a..b
      BY <1>1, <2>1, <3>1
    <3>3. a > e /\ a \in e..COLS-1 /\ b \in e..COLS-1
      BY <1>2, <2>1, <3>2
    <3> QED BY <1>4, <1>5, <2>1, <3>1, <3>3
  <2> QED BY <2>2, <2>3
<1>9. ASSUME NEW r \in RunsFrom(row, e)
      PROVE  r \in RunsFrom(row, c)
  <2>1. PICK a \in e..COLS-1, b \in e..COLS-1 :
          /\ a <= b /\ r = <<row, a, b>> /\ (\A i \in a..b : Dirty(i))
          /\ (a > e => ~Dirty(a - 1)) /\ ~Dirty(b + 1)
    BY <1>3, <1>5
  <2>2. a \in c..COLS-1 /\ b \in c..COLS-1 /\ a \in a..b
    BY <1>1, <2>1
  <2>3. a # e
    BY <1>2, <2>1, <2>2
  <2>4. a > e
    BY <1>1, <2>3
  <2> QED BY <1>4, <1>5, <2>1, <2>2, <2>4
<1> QED BY <1>6, <1>7, <1>8, <1>9

\* The outer loop for one row finds each of its maximal runs once.
LEMMA RowRunsFound ==
  ASSUME NEW row \in 0..ROWS-1
  PROVE  HasRuns(RowRuns(row), row, 0)
<1> DEFINE Dirty(i) == IsTileDirty(i, row)
           E(i) == ScanEnd(row, i)
           Step(f, i) == IF i = COLS THEN <<>>
                         ELSE IF Dirty(i) THEN <<<<row, i, E(i) - 1>>>> \o f[E(i)]
                         ELSE f[i + 1]
           Is(f, k) == f = [i \in k..COLS |-> Step(f, i)]
           F == CHOOSE f : Is(f, 0)
           Q == {k \in 0..COLS : \E f : Is(f, k)}
<1>1. COLS \in Nat /\ 0 \in 0..COLS /\ COLS \in 0..COLS
  BY GeometryAssumption
<1>2. ASSUME NEW i \in 0..COLS-1, Dirty(i)
      PROVE  /\ E(i) \in i+1..COLS /\ ~Dirty(E(i))
             /\ \A j \in i..E(i)-1 : Dirty(j)
  <2>1. /\ i \in 0..COLS
        /\ E(i) \in i..COLS /\ (\A j \in i..E(i)-1 : Dirty(j))
        /\ E(i) < COLS => ~Dirty(E(i))
    BY <1>1, ScanStops
  <2>2. ~Dirty(COLS)
    BY <1>1 DEF IsTileDirty, TileBit
  <2> HIDE DEF Dirty, E
  <2>3. ~Dirty(E(i))
    BY <1>1, <2>1, <2>2
  <2>4. E(i) # i
    BY <1>2, <2>3
  <2> QED BY <1>1, <2>1, <2>3, <2>4
<1>3. ~Dirty(COLS)
  BY <1>1 DEF IsTileDirty, TileBit
<1>4. RowRuns(row) = F[0]
  BY DEF RowRuns
<1> HIDE DEF Dirty, E
<1>5. COLS \in Q
  <2>1. Is([i \in COLS..COLS |-> <<>>], COLS)
    BY <1>1
  <2> QED BY <1>1, <2>1
<1>6. ASSUME NEW k \in 0..COLS, k + 1 \in Q, k < COLS
      PROVE  k \in Q
  <2>1. PICK f : Is(f, k + 1)
    BY <1>6
  <2> DEFINE e == [i \in k..COLS |-> IF i = k THEN Step(f, k) ELSE f[i]]
  <2>2. \A i \in k+1..COLS : f[i] = Step(f, i)
    BY <2>1
  <2>3. \A i \in k..COLS :
          i < COLS => /\ i + 1 \in k..COLS /\ i + 1 # k
                      /\ Dirty(i) => E(i) \in k..COLS /\ E(i) # k
    BY <1>1, <1>2
  <2>4. \A i \in k..COLS : i # COLS => i < COLS
    BY <1>1
  <2>5. \A i \in k..COLS : Step(e, i) = Step(f, i)
    BY <2>3, <2>4
  <2>6. \A i \in k..COLS : i # k => i \in k+1..COLS
    BY <1>1
  <2> HIDE DEF Step
  <2>7. \A i \in k..COLS : e[i] = Step(e, i)
    BY <2>2, <2>5, <2>6
  <2>8. Is(e, k)
    BY <2>7
  <2> QED BY <2>8
<1>7. Is(F, 0)
  <2>1. 0 \in Q
    <3> HIDE DEF Q
    <3>1. \A i \in 0..COLS : i \in Q
      BY <1>1, <1>5, <1>6, Descend
    <3> QED BY <1>1, <3>1
  <2> HIDE DEF Is
  <2> QED BY <2>1
<1>8. \A i \in 0..COLS : F[i] = Step(F, i)
  <2> HIDE DEF Step
  <2> QED BY <1>7
<1> HIDE DEF F, Q, Is
<1> DEFINE P == {k \in 0..COLS : \A j \in k..COLS : HasRuns(F[j], row, j)}
<1>9. COLS \in P
  <2>1. F[COLS] = <<>>
    BY <1>1, <1>8
  <2>2. RunsFrom(row, COLS) = {}
    BY <1>1 DEF RunsFrom
  <2>3. DOMAIN <<>> = {} /\ <<>> \in Seq((0..ROWS-1) \X (0..COLS-1) \X (0..COLS-1))
    OBVIOUS
  <2>4. IsInjective(<<>>) /\ Range(<<>>) = {}
    BY <2>3 DEF Range, IsInjective
  <2>5. HasRuns(F[COLS], row, COLS)
    BY <2>1, <2>2, <2>3, <2>4 DEF HasRuns
  <2>6. \A j \in COLS..COLS : j = COLS
    BY <1>1
  <2> QED BY <1>1, <2>5, <2>6
<1>10. ASSUME NEW k \in 0..COLS, k + 1 \in P, k < COLS
       PROVE  k \in P
  <2>1. k \in 0..COLS-1 /\ k # COLS /\ k + 1 \in k+1..COLS
    BY <1>1, <1>10
  <2>2. HasRuns(F[k], row, k)
    <3>1. CASE ~Dirty(k)
      <4>1. F[k] = F[k + 1]
        BY <1>8, <2>1, <3>1
      <4>2. RunsFrom(row, k) = RunsFrom(row, k + 1)
        BY <2>1, <3>1, RunsAfterClean DEF Dirty
      <4>3. HasRuns(F[k + 1], row, k + 1)
        BY <1>10, <2>1
      <4> QED BY <4>1, <4>2, <4>3 DEF HasRuns
    <3>2. CASE Dirty(k)
      <4> DEFINE e == E(k)
                 r == <<row, k, e - 1>>
                 R == (0..ROWS-1) \X (0..COLS-1) \X (0..COLS-1)
                 q == <<r>>
      <4>1. e \in k+1..COLS /\ ~Dirty(e) /\ \A j \in k..e-1 : Dirty(j)
        BY <1>2, <2>1, <3>2
      <4>2. F[k] = <<r>> \o F[e]
        BY <1>8, <2>1, <3>2
      <4> HIDE DEF e
      <4>3. HasRuns(F[e], row, e)
        BY <1>10, <4>1
      <4>4. r \notin RunsFrom(row, e) /\ RunsFrom(row, k) = {r} \cup RunsFrom(row, e)
        BY <2>1, <4>1, RunsAfterRun DEF Dirty
      <4>5. e - 1 \in 0..COLS-1
        BY <1>1, <4>1
      <4>6. r \in R
        BY <2>1, <4>5
      <4> HIDE DEF r, R
      <4>7. q \in Seq(R) /\ DOMAIN q = {1} /\ q[1] = r
        BY <4>6
      <4> HIDE DEF q
      <4>8. IsInjective(q) /\ Range(q) = {r}
        BY <4>7 DEF IsInjective, Range
      <4>9. F[e] \in Seq(R) /\ IsInjective(F[e]) /\ Range(F[e]) = RunsFrom(row, e)
        BY <4>3 DEF HasRuns, R
      <4>10. Range(q) \cap Range(F[e]) = {}
        BY <4>4, <4>8, <4>9
      <4>11. /\ q \o F[e] \in Seq(R) /\ IsInjective(q \o F[e])
             /\ Range(q \o F[e]) = Range(q) \cup Range(F[e])
        BY <4>7, <4>8, <4>9, <4>10, Joined
      <4>12. F[k] = q \o F[e]
        BY <4>2 DEF q
      <4> QED BY <4>4, <4>8, <4>9, <4>11, <4>12 DEF HasRuns, R
    <3> QED BY <3>1, <3>2
  <2>3. \A j \in k..COLS : j = k \/ j \in k+1..COLS
    BY <1>1
  <2> QED BY <1>10, <2>2, <2>3
<1>11. 0 \in P
  <2> HIDE DEF P
  <2>1. \A i \in 0..COLS : i \in P
    BY <1>1, <1>9, <1>10, Descend
  <2> QED BY <1>1, <2>1
<1> QED BY <1>1, <1>4, <1>11

\* f[i] is the concatenation of the first i sequences of s.
Flat(f, s) ==
  /\ DOMAIN f = 1..Len(s)
  /\ f[1] = s[1]
  /\ \A i \in 2..Len(s) : f[i] = f[i - 1] \o s[i]
  /\ FlattenSeq(s) = f[Len(s)]

\* A sequence that is not empty has those prefixes concatenated.
LEMMA Flattened ==
  ASSUME NEW s, Len(s) \in Nat, Len(s) > 0
  PROVE  \E f : Flat(f, s)
<1> DEFINE n == Len(s)
           Is(f, k) == f = [i \in 1..k |-> IF i = 1 THEN s[i] ELSE f[i - 1] \o s[i]]
           F == CHOOSE f : Is(f, n)
           Q == {k \in 0..n : \E f : Is(f, k)}
<1>1. n \in Nat /\ n > 0 /\ 0 \in 0..n
  OBVIOUS
<1>2. FlattenSeq(s) = F[n]
  BY <1>1 DEF FlattenSeq
<1> HIDE DEF n
<1>3. 0 \in Q
  <2>1. Is([i \in 1..0 |-> 0], 0)
    OBVIOUS
  <2> QED BY <1>1, <2>1
<1>4. ASSUME NEW k \in 0..n, k \in Q, k < n
      PROVE  k + 1 \in Q
  <2>1. PICK f : Is(f, k)
    BY <1>4
  <2> DEFINE m == k + 1
             e == [i \in 1..m |-> IF i = 1 THEN s[i] ELSE f[i - 1] \o s[i]]
  <2>2. \A i \in 1..k : f[i] = IF i = 1 THEN s[i] ELSE f[i - 1] \o s[i]
    BY <2>1
  <2>3. \A i \in 1..m : i # 1 => i - 1 \in 1..k /\ i - 1 \in 1..m
    OBVIOUS
  <2>4. \A i \in 1..k : e[i] = f[i]
    BY <2>2
  <2>5. Is(e, m)
    BY <2>3, <2>4
  <2>6. m \in 0..n
    BY <1>1, <1>4
  <2> HIDE DEF e, Is
  <2> QED BY <2>5, <2>6
<1>5. Is(F, n)
  <2>1. n \in Q
    <3> HIDE DEF Q
    <3>1. \A i \in 0..n : i \in Q
      BY <1>1, <1>3, <1>4, Climb
    <3> QED BY <1>1, <3>1
  <2> HIDE DEF Is
  <2> QED BY <2>1
<1> HIDE DEF F
<1>6. Flat(F, s)
  <2>1. DOMAIN F = 1..n
    BY <1>5
  <2>2. \A i \in 1..n : F[i] = IF i = 1 THEN s[i] ELSE F[i - 1] \o s[i]
    BY <1>5
  <2>3. 1 \in 1..n /\ \A i \in 2..n : i \in 1..n /\ i # 1
    BY <1>1
  <2> HIDE DEF Is
  <2> QED BY <1>2, <2>1, <2>2, <2>3 DEF Flat, n
<1> QED BY <1>6

\* runs() is sound and complete, whatever tiles are dirty.
LEMMA RunsFound ==
  RunsAreMaximal /\ Runs \in Seq((0..ROWS-1) \X (0..COLS-1) \X (0..COLS-1))
<1> DEFINE rows == [r \in 1..ROWS |-> RowRuns(r - 1)]
           R == (0..ROWS-1) \X (0..COLS-1) \X (0..COLS-1)
<1>1. ROWS \in Nat /\ ROWS > 0 /\ COLS \in Nat
  BY GeometryAssumption
<1>2. Len(rows) = ROWS
  BY <1>1
<1>3. PICK f : Flat(f, rows)
  BY <1>1, <1>2, Flattened
<1>4. \A r \in 1..ROWS : rows[r] = RowRuns(r - 1) /\ r - 1 \in 0..ROWS-1
  BY <1>1
<1> HIDE DEF rows, R
<1>5. ASSUME NEW r \in 1..ROWS
      PROVE  /\ rows[r] \in Seq(R) /\ IsInjective(rows[r])
             /\ Range(rows[r]) = RunsFrom(r - 1, 0)
  BY <1>4, RowRunsFound DEF HasRuns, R
<1> DEFINE Until(i) == UNION {RunsFrom(r - 1, 0) : r \in 1..i}
           P == {i \in 0..ROWS : i > 0 => /\ f[i] \in Seq(R) /\ IsInjective(f[i])
                                         /\ Range(f[i]) = Until(i)}
<1>6. 0 \in P
  BY <1>1
<1>7. ASSUME NEW i \in 0..ROWS, i \in P, i < ROWS
      PROVE  i + 1 \in P
  <2> DEFINE m == i + 1
  <2>1. m \in 1..ROWS /\ m > 0 /\ (i # 0 => m \in 2..ROWS /\ m - 1 = i /\ i > 0)
    BY <1>1, <1>7
  <2>2. Until(m) = Until(i) \cup RunsFrom(m - 1, 0)
    <3>1. 1..m = 1..i \cup {m}
      BY <1>7
    <3> QED BY <3>1
  <2>3. CASE i = 0
    <3>1. Until(i) = {}
      BY <2>3
    <3>2. f[m] = rows[m]
      BY <1>3, <2>3 DEF Flat
    <3> HIDE DEF m, Until
    <3>3. /\ f[m] \in Seq(R) /\ IsInjective(f[m])
          /\ Range(f[m]) = Until(m)
      BY <1>5, <2>1, <2>2, <3>1, <3>2
    <3>4. m \in P
      BY <2>1, <3>3
    <3> QED BY <3>4 DEF m
  <2>4. CASE i # 0
    <3>1. f[m] = f[i] \o rows[m]
      BY <1>2, <1>3, <2>1, <2>4 DEF Flat
    <3>2. Until(i) \cap RunsFrom(m - 1, 0) = {}
      <4>1. \A r \in 1..i : r - 1 # m - 1
        BY <1>7
      <4> QED BY <4>1 DEF RunsFrom
    <3> HIDE DEF m, Until
    <3>3. /\ f[i] \in Seq(R) /\ IsInjective(f[i]) /\ Range(f[i]) = Until(i)
          /\ rows[m] \in Seq(R) /\ IsInjective(rows[m])
          /\ Range(rows[m]) = RunsFrom(m - 1, 0)
      BY <1>5, <1>7, <2>1, <2>4
    <3>4. /\ f[m] \in Seq(R) /\ IsInjective(f[m])
          /\ Range(f[m]) = Range(f[i]) \cup Range(rows[m])
      BY <3>1, <3>2, <3>3, Joined
    <3>5. Range(f[m]) = Until(m)
      BY <2>2, <3>3, <3>4
    <3>6. m \in P
      BY <2>1, <3>4, <3>5
    <3> QED BY <3>6 DEF m
  <2> QED BY <2>3, <2>4
<1>8. ROWS \in P
  <2> HIDE DEF P
  <2>1. \A i \in 0..ROWS : i \in P
    BY <1>1, <1>6, <1>7, Climb
  <2> QED BY <1>1, <2>1
<1>9. Runs = f[ROWS]
  BY <1>2, <1>3 DEF Flat, Runs, rows
<1>10. IsInjective(Runs) /\ Range(Runs) = Until(ROWS) /\ Runs \in Seq(R)
  BY <1>1, <1>8, <1>9
<1>11. Until(ROWS) =
         {r \in (0..ROWS-1) \X (0..COLS-1) \X (0..COLS-1) :
            /\ r[2] <= r[3]
            /\ \A c \in r[2]..r[3] : IsTileDirty(c, r[1])
            /\ r[2] > 0 => ~IsTileDirty(r[2] - 1, r[1])
            /\ ~IsTileDirty(r[3] + 1, r[1])}
  <2>1. \A q \in 0..ROWS-1 : q + 1 \in 1..ROWS /\ (q + 1) - 1 = q
    BY <1>1
  <2> QED BY <1>1, <1>4, <2>1 DEF RunsFrom
<1> QED BY <1>10, <1>11 DEF RunsAreMaximal, R

----------------------------------------------------------------------------
\* Tiles and pixels

\* A quotient and its remainder.
LEMMA Quotient ==
  ASSUME NEW T \in Nat, T > 0, NEW x \in Nat
  PROVE  /\ x \div T \in Nat /\ x % T \in 0..T-1
         /\ x = (x \div T) * T + (x % T)
OBVIOUS

\* The only ones of a number that has that form.
LEMMA QuotientOf ==
  ASSUME NEW T \in Nat, T > 0, NEW q \in Nat, NEW r \in 0..T-1
  PROVE  /\ (q * T + r) \div T = q
         /\ (q * T + r) % T = r
OBVIOUS

\* A larger number has no smaller quotient.
LEMMA Monotone ==
  ASSUME NEW T \in Nat, T > 0, NEW x \in Nat, NEW y \in Nat, x <= y
  PROVE  x \div T <= y \div T
OBVIOUS

\* Fewer tiles end before the next begins.
LEMMA Times ==
  ASSUME NEW T \in Nat, NEW x \in Nat, NEW y \in Nat, x < y
  PROVE  x * T \in Nat /\ x * T + T <= y * T
OBVIOUS

\* A pixel below n tiles is in one of them.
LEMMA InTiles ==
  ASSUME NEW T \in Nat, T > 0, NEW n \in Nat, NEW x \in 0..n*T-1
  PROVE  x \div T \in 0..n-1
<1>1. n * T \in Nat /\ x \in Nat /\ x < n * T
  OBVIOUS
<1>2. x \div T \in Nat /\ (x \div T) * T <= x
  BY <1>1, Quotient
<1> DEFINE q == x \div T
<1>3. q \in Nat /\ q * T <= x
  BY <1>2
<1> HIDE DEF q
<1>4. ~(n <= q)
  <2>1. ASSUME n <= q
        PROVE  n * T <= q * T
    BY <1>3, <2>1
  <2>2. q * T \in Nat
    BY <1>3
  <2> QED BY <1>1, <1>3, <2>1, <2>2
<1> QED BY <1>3, <1>4 DEF q

\* The tile of a pixel.
ColOf(p) == p[1] \div TILE
RowOf(p) == p[2] \div TILE

\* It is on the screen, like the pixel.
LEMMA TileOf ==
  ASSUME NEW p \in Pixels
  PROVE  /\ ColOf(p) \in 0..COLS-1 /\ RowOf(p) \in 0..ROWS-1
         /\ p[1] \in 0..W-1 /\ p[2] \in 0..H-1
BY InTiles, GeometryAssumption DEF Pixels, W, H, ColOf, RowOf

\* Every bit is one of BITS.
LEMMA BitsIn ==
  ASSUME NEW c \in Nat, NEW r \in Nat
  PROVE  TileBit(c, r) \subseteq 0..BITS-1
<1>1. COLS \in Nat /\ ROWS \in Nat
  BY GeometryAssumption
<1>2. CASE c < COLS /\ r < ROWS
  <2>1. r * COLS \in Nat /\ r * COLS + COLS <= ROWS * COLS
    BY <1>1, <1>2, Times
  <2>2. ROWS * COLS = COLS * ROWS /\ ROWS * COLS \in Nat
    BY <1>1
  <2>3. r * COLS + c \in 0..BITS-1
    BY <1>1, <1>2, <2>1, <2>2 DEF BITS
  <2> QED BY <1>1, <1>2, <2>3 DEF TileBit
<1>3. CASE ~(c < COLS /\ r < ROWS)
  BY <1>1, <1>3 DEF TileBit
<1> QED BY <1>2, <1>3

\* mark_rect marks none but those.
LEMMA RectBitsIn ==
  ASSUME NEW x \in Nat, NEW y \in Nat, NEW w \in Nat, NEW h \in Nat
  PROVE  RectBits(x, y, w, h) \subseteq 0..BITS-1
<1>1. CASE w = 0 \/ h = 0
  BY <1>1 DEF RectBits
<1>2. CASE w # 0 /\ h # 0
  <2>1. x \div TILE \in Nat /\ y \div TILE \in Nat
    BY Quotient, GeometryAssumption
  <2>2. \A a \in Nat : \A b : \A c \in a..b : c \in Nat
    OBVIOUS
  <2>3. ASSUME NEW c, NEW r, c \in Nat, r \in Nat
        PROVE  TileBit(c, r) \subseteq 0..BITS-1
    BY <2>3, BitsIn
  <2> QED BY <1>2, <2>1, <2>2, <2>3 DEF RectBits
<1> QED BY <1>1, <1>2

\* mark_rect marks the tile of every pixel of the rectangle.
LEMMA RectBitsCover ==
  ASSUME NEW x \in Nat, NEW y \in Nat, NEW w \in Nat, NEW h \in Nat, NEW p \in Pixels,
         p[1] \in x..x+w-1, p[2] \in y..y+h-1
  PROVE  TileBit(ColOf(p), RowOf(p)) \subseteq RectBits(x, y, w, h)
<1>1. /\ p[1] \in Nat /\ p[2] \in Nat /\ x <= p[1] /\ y <= p[2]
      /\ w # 0 /\ h # 0 /\ x + w - 1 \in Nat /\ y + h - 1 \in Nat
      /\ p[1] <= x + w - 1 /\ p[2] <= y + h - 1
  BY TileOf
<1>2. TILE \in Nat /\ TILE > 0 /\ COLS \in Nat /\ ROWS \in Nat
  BY GeometryAssumption
<1>3. /\ x \div TILE <= ColOf(p) /\ ColOf(p) <= (x + w - 1) \div TILE
      /\ y \div TILE <= RowOf(p) /\ RowOf(p) <= (y + h - 1) \div TILE
  BY <1>1, <1>2, Monotone DEF ColOf, RowOf
<1>4. /\ x \div TILE \in Nat /\ (x + w - 1) \div TILE \in Nat
      /\ y \div TILE \in Nat /\ (y + h - 1) \div TILE \in Nat
  BY <1>1, <1>2, Quotient
<1>5. ColOf(p) \in 0..COLS-1 /\ RowOf(p) \in 0..ROWS-1
  BY TileOf
<1>6. /\ ColOf(p) \in (x \div TILE)..Least((x + w - 1) \div TILE, COLS - 1)
      /\ RowOf(p) \in (y \div TILE)..Least((y + h - 1) \div TILE, ROWS - 1)
  BY <1>2, <1>3, <1>4, <1>5 DEF Least
<1> QED BY <1>1, <1>6 DEF RectBits

\* A tile with its bit among the dirty ones.
LEMMA Marked ==
  ASSUME NEW p \in Pixels, NEW marked, TileBit(ColOf(p), RowOf(p)) \subseteq marked
  PROVE  \A b : TileBit(ColOf(p), RowOf(p)) \cap (b \cup marked) # {}
<1>1. TileBit(ColOf(p), RowOf(p)) # {}
  BY TileOf, GeometryAssumption DEF TileBit
<1> QED BY <1>1

\* The frame's invariant.
FrameIInv == FrameTypeOK /\ StalePixelIsDirty

\* A drawing operation marks what it changes.
LEMMA DrawKeeps ==
  ASSUME FrameIInv, NEW new \in [Pixels -> Colors], NEW marked \in SUBSET (0..BITS-1),
         \A p \in Pixels :
           new[p] # pixels[p] => TileBit(ColOf(p), RowOf(p)) \subseteq marked,
         Draw(new, marked)
  PROVE  FrameIInv'
<1>1. FrameTypeOK'
  <2>1. draws' \in 0..MaxDraws
    BY GeometryAssumption DEF FrameIInv, FrameTypeOK, Draw
  <2> QED BY <2>1 DEF FrameIInv, FrameTypeOK, Draw
<1>2. ASSUME NEW p \in Pixels, shown'[p] # pixels'[p]
      PROVE  TileBit(ColOf(p), RowOf(p)) \cap bits' # {}
  <2>1. bits' = bits \cup marked /\ pixels' = new /\ shown' = shown
    BY DEF Draw
  <2>2. CASE new[p] # pixels[p]
    BY <2>1, <2>2, Marked
  <2>3. CASE new[p] = pixels[p]
    <3>1. TileBit(ColOf(p), RowOf(p)) \cap bits # {}
      BY <1>2, <2>1, <2>3
         DEF FrameIInv, StalePixelIsDirty, IsTileDirty, ColOf, RowOf
    <3> QED BY <2>1, <3>1
  <2> QED BY <2>2, <2>3
<1>3. StalePixelIsDirty'
  BY <1>2 DEF StalePixelIsDirty, IsTileDirty, ColOf, RowOf
<1> QED BY <1>1, <1>3 DEF FrameIInv

\* clear().
LEMMA ClearKeeps ==
  ASSUME FrameIInv, NEW c \in Colors, Clear(c)
  PROVE  FrameIInv'
<1>1. \A p \in Pixels : TileBit(ColOf(p), RowOf(p)) \subseteq 0..BITS-1
  BY TileOf, BitsIn
<1>2. [p \in Pixels |-> c] \in [Pixels -> Colors]
  OBVIOUS
<1> QED BY <1>1, <1>2, DrawKeeps DEF Clear

\* set_pixel(): the only pixel that changes is in the tile it marks.
LEMMA SetPixelKeeps ==
  ASSUME FrameIInv, NEW x \in Coords, NEW y \in Coords, NEW c \in Colors,
         SetPixel(x, y, c)
  PROVE  FrameIInv'
<1> DEFINE new == [pixels EXCEPT ![<<x, y>>] = c]
           marked == TileBit(x \div TILE, y \div TILE)
<1>1. x \in Nat /\ y \in Nat
  BY GeometryAssumption
<1>2. new \in [Pixels -> Colors]
  BY DEF FrameIInv, FrameTypeOK
<1>3. marked \in SUBSET (0..BITS-1)
  BY <1>1, BitsIn, Quotient, GeometryAssumption
<1>4. \A p \in Pixels : new[p] # pixels[p] => p = <<x, y>>
  BY DEF FrameIInv, FrameTypeOK
<1>5. \A p \in Pixels : new[p] # pixels[p] => TileBit(ColOf(p), RowOf(p)) \subseteq marked
  BY <1>4 DEF ColOf, RowOf
<1>6. Draw(new, marked)
  BY DEF SetPixel
<1> HIDE DEF new, marked
<1> QED BY <1>2, <1>3, <1>5, <1>6, DrawKeeps

\* fill_rect(): what changes lies in the clipped rectangle.
LEMMA FillRectKeeps ==
  ASSUME FrameIInv, NEW x \in Coords, NEW y \in Coords, NEW w \in Sizes, NEW h \in Sizes,
         NEW c \in Colors, FillRect(x, y, w, h, c)
  PROVE  FrameIInv'
<1> DEFINE x0 == Least(x, W)
           y0 == Least(y, H)
           x1 == Least(x0 + w, W)
           y1 == Least(y0 + h, H)
           new == [p \in Pixels |->
                     IF p[1] \in x0..x1-1 /\ p[2] \in y0..y1-1 THEN c ELSE pixels[p]]
           marked == RectBits(x0, y0, x1 - x0, y1 - y0)
<1>1. /\ x \in Nat /\ y \in Nat /\ w \in Nat /\ h \in Nat /\ W \in Nat /\ H \in Nat
  BY GeometryAssumption DEF W, H
<1>2. /\ x0 \in Nat /\ y0 \in Nat /\ x1 \in Nat /\ y1 \in Nat
      /\ x1 - x0 \in Nat /\ y1 - y0 \in Nat
      /\ x0 + (x1 - x0) - 1 = x1 - 1 /\ y0 + (y1 - y0) - 1 = y1 - 1
  BY <1>1 DEF Least
<1>3. Draw(new, marked)
  BY DEF FillRect
<1>4. new \in [Pixels -> Colors]
  BY DEF FrameIInv, FrameTypeOK
<1>5. \A p \in Pixels : new[p] # pixels[p] => p[1] \in x0..x1-1 /\ p[2] \in y0..y1-1
  OBVIOUS
<1> HIDE DEF x0, x1, y0, y1, new
<1>6. marked \in SUBSET (0..BITS-1)
  BY <1>2, RectBitsIn
<1>7. \A p \in Pixels : new[p] # pixels[p] => TileBit(ColOf(p), RowOf(p)) \subseteq marked
  BY <1>2, <1>5, RectBitsCover
<1> HIDE DEF marked
<1> QED BY <1>3, <1>4, <1>6, <1>7, DrawKeeps

\* pixels_mut() and touch(): what changes lies in the rectangle that is named.
LEMMA TouchKeeps ==
  ASSUME FrameIInv, NEW x \in Coords, NEW y \in Coords, NEW w \in Sizes, NEW h \in Sizes,
         NEW c \in Colors, DrawAndTouch(x, y, w, h, c)
  PROVE  FrameIInv'
<1> DEFINE new == [p \in Pixels |->
                     IF p[1] \in x..x+w-1 /\ p[2] \in y..y+h-1 /\ (p[1] + p[2]) % 2 = 0
                     THEN c ELSE pixels[p]]
           marked == RectBits(x, y, w, h)
<1>1. x \in Nat /\ y \in Nat /\ w \in Nat /\ h \in Nat
  BY GeometryAssumption
<1>2. Draw(new, marked)
  BY DEF DrawAndTouch
<1>3. new \in [Pixels -> Colors]
  BY DEF FrameIInv, FrameTypeOK
<1>4. \A p \in Pixels : new[p] # pixels[p] => p[1] \in x..x+w-1 /\ p[2] \in y..y+h-1
  OBVIOUS
<1> HIDE DEF new
<1>5. marked \in SUBSET (0..BITS-1)
  BY <1>1, RectBitsIn
<1>6. \A p \in Pixels : new[p] # pixels[p] => TileBit(ColOf(p), RowOf(p)) \subseteq marked
  BY <1>1, <1>4, RectBitsCover
<1> HIDE DEF marked
<1> QED BY <1>2, <1>3, <1>5, <1>6, DrawKeeps

----------------------------------------------------------------------------
\* The encoder and the decoder

\* Run r covers pixel p.
Covers(r, p) == RowOf(p) = r[1] /\ ColOf(p) \in r[2]..r[3]

RunSet == {r \in (0..ROWS-1) \X (0..COLS-1) \X (0..COLS-1) : r[2] <= r[3]}

\* The rectangle of a run, in pixels: as wide as its tiles and one tile high.
Wide(r) == (r[3] - r[2] + 1) * TILE

\* It fits on the screen: clipping it there changes nothing.
LEMMA RunFits ==
  ASSUME NEW r \in RunSet
  PROVE  /\ r[1] * TILE \in Nat /\ r[2] * TILE \in Nat /\ Wide(r) \in Nat /\ Wide(r) > 0
         /\ r[2] * TILE + Wide(r) = r[3] * TILE + TILE
         /\ r[2] * TILE + Wide(r) <= W /\ r[1] * TILE + TILE <= H
         /\ Least(Wide(r), W - r[2] * TILE) = Wide(r)
         /\ Least(TILE, H - r[1] * TILE) = TILE
<1>1. /\ TILE \in Nat /\ TILE > 0 /\ COLS \in Nat /\ ROWS \in Nat
      /\ r[1] \in Nat /\ r[2] \in Nat /\ r[3] \in Nat
      /\ r[1] < ROWS /\ r[3] < COLS /\ r[2] <= r[3] /\ r[2] < COLS
  BY GeometryAssumption DEF RunSet
<1> DEFINE a == r[2]
           b == r[3]
           n == b - a + 1
<1>2. n \in Nat /\ n > 0 /\ a \in Nat /\ b \in Nat
  BY <1>1
<1>3. a * TILE \in Nat /\ r[1] * TILE \in Nat /\ n * TILE \in Nat /\ n * TILE > 0
      /\ b * TILE \in Nat
  BY <1>1, <1>2
<1>4. a * TILE + n * TILE = b * TILE + TILE
  BY <1>1, <1>2
<1>5. b * TILE + TILE <= COLS * TILE /\ r[1] * TILE + TILE <= ROWS * TILE
  BY <1>1, Times
<1>6. COLS * TILE \in Nat /\ ROWS * TILE \in Nat
  BY <1>1
<1> DEFINE at == a * TILE
           wide == n * TILE
           up == r[1] * TILE
<1>7. /\ at \in Nat /\ wide \in Nat /\ up \in Nat /\ wide > 0
      /\ at + wide = b * TILE + TILE /\ at + wide <= W /\ up + TILE <= H
      /\ W \in Nat /\ H \in Nat
  BY <1>3, <1>4, <1>5, <1>6 DEF W, H
<1> HIDE DEF at, wide, up
<1>8. Least(wide, W - at) = wide /\ Least(TILE, H - up) = TILE
  BY <1>1, <1>7 DEF Least
<1> QED BY <1>7, <1>8 DEF at, wide, up, Wide

\* A pixel is within that rectangle when the run covers it.
LEMMA CoversRect ==
  ASSUME NEW r \in RunSet, NEW p \in Pixels
  PROVE  Covers(r, p) <=> /\ p[1] - r[2] * TILE \in 0..Wide(r)-1
                          /\ p[2] - r[1] * TILE \in 0..TILE-1
<1>1. /\ TILE \in Nat /\ TILE > 0 /\ r[1] \in Nat /\ r[2] \in Nat /\ r[3] \in Nat
      /\ r[2] <= r[3]
  BY GeometryAssumption DEF RunSet
<1>2. /\ r[1] * TILE \in Nat /\ r[2] * TILE \in Nat /\ Wide(r) \in Nat
      /\ r[2] * TILE + Wide(r) = r[3] * TILE + TILE /\ r[3] * TILE \in Nat
  BY <1>1, RunFits
<1>3. /\ p[1] \in Nat /\ p[2] \in Nat
      /\ ColOf(p) \in Nat /\ RowOf(p) \in Nat
      /\ ColOf(p) * TILE <= p[1] /\ p[1] < ColOf(p) * TILE + TILE
      /\ RowOf(p) * TILE <= p[2] /\ p[2] < RowOf(p) * TILE + TILE
  <2>1. p[1] \in Nat /\ p[2] \in Nat
    BY TileOf
  <2> DEFINE a == p[1] \div TILE
             b == p[2] \div TILE
  <2>2. /\ a \in Nat /\ p[1] % TILE \in 0..TILE-1 /\ p[1] = a * TILE + (p[1] % TILE)
        /\ b \in Nat /\ p[2] % TILE \in 0..TILE-1 /\ p[2] = b * TILE + (p[2] % TILE)
    BY <1>1, <2>1, Quotient
  <2>3. a * TILE \in Nat /\ b * TILE \in Nat
    BY <1>1, <2>2
  <2> HIDE DEF a, b
  <2>4. /\ a * TILE <= p[1] /\ p[1] < a * TILE + TILE
        /\ b * TILE <= p[2] /\ p[2] < b * TILE + TILE
    BY <1>1, <2>2, <2>3
  <2> QED BY <2>1, <2>2, <2>4 DEF ColOf, RowOf, a, b
<1>4. \A m \in Nat, n \in Nat : m < n => m * TILE + TILE <= n * TILE
  BY <1>1, Times
<1>5. \A m \in Nat : m * TILE \in Nat
  BY <1>1
<1>t. /\ TILE \in Nat /\ r[1] \in Nat /\ r[2] \in Nat /\ r[3] \in Nat
      /\ ColOf(p) \in Nat /\ RowOf(p) \in Nat /\ r[2] <= r[3] /\ Wide(r) \in Nat
      /\ p[1] \in Nat /\ p[2] \in Nat
  BY <1>1, <1>2, <1>3
<1> DEFINE at == r[2] * TILE
           up == r[1] * TILE
<1>6. ColOf(p) \in r[2]..r[3] <=> p[1] - at \in 0..Wide(r)-1
  <2> DEFINE c == ColOf(p)
             cT == c * TILE
             end == r[3] * TILE
  <2>0. c \in Nat
    BY <1>t
  <2>1. /\ c < r[2] => cT + TILE <= at
        /\ r[2] < c => at + TILE <= cT
        /\ c < r[3] => cT + TILE <= end
        /\ r[3] < c => end + TILE <= cT
        /\ c = r[2] => cT = at
        /\ c = r[3] => cT = end
    BY <1>1, <1>3, <1>4
  <2>2. /\ cT \in Nat /\ at \in Nat /\ end \in Nat /\ at + Wide(r) = end + TILE
        /\ cT <= p[1] /\ p[1] < cT + TILE
    BY <1>1, <1>2, <1>3, <1>5
  <2> HIDE DEF cT, at, end, c
  <2>3. c \in r[2]..r[3] => at <= cT /\ cT <= end
    BY <1>t, <2>0, <2>1, <2>2
  <2>4. c \notin r[2]..r[3] => cT + TILE <= at \/ end + TILE <= cT
    BY <1>t, <2>0, <2>1
  <2>5. ASSUME at <= cT, cT <= end
        PROVE  p[1] - at \in 0..Wide(r)-1
    BY <1>t, <2>2, <2>5
  <2>6. ASSUME cT + TILE <= at \/ end + TILE <= cT
        PROVE  p[1] - at \notin 0..Wide(r)-1
    BY <1>t, <2>2, <2>6
  <2> QED BY <2>3, <2>4, <2>5, <2>6 DEF c
<1>7. RowOf(p) = r[1] <=> p[2] - up \in 0..TILE-1
  <2> DEFINE d == RowOf(p)
             dT == d * TILE
  <2>0. d \in Nat
    BY <1>t
  <2>1. /\ d < r[1] => dT + TILE <= up
        /\ r[1] < d => up + TILE <= dT
        /\ d = r[1] => dT = up
    BY <1>1, <1>3, <1>4
  <2>2. dT \in Nat /\ up \in Nat /\ dT <= p[2] /\ p[2] < dT + TILE
    BY <1>1, <1>3, <1>5
  <2> HIDE DEF dT, up, d
  <2>3. ASSUME dT = up
        PROVE  p[2] - up \in 0..TILE-1
    BY <1>t, <2>2, <2>3
  <2>4. ASSUME dT + TILE <= up \/ up + TILE <= dT
        PROVE  p[2] - up \notin 0..TILE-1
    BY <1>t, <2>2, <2>4
  <2>5. d < r[1] \/ r[1] < d \/ d = r[1]
    BY <1>t, <2>0
  <2> QED BY <2>1, <2>3, <2>4, <2>5 DEF d
<1> QED BY <1>6, <1>7 DEF Covers

\* A pixel of a rectangle has its place in row-major order.
LEMMA RowMajor ==
  ASSUME NEW w \in Nat, NEW h \in Nat, NEW i \in 0..w-1, NEW j \in 0..h-1
  PROVE  /\ j * w + i \in 0..w*h-1
         /\ (j * w + i) % w = i /\ (j * w + i) \div w = j
<1>1. i \in Nat /\ j \in Nat /\ w > 0 /\ j < h
  OBVIOUS
<1>2. (j * w + i) % w = i /\ (j * w + i) \div w = j
  BY <1>1, QuotientOf
<1>3. j * w \in Nat /\ j * w + w <= h * w /\ h * w = w * h /\ w * h \in Nat
  BY <1>1, Times
<1> DEFINE k == j * w
           n == w * h
<1>4. k \in Nat /\ n \in Nat /\ k + w <= n
  BY <1>3
<1> HIDE DEF k, n
<1>5. k + i \in 0..n-1
  BY <1>1, <1>4
<1> QED BY <1>2, <1>5 DEF k, n

\* The rectangle has an even number of pixels.
LEMMA WholePairs ==
  ASSUME NEW w \in Nat
  PROVE  /\ w * TILE \in Nat /\ (w * TILE) \div 2 \in Nat
         /\ 2 * ((w * TILE) \div 2) = w * TILE
<1>1. TILE \in Nat /\ TILE % 2 = 0
  BY GeometryAssumption
<1>2. PICK m \in Nat : TILE = 2 * m
  BY <1>1
<1> DEFINE k == w * m
<1>3. w * TILE = 2 * k /\ k \in Nat
  BY <1>2
<1> HIDE DEF k
<1> QED BY <1>3

\* The rectangle that the header of a run frames.
RectOf(r) == Header(r[2] * TILE, r[1] * TILE, Wide(r), TILE)

\* The framebuffer's pixels on those that a run covers.
Painted(r, back) == [p \in Pixels |-> IF Covers(r, p) THEN pixels[p] ELSE back[p]]

\* The decoder draws a run's pixels when its data, over and over, gives them in
\* row-major order.
LEMMA DrawnRun ==
  ASSUME NEW r \in RunSet, NEW screen, screen.rect = RectOf(r), NEW data,
         \A k \in 0..Wide(r)*TILE-1 :
           data[(k % Len(data)) + 1]
             = pixels[<<r[2] * TILE + (k % Wide(r)), r[1] * TILE + (k \div Wide(r))>>]
  PROVE  Drawn(screen, (Wide(r) * TILE) \div 2, data) = Painted(r, screen.back)
<1> DEFINE w == Wide(r)
           x == r[2] * TILE
           y == r[1] * TILE
           n == (w * TILE) \div 2
           At(p) == (p[2] - y) * w + (p[1] - x)
<1>1. /\ screen.rect.x = x /\ screen.rect.y = y
      /\ screen.rect.w = w /\ screen.rect.h = TILE
  BY DEF RectOf, Header
<1>2. x \in Nat /\ y \in Nat /\ w \in Nat /\ TILE \in Nat
  BY RunFits, GeometryAssumption
<1>3. \A p \in Pixels :
        Drawn(screen, n, data)[p] =
          IF p[1] - x \in 0..w-1 /\ p[2] - y \in 0..TILE-1 /\ At(p) < 2 * n
          THEN data[(At(p) % Len(data)) + 1] ELSE screen.back[p]
  BY <1>1 DEF Drawn
<1>4. DOMAIN Drawn(screen, n, data) = Pixels
      /\ Drawn(screen, n, data) = [p \in Pixels |-> Drawn(screen, n, data)[p]]
  BY DEF Drawn
<1>5. ASSUME NEW p \in Pixels, Covers(r, p)
      PROVE  Drawn(screen, n, data)[p] = pixels[p]
  <2>1. p[1] - x \in 0..w-1 /\ p[2] - y \in 0..TILE-1
    BY <1>5, CoversRect
  <2>2. At(p) \in 0..w*TILE-1 /\ At(p) % w = p[1] - x /\ At(p) \div w = p[2] - y
    <3> DEFINE i == p[1] - x
               j == p[2] - y
    <3>1. i \in 0..w-1 /\ j \in 0..TILE-1
      BY <2>1
    <3> HIDE DEF i, j, x, y, w
    <3>2. j * w + i \in 0..w*TILE-1 /\ (j * w + i) % w = i /\ (j * w + i) \div w = j
      BY <1>2, <3>1, RowMajor
    <3> QED BY <3>2 DEF i, j
  <2>3. 2 * n = w * TILE /\ w * TILE \in Nat
    <3> HIDE DEF w
    <3> QED BY <1>2, WholePairs
  <2>4. At(p) < 2 * n
    <3> HIDE DEF At, n
    <3> DEFINE m == w * TILE
    <3>1. At(p) \in 0..m-1 /\ m \in Nat /\ 2 * n = m
      BY <2>2, <2>3
    <3> HIDE DEF m
    <3> QED BY <3>1
  <2>5. p[1] \in Nat /\ p[2] \in Nat /\ p = <<p[1], p[2]>>
    BY TileOf DEF Pixels
  <2> HIDE DEF At, x, y, w
  <2>6. x + (p[1] - x) = p[1] /\ y + (p[2] - y) = p[2]
    BY <1>2, <2>5
  <2>7. data[(At(p) % Len(data)) + 1] = pixels[<<x + (At(p) % w), y + (At(p) \div w)>>]
    BY <2>2 DEF x, y, w
  <2>8. <<x + (At(p) % w), y + (At(p) \div w)>> = p
    BY <2>2, <2>5, <2>6
  <2> HIDE DEF n
  <2> QED BY <1>3, <2>1, <2>4, <2>7, <2>8
<1>6. ASSUME NEW p \in Pixels, ~Covers(r, p)
      PROVE  Drawn(screen, n, data)[p] = screen.back[p]
  <2>1. ~(p[1] - x \in 0..w-1 /\ p[2] - y \in 0..TILE-1)
    BY <1>6, CoversRect
  <2> HIDE DEF At, x, y, w, n
  <2> QED BY <1>3, <2>1
<1> HIDE DEF n
<1>7. Drawn(screen, n, data) = Painted(r, screen.back)
  BY <1>4, <1>5, <1>6 DEF Painted
<1> QED BY <1>7 DEF n

\* The commands of a run repaint the pixels it covers and no other.
Screen(rect, back, front) == [rect |-> rect, back |-> back, front |-> front]
BlockOf(r) == EncodeRun(r[2] * TILE, r[1] * TILE, Wide(r), TILE)

\* Header and data, received one after the other.
LEMMA BlockPaints ==
  ASSUME NEW r \in RunSet, NEW rect, NEW back, NEW front
  PROVE  /\ BlockOf(r) = <<BlockOf(r)[1], BlockOf(r)[2]>>
         /\ Receive(Receive(Screen(rect, back, front), BlockOf(r)[1]), BlockOf(r)[2])
              = Screen(RectOf(r), Painted(r, back), front)
<1> DEFINE w == Wide(r)
           x == r[2] * TILE
           y == r[1] * TILE
           native == Native(x, y, w, TILE)
           n == (w * TILE) \div 2
           solid == \A k \in DOMAIN native : native[k] = native[1]
           data == IF solid THEN <<native[1], native[1]>> ELSE native
           one == Receive(Screen(rect, back, front), BlockOf(r)[1])
           cmd == BlockOf(r)[2]
<1>1. x \in Nat /\ y \in Nat /\ w \in Nat /\ w > 0 /\ TILE \in Nat /\ TILE > 0
  BY RunFits, GeometryAssumption
<1>2. BlockOf(r) = <<RectOf(r), IF solid THEN Repeat(n, <<native[1], native[1]>>)
                                ELSE Blit(n, native)>>
  BY DEF BlockOf, EncodeRun, RectOf
<1>3. w * TILE \in Nat /\ w * TILE > 0
  BY <1>1
<1>4. /\ DOMAIN native = 1..w*TILE /\ Len(native) = w * TILE
      /\ \A k \in 1..w*TILE :
           native[k] = pixels[<<x + ((k - 1) % w), y + ((k - 1) \div w)>>]
  <2> DEFINE m == w * TILE
  <2>1. m \in Nat
    BY <1>3
  <2>2. native = [k \in 1..m |-> pixels[<<x + ((k - 1) % w), y + ((k - 1) \div w)>>]]
    BY DEF Native
  <2> HIDE DEF native, m, x, y, w
  <2>3. DOMAIN native = 1..m /\ Len(native) = m
    BY <2>1, <2>2
  <2> QED BY <2>2, <2>3 DEF m
<1>5. cmd.op \in {"repeat", "blit"} /\ cmd.n = n /\ cmd.data = data
  BY <1>2 DEF Repeat, Blit
<1>6. one = Screen(RectOf(r), back, front)
  BY <1>2 DEF Receive, Screen, RectOf, Header
<1> HIDE DEF native, n, one, cmd, x, y, w
<1>7. ASSUME NEW k \in 0..w*TILE-1
      PROVE  data[(k % Len(data)) + 1] = pixels[<<x + (k % w), y + (k \div w)>>]
  <2> DEFINE m == w * TILE
  <2>1. m \in Nat /\ m > 0 /\ k \in 0..m-1
    BY <1>3
  <2>2. DOMAIN native = 1..m /\ Len(native) = m
    BY <1>4
  <2>3. k + 1 \in 1..m /\ (k + 1) - 1 = k /\ k \in Nat
    BY <2>1
  <2>4. native[k + 1] = pixels[<<x + (k % w), y + (k \div w)>>]
    BY <1>4, <2>3
  <2> HIDE DEF m
  <2>5. CASE solid
    <3>1. data = <<native[1], native[1]>> /\ native[k + 1] = native[1]
      BY <2>2, <2>3, <2>5
    <3>2. Len(data) = 2 /\ data[1] = native[1] /\ data[2] = native[1]
      BY <3>1
    <3>3. k % 2 = 0 \/ k % 2 = 1
      BY <2>3
    <3> HIDE DEF data
    <3> QED BY <2>4, <3>1, <3>2, <3>3
  <2>6. CASE ~solid
    <3>1. data = native
      BY <2>6
    <3>2. k % m = k
      <4>1. 0 * m + k = k
        BY <2>1, <2>3
      <4> QED BY <2>1, <4>1, QuotientOf
    <3> QED BY <2>2, <2>4, <3>1, <3>2
  <2> QED BY <2>5, <2>6
<1> HIDE DEF data, solid
<1>8. one.rect = RectOf(r) /\ one.back = back
  BY <1>6 DEF Screen
<1>9. Drawn(one, n, data) = Painted(r, back)
  BY <1>7, <1>8, DrawnRun DEF n, x, y, w
<1>10. Receive(one, cmd) = [one EXCEPT !.back = Painted(r, back)]
  BY <1>5, <1>9 DEF Receive
<1>11. Receive(one, cmd) = Screen(RectOf(r), Painted(r, back), front)
  BY <1>6, <1>10 DEF Screen
<1>12. BlockOf(r) = <<BlockOf(r)[1], BlockOf(r)[2]>>
  BY <1>2
<1> QED BY <1>11, <1>12 DEF one, cmd

\* The states the decoder goes through, command by command.
Decodes(h, cmds) ==
  /\ h[0] = Screen(Header(0, 0, 0, 0), shown, shown)
  /\ \A i \in 1..Len(cmds) : h[i] = Receive(h[i - 1], cmds[i])
  /\ Shown(cmds) = h[Len(cmds)].front

\* The maximum of a set that holds its bound.
LEMMA Greatest ==
  ASSUME NEW k \in Nat, NEW t \in SUBSET (1..k), k \in t
  PROVE  Max(t) = k
<1>1. \A y \in t : y \in Nat /\ k >= y
  OBVIOUS
<1>2. \A x \in t : (\A y \in t : x >= y) => x = k
  BY <1>1
<1> QED BY <1>1, <1>2 DEF Max

\* The maximum of a set of numbers up to k.
LEMMA GreatestIn ==
  ASSUME NEW k \in Nat, NEW t \in SUBSET (1..k), t # {}
  PROVE  Max(t) \in t /\ \A y \in t : Max(t) >= y
<1> DEFINE T == {k - y : y \in t}
<1>1. T \in SUBSET Nat /\ T # {}
  <2>1. \A y \in t : y \in 1..k /\ k - y \in Nat
    OBVIOUS
  <2> QED BY <2>1
<1>2. PICK m \in T : \A z \in T : m <= z
  BY <1>1, Smallest
<1>3. PICK x \in t : m = k - x
  BY <1>2
<1>4. \A y \in t : x >= y
  <2> SUFFICES ASSUME NEW y \in t PROVE x >= y
    OBVIOUS
  <2>1. k - x <= k - y
    BY <1>2, <1>3
  <2> QED BY <2>1
<1>5. \E z \in t : \A y \in t : z >= y
  BY <1>3, <1>4
<1> QED BY <1>5 DEF Max

\* Those states exist: the fold takes off the last command first.
LEMMA Decoded ==
  ASSUME NEW cmds, Len(cmds) \in Nat, DOMAIN cmds = 1..Len(cmds)
  PROVE  \E h : Decodes(h, cmds)
<1> DEFINE n == Len(cmds)
           start == Screen(Header(0, 0, 0, 0), shown, shown)
           Step(f, t) == IF t = {} THEN start ELSE Receive(f[t \ {Max(t)}], cmds[Max(t)])
           Is(f, k) == f = [t \in SUBSET (1..k) |-> Step(f, t)]
           F == CHOOSE f : Is(f, n)
           Q == {k \in 0..n : \E f : Is(f, k)}
<1>1. n \in Nat /\ 0 \in 0..n /\ n \in 0..n
  OBVIOUS
<1>2. Shown(cmds) = F[1..n].front
  BY DEF Shown, FoldLeft, MapThenFoldSet, Screen
<1> HIDE DEF n, start
<1>3. 0 \in Q
  <2> DEFINE f == [t \in SUBSET (1..0) |-> start]
  <2>1. \A t \in SUBSET (1..0) : t = {}
    OBVIOUS
  <2>2. Is(f, 0)
    BY <2>1
  <2> HIDE DEF f, Is
  <2> QED BY <1>1, <2>2
<1>4. ASSUME NEW k \in 0..n, k \in Q, k < n
      PROVE  k + 1 \in Q
  <2>1. PICK f : Is(f, k)
    BY <1>4
  <2> DEFINE m == k + 1
             e == [t \in SUBSET (1..m) |-> IF m \in t THEN Step(f, t) ELSE f[t]]
  <2>2. ASSUME NEW t \in SUBSET (1..m), m \in t
        PROVE  /\ Max(t) = m /\ t # {}
               /\ t \ {m} \in SUBSET (1..k) /\ t \ {m} \in SUBSET (1..m)
               /\ m \notin t \ {m}
    BY <2>2, Greatest
  <2>3. ASSUME NEW t \in SUBSET (1..m), m \notin t
        PROVE  /\ t \in SUBSET (1..k)
               /\ t # {} => /\ Max(t) \in t /\ t \ {Max(t)} \in SUBSET (1..m)
                            /\ t \ {Max(t)} \in SUBSET (1..k)
                            /\ m \notin t \ {Max(t)}
    <3>1. t \in SUBSET (1..k)
      BY <2>3
    <3>2. k \in Nat
      BY <1>1
    <3>3. t # {} => Max(t) \in t
      BY <3>1, <3>2, GreatestIn
    <3> QED BY <2>3, <3>1, <3>3
  <2>4. ASSUME NEW t \in SUBSET (1..m)
        PROVE  e[t] = Step(e, t)
    <3>1. CASE m \in t
      BY <2>2, <3>1
    <3>2. CASE m \notin t
      <4>1. f[t] = Step(f, t)
        BY <2>1, <2>3, <3>2
      <4> QED BY <2>3, <3>2, <4>1
    <3> QED BY <3>1, <3>2
  <2>5. Is(e, m)
    <3> HIDE DEF Step
    <3> QED BY <2>4
  <2>6. m \in 0..n
    BY <1>1, <1>4
  <2> HIDE DEF e, Is
  <2> QED BY <2>5, <2>6
<1>5. Is(F, n)
  <2>1. n \in Q
    <3> HIDE DEF Q
    <3>1. \A i \in 0..n : i \in Q
      BY <1>1, <1>3, <1>4, Climb
    <3> QED BY <1>1, <3>1
  <2> HIDE DEF Is
  <2> QED BY <2>1
<1> HIDE DEF F
<1> DEFINE h == [i \in 0..n |-> F[1..i]]
<1>6. \A t \in SUBSET (1..n) : F[t] = Step(F, t)
  <2> HIDE DEF Step
  <2> QED BY <1>5
<1>7. h[0] = start
  <2>1. 1..0 = {}
    OBVIOUS
  <2>2. F[{}] = start
    BY <1>6
  <2> QED BY <1>1, <2>1, <2>2
<1>8. ASSUME NEW i \in 1..n
      PROVE  h[i] = Receive(h[i - 1], cmds[i])
  <2>1. /\ 1..i \in SUBSET (1..n) /\ 1..i # {} /\ i \in 1..i /\ i \in Nat
        /\ (1..i) \ {i} = 1..(i - 1) /\ i \in 0..n /\ i - 1 \in 0..n
    <3>1. i \in Nat /\ i > 0 /\ i <= n
      BY <1>1
    <3>2. \A j : j \in (1..i) \ {i} <=> j \in 1..(i - 1)
      BY <3>1
    <3>3. (1..i) \ {i} = 1..(i - 1)
      BY <3>2
    <3>4. 1..i \in SUBSET (1..n) /\ i \in 1..i
      BY <1>1, <3>1
    <3>5. 1..i # {}
      BY <3>4
    <3>6. i \in 0..n /\ i - 1 \in 0..n
      BY <1>1, <3>1
    <3> QED BY <3>1, <3>3, <3>4, <3>5, <3>6
  <2>2. Max(1..i) = i
    BY <2>1, Greatest
  <2>3. F[1..i] = Receive(F[(1..i) \ {i}], cmds[i])
    BY <1>6, <2>1, <2>2
  <2> QED BY <2>1, <2>3
<1>9. h[n] = F[1..n]
  BY <1>1
<1> HIDE DEF h
<1>10. Decodes(h, cmds)
  BY <1>2, <1>7, <1>8, <1>9 DEF Decodes, n, start
<1> QED BY <1>10

\* A dirty tile lies in a maximal run, and all tiles of a run are dirty.
LEMMA DirtyIsCovered ==
  ASSUME NEW p \in Pixels
  PROVE  (\E r \in Range(Runs) : Covers(r, p)) <=> IsTileDirty(ColOf(p), RowOf(p))
<1> DEFINE c == ColOf(p)
           row == RowOf(p)
           Dirty(i) == IsTileDirty(i, row)
<1>1. /\ COLS \in Nat /\ ROWS \in Nat
      /\ c \in 0..COLS-1 /\ row \in 0..ROWS-1 /\ c \in Nat /\ c < COLS
  BY TileOf, GeometryAssumption
<1>2. Range(Runs) =
        {r \in (0..ROWS-1) \X (0..COLS-1) \X (0..COLS-1) :
           /\ r[2] <= r[3]
           /\ \A i \in r[2]..r[3] : IsTileDirty(i, r[1])
           /\ r[2] > 0 => ~IsTileDirty(r[2] - 1, r[1])
           /\ ~IsTileDirty(r[3] + 1, r[1])}
  BY RunsFound DEF RunsAreMaximal
<1>3. ASSUME NEW r \in Range(Runs), Covers(r, p)
      PROVE  Dirty(c)
  BY <1>2, <1>3 DEF Covers
<1>4. ~Dirty(COLS)
  BY <1>1 DEF IsTileDirty, TileBit
<1>5. ASSUME NEW a \in 0..COLS-1, NEW b \in 0..COLS-1, a <= b, c \in a..b,
             \A i \in a..b : Dirty(i), a > 0 => ~Dirty(a - 1), ~Dirty(b + 1)
      PROVE  \E r \in Range(Runs) : Covers(r, p)
  <2> DEFINE r == <<row, a, b>>
  <2>1. r \in Range(Runs)
    BY <1>1, <1>2, <1>5
  <2>2. Covers(r, p)
    BY <1>5 DEF Covers
  <2> QED BY <2>1, <2>2
<1> HIDE DEF c, row, Dirty
<1>6. ASSUME Dirty(c)
      PROVE  \E r \in Range(Runs) : Covers(r, p)
  <2> DEFINE Clean == {k \in c+1..COLS : ~Dirty(k)}
             Start == {k \in 0..c : k = c \/ ~Dirty(c - k - 1)}
  <2>1. Clean \in SUBSET Nat /\ COLS \in Clean
    BY <1>1, <1>4
  <2>2. Start \in SUBSET Nat /\ c \in Start
    BY <1>1
  <2>3. PICK m \in Clean : \A k \in Clean : m <= k
    <3> HIDE DEF Clean
    <3> QED BY <2>1, Smallest
  <2>4. PICK n \in Start : \A k \in Start : n <= k
    <3> HIDE DEF Start
    <3> QED BY <2>2, Smallest
  <2> DEFINE a == c - n
             b == m - 1
  <2>5. /\ m \in c+1..COLS /\ ~Dirty(m) /\ m \in Nat
        /\ n \in 0..c /\ n \in Nat /\ (n = c \/ ~Dirty(c - n - 1))
    BY <1>1, <2>3, <2>4
  <2>6. ASSUME NEW i \in c+1..b
        PROVE  Dirty(i)
    <3>1. i \in c+1..COLS /\ ~(m <= i)
      BY <1>1, <2>5
    <3> QED BY <2>3, <3>1
  <2>7. ASSUME NEW i \in a..c-1
        PROVE  Dirty(i)
    <3> DEFINE k == c - i - 1
    <3>1. k \in 0..c /\ ~(n <= k) /\ c - k - 1 = i
      BY <1>1, <2>5
    <3> QED BY <2>4, <3>1
  <2>8. \A i \in a..b : i = c \/ i \in c+1..b \/ i \in a..c-1
    BY <1>1, <2>5
  <2>9. \A i \in a..b : Dirty(i)
    BY <1>6, <2>6, <2>7, <2>8
  <2>10. /\ a \in 0..COLS-1 /\ b \in 0..COLS-1 /\ a <= b /\ c \in a..b
         /\ b + 1 = m /\ (a > 0 => n # c) /\ a - 1 = c - n - 1
    BY <1>1, <2>5
  <2> HIDE DEF a, b
  <2>11. (a > 0 => ~Dirty(a - 1)) /\ ~Dirty(b + 1)
    BY <2>5, <2>10
  <2> QED BY <1>5, <2>9, <2>10, <2>11
<1> QED BY <1>3, <1>6 DEF Dirty, c, row

\* The runs are rectangles of tiles.
LEMMA RunsTyped ==
  /\ Len(Runs) \in Nat /\ DOMAIN Runs = 1..Len(Runs)
  /\ \A i \in DOMAIN Runs : Runs[i] \in RunSet
<1>1. ROWS \in Nat /\ COLS \in Nat
  BY GeometryAssumption
<1>2. Range(Runs) \subseteq RunSet
  BY RunsFound DEF RunsAreMaximal, RunSet
<1>3. \A i \in DOMAIN Runs : Runs[i] \in RunSet
  BY <1>2 DEF Range
<1>4. Len(Runs) \in Nat /\ DOMAIN Runs = 1..Len(Runs)
  BY RunsFound
<1> QED BY <1>3, <1>4

\* One sequence after the other.
LEMMA Concatenated ==
  ASSUME NEW S, NEW s \in Seq(S), NEW t \in Seq(S)
  PROVE  /\ s \o t \in Seq(S) /\ Len(s \o t) = Len(s) + Len(t)
         /\ Len(s) \in Nat /\ Len(t) \in Nat
         /\ \A i \in 1..Len(s) : (s \o t)[i] = s[i]
         /\ \A i \in 1..Len(t) : (s \o t)[i + Len(s)] = t[i]
<1>1. /\ s \o t \in Seq(S) /\ Len(s \o t) = Len(s) + Len(t)
      /\ Len(s) \in Nat /\ Len(t) \in Nat
  OBVIOUS
<1>2. \A i \in 1..Len(s) : (s \o t)[i] = s[i]
  OBVIOUS
<1>3. \A i \in 1..Len(t) : (s \o t)[i + Len(s)] = t[i]
  OBVIOUS
<1> QED BY <1>1, <1>2, <1>3

\* Two more elements.
LEMMA TwoMore ==
  ASSUME NEW S, NEW s \in Seq(S), NEW t \in Seq(S), Len(t) = 2, NEW n, Len(s) = n
  PROVE  /\ n \in Nat /\ s \o t \in Seq(S) /\ Len(s \o t) = n + 2
         /\ \A i \in 1..n : (s \o t)[i] = s[i]
         /\ (s \o t)[n + 1] = t[1] /\ (s \o t)[n + 2] = t[2]
<1>1. s \o t \in Seq(S) /\ Len(s \o t) = Len(s) + Len(t) /\ Len(s) \in Nat
  BY Concatenated
<1>2. /\ \A i \in 1..Len(s) : (s \o t)[i] = s[i]
      /\ \A i \in 1..Len(t) : (s \o t)[i + Len(s)] = t[i]
  BY Concatenated
<1>3. /\ 1 \in 1..Len(t) /\ 2 \in 1..Len(t)
      /\ 1 + Len(s) = Len(s) + 1 /\ 2 + Len(s) = Len(s) + 2
  BY <1>1
<1>4. (s \o t)[Len(s) + 1] = t[1] /\ (s \o t)[Len(s) + 2] = t[2]
  BY <1>2, <1>3
<1> QED BY <1>1, <1>2, <1>4

\* The commands of a frame: a pair for each run, then flush and end.
LEMMA FrameCommands ==
  LET cmds == EncodedFrame
      n == Len(Runs)
  IN  /\ Len(cmds) = 2 * n + 2 /\ DOMAIN cmds = 1..2*n+2
      /\ \A j \in 1..n : /\ cmds[2 * j - 1] = BlockOf(Runs[j])[1]
                         /\ cmds[2 * j] = BlockOf(Runs[j])[2]
      /\ cmds[2 * n + 1] = FlushCmd /\ cmds[2 * n + 2] = EndCmd
<1> DEFINE n == Len(Runs)
           b == [i \in 1..n |-> BlockOf(Runs[i])]
           C == {BlockOf(r)[1] : r \in RunSet} \cup {BlockOf(r)[2] : r \in RunSet}
                \cup {FlushCmd, EndCmd}
           body == FlattenSeq(b)
           Pairs(s, m) == /\ s \in Seq(C) /\ Len(s) = 2 * m
                          /\ \A j \in 1..m : /\ s[2 * j - 1] = BlockOf(Runs[j])[1]
                                             /\ s[2 * j] = BlockOf(Runs[j])[2]
<1>1. n \in Nat /\ DOMAIN Runs = 1..n /\ \A i \in 1..n : Runs[i] \in RunSet
  BY RunsTyped
<1>2. EncodedFrame = body \o <<FlushCmd, EndCmd>>
  <2>1. \A i \in 1..n :
          LET r == Runs[i] IN
          EncodeRun(r[2] * TILE, r[1] * TILE,
                    Least((r[3] - r[2] + 1) * TILE, W - r[2] * TILE),
                    Least(TILE, H - r[1] * TILE)) = BlockOf(r)
    BY <1>1, RunFits DEF BlockOf, Wide
  <2> QED BY <1>1, <2>1 DEF EncodedFrame
<1>3. ASSUME NEW i \in 1..n
      PROVE  /\ b[i] \in Seq(C) /\ Len(b[i]) = 2
             /\ b[i][1] = BlockOf(Runs[i])[1] /\ b[i][2] = BlockOf(Runs[i])[2]
  <2> DEFINE x == BlockOf(Runs[i])[1]
             y == BlockOf(Runs[i])[2]
  <2>1. BlockOf(Runs[i]) = <<x, y>>
    BY <1>1, BlockPaints
  <2>2. x \in C /\ y \in C
    BY <1>1
  <2>3. b[i] = <<x, y>>
    BY <2>1
  <2> HIDE DEF x, y, C
  <2>4. <<x, y>> \in Seq(C) /\ Len(<<x, y>>) = 2 /\ <<x, y>>[1] = x /\ <<x, y>>[2] = y
    BY <2>2
  <2> HIDE DEF b
  <2> QED BY <2>3, <2>4 DEF x, y
<1>4. Len(b) = n
  BY <1>1
<1> HIDE DEF b, C, n
<1>5. Pairs(body, n)
  <2>1. CASE n = 0
    <3>1. body = b
      BY <1>4, <2>1 DEF FlattenSeq
    <3>2. b = <<>>
      BY <2>1 DEF b
    <3>3. b \in Seq(C) /\ Len(b) = 2 * 0
      BY <3>2
    <3> HIDE DEF body
    <3>4. Len(body) = 2 * n /\ body \in Seq(C) /\ 1..n = {}
      BY <2>1, <3>1, <3>3
    <3> QED BY <3>4
  <2>2. CASE n # 0
    <3>1. n > 0
      BY <1>1, <2>2
    <3>2. PICK f : Flat(f, b)
      BY <1>1, <1>4, <3>1, Flattened
    <3> DEFINE Q == {i \in 0..n : i > 0 => Pairs(f[i], i)}
    <3>3. 0 \in Q
      BY <1>1
    <3>4. ASSUME NEW i \in 0..n, i \in Q, i < n
          PROVE  i + 1 \in Q
      <4> DEFINE m == i + 1
      <4>1. m \in 1..n /\ m \in 0..n /\ (i # 0 => m \in 2..n /\ m - 1 = i /\ i > 0)
        BY <1>1, <3>4
      <4>2. Pairs(f[m], m)
        <5>1. CASE i = 0
          <6>1. f[1] = b[1] /\ m = 1
            BY <3>2, <5>1 DEF Flat
          <6>2. 1 \in 1..n
            BY <4>1, <6>1
          <6>3. \A j \in 1..1 : j = 1
            OBVIOUS
          <6>4. /\ b[1] \in Seq(C) /\ Len(b[1]) = 2
                /\ b[1][1] = BlockOf(Runs[1])[1] /\ b[1][2] = BlockOf(Runs[1])[2]
            BY <1>3, <6>2
          <6>5. Pairs(b[1], 1)
            BY <6>3, <6>4
          <6> HIDE DEF Pairs
          <6> QED BY <6>1, <6>5
        <5>2. CASE i # 0
          <6> DEFINE s == f[i]
                     t == b[m]
          <6>1. f[m] = s \o t
            BY <1>4, <3>2, <4>1, <5>2 DEF Flat
          <6>2. Pairs(s, i) /\ i \in Nat
            BY <3>4, <4>1, <5>2
          <6>3. /\ t \in Seq(C) /\ Len(t) = 2
                /\ t[1] = BlockOf(Runs[m])[1] /\ t[2] = BlockOf(Runs[m])[2]
            BY <1>3, <4>1
          <6> HIDE DEF s, t
          <6>a. Len(s) = 2 * i /\ 2 * i + 2 = 2 * m /\ 2 * i + 1 = 2 * m - 1
            BY <6>2
          <6>b. /\ s \o t \in Seq(C) /\ Len(s \o t) = 2 * i + 2
                /\ \A k \in 1..2*i : (s \o t)[k] = s[k]
                /\ (s \o t)[2 * i + 1] = t[1] /\ (s \o t)[2 * i + 2] = t[2]
            <7> DEFINE k == 2 * i
            <7>1. Len(s) = k /\ s \in Seq(C) /\ t \in Seq(C) /\ Len(t) = 2
              BY <6>2, <6>3
            <7> HIDE DEF k, Pairs
            <7>2. /\ s \o t \in Seq(C) /\ Len(s \o t) = k + 2
                  /\ \A l \in 1..k : (s \o t)[l] = s[l]
                  /\ (s \o t)[k + 1] = t[1] /\ (s \o t)[k + 2] = t[2]
              BY <7>1, TwoMore
            <7> QED BY <7>2 DEF k
          <6>4. s \o t \in Seq(C) /\ Len(s \o t) = 2 * m
            BY <6>a, <6>b
          <6>c. \A j \in 1..i : 2 * j - 1 \in 1..2*i /\ 2 * j \in 1..2*i
            BY <6>2
          <6>5. \A j \in 1..i : /\ (s \o t)[2 * j - 1] = s[2 * j - 1]
                                /\ (s \o t)[2 * j] = s[2 * j]
            BY <6>b, <6>c
          <6>6. (s \o t)[2 * m - 1] = t[1] /\ (s \o t)[2 * m] = t[2]
            BY <6>a, <6>b
          <6>7. \A j \in 1..m : j \in 1..i \/ j = m
            BY <6>2
          <6> QED BY <6>1, <6>2, <6>3, <6>4, <6>5, <6>6, <6>7
        <5> QED BY <5>1, <5>2
      <4> HIDE DEF Pairs
      <4> QED BY <4>1, <4>2
    <3>5. n \in Q
      <4> HIDE DEF Q
      <4>1. \A i \in 0..n : i \in Q
        BY <1>1, <3>3, <3>4, Climb
      <4> QED BY <1>1, <4>1
    <3>6. body = f[n]
      BY <1>4, <3>2 DEF Flat
    <3> HIDE DEF Pairs, body
    <3> QED BY <3>1, <3>5, <3>6
  <2> QED BY <2>1, <2>2
<1> DEFINE e == <<FlushCmd, EndCmd>>
<1>6. e \in Seq(C) /\ Len(e) = 2 /\ e[1] = FlushCmd /\ e[2] = EndCmd
  BY DEF C
<1> HIDE DEF e, body
<1> DEFINE s == body \o e
<1>7. /\ s \in Seq(C) /\ Len(s) = 2 * n + 2
      /\ \A k \in 1..2*n : s[k] = body[k]
      /\ s[2 * n + 1] = e[1] /\ s[2 * n + 2] = e[2]
  BY <1>1, <1>5, <1>6, TwoMore
<1>8. \A j \in 1..n : s[2 * j - 1] = body[2 * j - 1] /\ s[2 * j] = body[2 * j]
  <2>1. \A j \in 1..n : 2 * j - 1 \in 1..2*n /\ 2 * j \in 1..2*n
    BY <1>1
  <2> QED BY <1>7, <2>1
<1>10. EncodedFrame = s
  BY <1>2 DEF e
<1> HIDE DEF s
<1>11. DOMAIN s = 1..2*n+2
  BY <1>7
<1> QED BY <1>5, <1>6, <1>7, <1>8, <1>10, <1>11 DEF n

\* The pixels of the first j runs, on those that were shown.
After(j) ==
  [p \in Pixels |-> IF \E i \in 1..j : Covers(Runs[i], p) THEN pixels[p] ELSE shown[p]]

\* Decoded, the commands of a frame repaint the pixels of the dirty tiles and
\* no other.
THEOREM FrameDecoded ==
  ASSUME shown \in [Pixels -> Colors]
  PROVE  Shown(EncodedFrame) =
           [p \in Pixels |-> IF IsTileDirty(ColOf(p), RowOf(p)) THEN pixels[p]
                             ELSE shown[p]]
<1> DEFINE n == Len(Runs)
           cmds == EncodedFrame
<1>1. n \in Nat /\ DOMAIN Runs = 1..n /\ \A i \in 1..n : Runs[i] \in RunSet
  BY RunsTyped
<1>2. /\ Len(cmds) = 2 * n + 2 /\ DOMAIN cmds = 1..2*n+2
      /\ \A j \in 1..n : /\ cmds[2 * j - 1] = BlockOf(Runs[j])[1]
                         /\ cmds[2 * j] = BlockOf(Runs[j])[2]
      /\ cmds[2 * n + 1] = FlushCmd /\ cmds[2 * n + 2] = EndCmd
  BY FrameCommands
<1> HIDE DEF n, cmds
<1>3. PICK h : Decodes(h, cmds)
  <2>1. 2 * n + 2 \in Nat
    BY <1>1
  <2> QED BY <1>2, <2>1, Decoded
<1> DEFINE Q == {j \in 0..n : \E rect : h[2 * j] = Screen(rect, After(j), shown)}
<1>4. 0 \in Q
  <2>1. After(0) = shown
    BY DEF After
  <2>2. h[2 * 0] = Screen(Header(0, 0, 0, 0), shown, shown)
    BY <1>3 DEF Decodes
  <2> QED BY <1>1, <2>1, <2>2
<1>5. ASSUME NEW j \in 0..n, j \in Q, j < n
      PROVE  j + 1 \in Q
  <2> DEFINE m == j + 1
             r == Runs[m]
  <2>1. /\ m \in 1..n /\ m \in 0..n /\ r \in RunSet
        /\ 2 * m - 1 \in 1..2*n+2 /\ 2 * m \in 1..2*n+2
        /\ (2 * m - 1) - 1 = 2 * j
    BY <1>1, <1>5
  <2>2. PICK rect : h[2 * j] = Screen(rect, After(j), shown)
    BY <1>5
  <2>3. h[2 * m - 1] = Receive(h[2 * j], BlockOf(r)[1])
    BY <1>2, <1>3, <2>1 DEF Decodes
  <2>4. h[2 * m] = Receive(h[2 * m - 1], BlockOf(r)[2])
    BY <1>2, <1>3, <2>1 DEF Decodes
  <2>5. h[2 * m] = Screen(RectOf(r), Painted(r, After(j)), shown)
    BY <2>1, <2>2, <2>3, <2>4, BlockPaints
  <2>6. Painted(r, After(j)) = After(m)
    <3>1. \A i \in 1..m : i \in 1..j \/ i = m
      BY <2>1
    <3>2. 1..j \subseteq 1..m /\ m \in 1..m
      BY <2>1
    <3>3. ASSUME NEW p \in Pixels
          PROVE  (Covers(r, p) \/ \E i \in 1..j : Covers(Runs[i], p))
                   <=> \E i \in 1..m : Covers(Runs[i], p)
      BY <3>1, <3>2
    <3> HIDE DEF m, r
    <3> QED BY <3>3 DEF Painted, After
  <2> HIDE DEF m
  <2>7. m \in Q
    BY <2>1, <2>5, <2>6
  <2> QED BY <2>7 DEF m
<1>6. n \in Q
  <2> HIDE DEF Q
  <2>1. \A i \in 0..n : i \in Q
    BY <1>1, <1>4, <1>5, Climb
  <2> QED BY <1>1, <2>1
<1>7. PICK rect : h[2 * n] = Screen(rect, After(n), shown)
  BY <1>6
<1>8. /\ 2 * n + 1 \in 1..2*n+2 /\ 2 * n + 2 \in 1..2*n+2
      /\ (2 * n + 1) - 1 = 2 * n /\ (2 * n + 2) - 1 = 2 * n + 1
  BY <1>1
<1>9. h[2 * n + 1] = Receive(h[2 * n], FlushCmd)
  BY <1>2, <1>3, <1>8 DEF Decodes
<1>10. h[2 * n + 2] = Receive(h[2 * n + 1], EndCmd)
  BY <1>2, <1>3, <1>8 DEF Decodes
<1>11. h[2 * n + 1] = Screen(rect, After(n), After(n))
  BY <1>7, <1>9 DEF Receive, FlushCmd, Screen
<1>12. h[2 * n + 2] = h[2 * n + 1]
  BY <1>10 DEF Receive, EndCmd
<1>13. Shown(cmds) = After(n)
  BY <1>2, <1>3, <1>11, <1>12 DEF Decodes, Screen
<1>14. ASSUME NEW p \in Pixels
       PROVE  (\E i \in 1..n : Covers(Runs[i], p)) <=> IsTileDirty(ColOf(p), RowOf(p))
  <2>1. (\E i \in 1..n : Covers(Runs[i], p)) <=> \E r \in Range(Runs) : Covers(r, p)
    BY <1>1 DEF Range
  <2> QED BY <2>1, DirtyIsCovered
<1>15. After(n) = [p \in Pixels |-> IF IsTileDirty(ColOf(p), RowOf(p)) THEN pixels[p]
                                    ELSE shown[p]]
  BY <1>14 DEF After
<1> QED BY <1>13, <1>15 DEF cmds

\* Delivery clears the bits of tiles that are all shown.
LEMMA EncodeKeeps ==
  ASSUME FrameIInv, EncodeAndShow
  PROVE  FrameIInv'
<1>1. shown' = [p \in Pixels |-> IF IsTileDirty(ColOf(p), RowOf(p)) THEN pixels[p]
                                 ELSE shown[p]]
  BY FrameDecoded DEF FrameIInv, FrameTypeOK, EncodeAndShow
<1>2. \A p \in Pixels : shown'[p] = pixels[p]
  BY <1>1 DEF FrameIInv, StalePixelIsDirty, ColOf, RowOf
<1>3. shown' \in [Pixels -> Colors]
  BY <1>1 DEF FrameIInv, FrameTypeOK
<1>4. FrameTypeOK'
  BY <1>3 DEF FrameIInv, FrameTypeOK, EncodeAndShow
<1>5. StalePixelIsDirty'
  BY <1>2 DEF StalePixelIsDirty, EncodeAndShow
<1> QED BY <1>4, <1>5 DEF FrameIInv

\* The initial state: a black screen, shown as drawn.
LEMMA InitFrame == FrameInit => FrameIInv
<1> SUFFICES ASSUME FrameInit PROVE FrameIInv
  OBVIOUS
<1>1. FrameTypeOK
  BY GeometryAssumption DEF FrameInit, FrameTypeOK
<1>2. StalePixelIsDirty
  BY DEF FrameInit, StalePixelIsDirty
<1> QED BY <1>1, <1>2 DEF FrameIInv

\* The frame's invariant holds in every reachable state.
THEOREM FrameInvariant == FrameSpec => []FrameIInv
<1>1. FrameIInv /\ [FrameNext]_frameVars => FrameIInv'
  <2> SUFFICES ASSUME FrameIInv, [FrameNext]_frameVars PROVE FrameIInv'
    OBVIOUS
  <2>1. CASE UNCHANGED frameVars
    BY <2>1 DEF frameVars, FrameIInv, FrameTypeOK, StalePixelIsDirty, IsTileDirty
  <2> QED BY <2>1, ClearKeeps, SetPixelKeeps, FillRectKeeps, TouchKeeps, EncodeKeeps
          DEF FrameNext
<1> QED BY InitFrame, <1>1, PTL DEF FrameSpec

\* Type correctness of the frame.
THEOREM FrameTyped == FrameSpec => []FrameTypeOK
<1>1. FrameIInv => FrameTypeOK
  BY DEF FrameIInv
<1> QED BY FrameInvariant, <1>1, PTL

\* A pixel that the panel does not show as drawn is in a dirty tile.
THEOREM StaleIsDirty == FrameSpec => []StalePixelIsDirty
<1>1. FrameIInv => StalePixelIsDirty
  BY DEF FrameIInv
<1> QED BY FrameInvariant, <1>1, PTL

\* runs() returns exactly the maximal runs, once each, in every state.
THEOREM RunsMaximal == FrameSpec => []RunsAreMaximal
BY RunsFound, PTL
=============================================================================
