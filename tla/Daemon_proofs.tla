---------------------------- MODULE Daemon_proofs ----------------------------
(***************************************************************************)
(* Proofs about Daemon, for any clients, queries, facets, screen heights,  *)
(* channel capacities and plugin bundles.                                  *)
(***************************************************************************)
EXTENDS Daemon, TLAPS

\* What is proved about the plugin sessions, with the pump as the only caller.
Sessions == INSTANCE PluginSession_proofs
  WITH Callers <- {"pump"}, MaxCalls <- MaxLoads, serving <- hostServing

Stages == Ops \cup {"idle", "left", "right", "calling", "stopped", "moved", "ended"}

\* TypeOK, and what the updates of task rest on.
Typed == TypeOK /\ task \in [Tasks -> Stages]

\* The browse mutex: its holder is the task that repaints.
LockHeld == \A t \in Tasks : lock = t <=> task[t] \in {"left", "right"}

\* The half-way point of a repaint.
LeftPainted == \A t \in Tasks : task[t] = "right" => left = RenderLeft(browse)

\* The cursor is on a row, or at the top of no rows.
CursorOnRow == browse.cursor < browse.rows \/ browse.cursor = 0

\* The pump serves a client from taking its operation to answering it.
Working == Ops \cup {"left", "right", "calling"}

PumpServes ==
  /\ serving # {} <=> task["pump"] \in Working
  /\ \A c, d \in serving : c = d

\* The clients that wait are those in the channel or with the pump, and each
\* is there once.
Waiters ==
  /\ \A c \in Clients :
       conn[c] = "waiting" <=> c \in serving \/ \E i \in DOMAIN ops : ops[i] = c
  /\ \A i \in DOMAIN ops : ops[i] \notin serving
  /\ \A i, j \in DOMAIN ops : ops[i] = ops[j] => i = j

IInv ==
  /\ Typed
  /\ LockHeld
  /\ LeftPainted
  /\ CursorOnRow
  /\ ScreensCurrent
  /\ PumpServes
  /\ Waiters
----------------------------------------------------------------------------
\* The screens

\* What render_left draws.
LEMMA LeftType ==
  ASSUME NEW state \in View
  PROVE  /\ RenderLeft(state).lit \subseteq 0..Facets-1
         /\ RenderLeft(state).count \in Results
BY DEF RenderLeft, View

\* What render_right draws.
LEMMA RightType ==
  ASSUME NEW state \in View
  PROVE  RenderRight(state).lit \cup RenderRight(state).caption \subseteq Nat
BY DaemonAssumption DEF RenderRight, View

\* render_right draws the row at the cursor, highlights it alone and names it:
\* the window follows the cursor for every height of the screen.
LEMMA WindowHoldsCursor ==
  ASSUME NEW state \in View, state.cursor < state.rows
  PROVE  /\ RenderRight(state).lit = {state.cursor}
         /\ RenderRight(state).caption = {state.cursor}
<1>1. /\ state.cursor \in Nat /\ state.rows \in Nat
      /\ state.cursor \in 0..state.rows-1
  <2>1. state.cursor \in Nat /\ state.rows \in Nat
    BY DaemonAssumption DEF View
  <2> QED BY <2>1
<1>2. VisibleRows \div 2 \in Nat /\ VisibleRows \div 2 < VisibleRows
  BY DaemonAssumption
<1>3. FirstRow(state) <= state.cursor /\ state.cursor < FirstRow(state) + VisibleRows
  BY <1>1, <1>2, DaemonAssumption DEF FirstRow
<1> QED BY <1>1, <1>3 DEF RenderRight

\* At first both screens are drawn and no client waits.
LEMMA InitIInv == Init => IInv
<1> SUFFICES ASSUME Init PROVE IInv
  OBVIOUS
<1> USE DaemonAssumption DEF Init
<1>1. browse \in View /\ CursorOnRow
  BY DEF View, CursorOnRow
<1>2. <<>> \in Seq(Clients) /\ Len(<<>>) = 0 /\ DOMAIN <<>> = {}
  OBVIOUS
<1>3. TypeOK
  <2>1. /\ left.lit \subseteq 0..Facets-1 /\ left.count \in Results
        /\ right.lit \cup right.caption \subseteq Nat
    BY <1>1, LeftType, RightType
  <2>2. /\ Len(ops) <= OpCap /\ loads \in 0..MaxLoads
    BY <1>2
  <2>3. /\ lock \in Tasks \cup {"none"}
        /\ task["pump"] \in Ops \cup {"idle", "left", "right", "calling", "stopped"}
        /\ task["nav"] \in {"idle", "moved", "left", "right"}
        /\ task["scan"] \in {"browse", "left", "right", "ended"}
    BY DEF Tasks
  <2> QED BY <1>1, <1>2, <2>1, <2>2, <2>3 DEF TypeOK
<1>4. task \in [Tasks -> Stages]
  BY DEF Stages, Ops
<1>5. LockHeld /\ LeftPainted
  BY DEF LockHeld, LeftPainted, Tasks
<1>6. ScreensCurrent
  BY DEF ScreensCurrent
<1>7. PumpServes /\ Waiters
  BY <1>2 DEF PumpServes, Waiters, Working, Ops, Tasks
<1> QED BY <1>1, <1>3, <1>4, <1>5, <1>6, <1>7 DEF IInv, Typed

----------------------------------------------------------------------------
\* The clients and the pump

\* A step that leaves the view, the lock and the screens, and takes no task to
\* or from a repaint.
LEMMA ScreensIInv ==
  ASSUME IInv, UNCHANGED screenVars,
         task' \in [Tasks -> Stages],
         \A t \in Tasks : task'[t] = task[t]
           \/ /\ task[t] \notin {"left", "right", "moved"}
              /\ task'[t] \notin {"left", "right", "moved"}
  PROVE  LockHeld' /\ LeftPainted' /\ CursorOnRow' /\ ScreensCurrent'
BY DEF IInv, screenVars, LockHeld, LeftPainted, CursorOnRow, ScreensCurrent,
       Settled, Tasks

\* A client is about to send.
LEMMA ReadLineIInv ==
  ASSUME IInv, NEW c \in Clients, ReadLine(c)
  PROVE  IInv'
<1> USE DEF IInv, Typed
<1>1. /\ UNCHANGED screenVars /\ UNCHANGED <<task, loads, ops, serving, signal>>
      /\ conn[c] = "reading" /\ conn' = [conn EXCEPT ![c] = "sending"]
  BY DEF ReadLine, pumpVars
<1>2. TypeOK'
  BY <1>1 DEF TypeOK, screenVars
<1>3. LockHeld' /\ LeftPainted' /\ CursorOnRow' /\ ScreensCurrent'
  BY <1>1, ScreensIInv
<1>4. PumpServes'
  BY <1>1 DEF PumpServes
<1>5. Waiters'
  BY <1>1 DEF Waiters, TypeOK
<1> QED BY <1>1, <1>2, <1>3, <1>4, <1>5

\* A client's operation enters the channel and the client waits.
LEMMA EnqueueIInv ==
  ASSUME IInv, NEW c \in Clients, Enqueue(c)
  PROVE  IInv'
<1> USE DEF IInv, Typed
<1>1. /\ UNCHANGED screenVars /\ UNCHANGED <<task, loads, serving, signal>>
      /\ conn[c] = "sending" /\ conn' = [conn EXCEPT ![c] = "waiting"]
      /\ ops' = Append(ops, c) /\ Len(ops) < OpCap
      /\ ops \in Seq(Clients)
  BY DEF Enqueue, TypeOK
<1>2. /\ ops' \in Seq(Clients) /\ Len(ops') = Len(ops) + 1 /\ Len(ops) \in Nat
      /\ \A i \in DOMAIN ops : i \in DOMAIN ops' /\ ops'[i] = ops[i]
      /\ Len(ops) + 1 \in DOMAIN ops' /\ ops'[Len(ops) + 1] = c
      /\ \A i \in DOMAIN ops' : i \in DOMAIN ops \/ i = Len(ops) + 1
  BY <1>1, Sessions!AppendFacts, DaemonAssumption
<1>3. TypeOK'
  <2>1. Len(ops') <= OpCap
    BY <1>1, <1>2, DaemonAssumption
  <2> QED BY <1>1, <1>2, <2>1 DEF TypeOK, screenVars
<1>4. LockHeld' /\ LeftPainted' /\ CursorOnRow' /\ ScreensCurrent'
  BY <1>1, ScreensIInv
<1>5. PumpServes'
  BY <1>1 DEF PumpServes
<1>6. Waiters'
  <2>1. c \notin serving /\ \A i \in DOMAIN ops : ops[i] # c
    BY <1>1 DEF Waiters
  <2>2. conn'[c] = "waiting" /\ \A d \in Clients : d # c => conn'[d] = conn[d]
    BY <1>1 DEF TypeOK
  <2>3. \A i \in DOMAIN ops' : ops'[i] \notin serving
    BY <1>2, <2>1 DEF Waiters
  <2>4. \A i, j \in DOMAIN ops' : ops'[i] = ops'[j] => i = j
    BY <1>2, <2>1 DEF Waiters
  <2>5. \A d \in Clients :
          conn'[d] = "waiting" <=> d \in serving \/ \E i \in DOMAIN ops' : ops'[i] = d
    BY <1>2, <2>1, <2>2 DEF Waiters
  <2> QED BY <1>1, <2>3, <2>4, <2>5 DEF Waiters
<1> QED BY <1>1, <1>3, <1>4, <1>5, <1>6


\* The pump takes the operation that waited longest.
LEMMA TakeOpIInv ==
  ASSUME IInv, TakeOp
  PROVE  IInv'
<1> USE DEF IInv, Typed
<1>1. /\ UNCHANGED screenVars /\ UNCHANGED <<conn, signal>>
      /\ task["pump"] = "idle" /\ ops \in Seq(Clients) /\ ops # <<>>
      /\ serving' = {Head(ops)} /\ ops' = Tail(ops)
      /\ loads' \in 0..MaxLoads
  BY DaemonAssumption DEF TakeOp, TypeOK
<1> PICK op \in Ops : task' = [task EXCEPT !["pump"] = op]
  BY DEF TakeOp
<1>2. /\ ops' \in Seq(Clients) /\ Head(ops) \in Clients /\ Len(ops') = Len(ops) - 1
      /\ 1 \in DOMAIN ops /\ Head(ops) = ops[1]
      /\ \A i \in DOMAIN ops' :
           i + 1 \in DOMAIN ops /\ i + 1 # 1 /\ ops'[i] = ops[i + 1]
      /\ \A i \in DOMAIN ops :
           i = 1 \/ (i - 1 \in DOMAIN ops' /\ ops'[i - 1] = ops[i])
      /\ \A i, j \in DOMAIN ops' : i + 1 = j + 1 => i = j
  BY <1>1, Sessions!TailFacts, DaemonAssumption
<1>3. /\ task'["pump"] = op /\ task'["nav"] = task["nav"] /\ task'["scan"] = task["scan"]
      /\ task' \in [Tasks -> Stages]
  BY DEF Tasks, Stages
<1>4. serving = {}
  BY <1>1 DEF PumpServes, Working, Ops
<1>5. TypeOK'
  <2>1. Len(ops') <= OpCap
    BY <1>1, <1>2, DaemonAssumption DEF TypeOK
  <2> QED BY <1>1, <1>2, <1>3, <2>1 DEF TypeOK, screenVars
<1>6. LockHeld' /\ LeftPainted' /\ CursorOnRow' /\ ScreensCurrent'
  <2>1. \A t \in Tasks : task'[t] = task[t]
           \/ /\ task[t] \notin {"left", "right", "moved"}
              /\ task'[t] \notin {"left", "right", "moved"}
    BY <1>1, <1>3 DEF Tasks, Ops
  <2> QED BY <1>1, <1>3, <2>1, ScreensIInv
<1>7. PumpServes'
  BY <1>1, <1>3 DEF PumpServes, Working
<1>8. Waiters'
  <2>1. ASSUME NEW i \in DOMAIN ops'
        PROVE  ops'[i] # Head(ops)
    <3>1. i + 1 \in DOMAIN ops /\ i + 1 # 1 /\ ops'[i] = ops[i + 1]
      BY <1>2
    <3>2. 1 \in DOMAIN ops /\ ops[1] = Head(ops)
      BY <1>2
    <3> QED BY <3>1, <3>2 DEF Waiters
  <2>2. \A i, j \in DOMAIN ops' : ops'[i] = ops'[j] => i = j
    BY <1>2 DEF Waiters
  <2>3. ASSUME NEW c \in Clients
        PROVE  (\E i \in DOMAIN ops : ops[i] = c)
                 <=> c = Head(ops) \/ \E i \in DOMAIN ops' : ops'[i] = c
    <3>1. \A i \in DOMAIN ops : ops[i] = c => i = 1 \/ \E j \in DOMAIN ops' : ops'[j] = c
      BY <1>2
    <3>2. \A i \in DOMAIN ops' : ops'[i] = c => \E j \in DOMAIN ops : ops[j] = c
      BY <1>2
    <3> QED BY <1>2, <3>1, <3>2
  <2> QED BY <1>1, <1>4, <2>1, <2>2, <2>3 DEF Waiters
<1> QED BY <1>3, <1>5, <1>6, <1>7, <1>8

\* An answer to the client that is served: it reads on, the pump is idle.
LEMMA AnswerFacts ==
  ASSUME IInv, Answer, UNCHANGED ops
  PROVE  /\ conn' \in [Clients -> {"reading", "sending", "waiting"}]
         /\ task' \in [Tasks -> Stages]
         /\ task'["pump"] = "idle" /\ task'["nav"] = task["nav"] /\ task'["scan"] = task["scan"]
         /\ PumpServes' /\ Waiters'
<1> USE DEF IInv, Typed
<1> PICK c \in serving :
      /\ conn' = [conn EXCEPT ![c] = "reading"]
      /\ task' = [task EXCEPT !["pump"] = "idle"] /\ serving' = {}
  BY DEF Answer
<1>1. c \in Clients /\ serving = {c}
  BY DEF TypeOK, PumpServes
<1>2. conn' \in [Clients -> {"reading", "sending", "waiting"}]
  BY DEF TypeOK
<1>3. /\ task' \in [Tasks -> Stages]
      /\ task'["pump"] = "idle" /\ task'["nav"] = task["nav"] /\ task'["scan"] = task["scan"]
  BY DEF Tasks, Stages
<1>4. PumpServes'
  BY <1>3 DEF PumpServes, Working, Ops
<1>5. Waiters'
  <2>1. conn'[c] = "reading" /\ \A d \in Clients : d # c => conn'[d] = conn[d]
    BY <1>1 DEF TypeOK
  <2> QED BY <1>1, <2>1 DEF Waiters
<1> QED BY <1>2, <1>3, <1>4, <1>5

\* An operation ends with an answer, without the screens.
LEMMA AnswersIInv ==
  ASSUME IInv,
         \/ Status \/ ScanLibraries \/ BrowseFails \/ LoadRejected \/ LoadReturns
  PROVE  IInv'
<1> USE DEF IInv, Typed
<1>1. /\ Answer /\ UNCHANGED screenVars /\ UNCHANGED <<loads, ops, signal>>
      /\ task["pump"] \notin {"left", "right", "moved"}
  BY DEF Status, ScanLibraries, BrowseFails, LoadRejected, LoadReturns
<1>2. /\ conn' \in [Clients -> {"reading", "sending", "waiting"}]
      /\ task' \in [Tasks -> Stages]
      /\ task'["pump"] = "idle" /\ task'["nav"] = task["nav"] /\ task'["scan"] = task["scan"]
      /\ PumpServes' /\ Waiters'
  BY <1>1, AnswerFacts
<1>3. serving' = {}
  BY <1>1 DEF Answer
<1>4. TypeOK'
  BY <1>1, <1>2, <1>3 DEF TypeOK, screenVars
<1>5. LockHeld' /\ LeftPainted' /\ CursorOnRow' /\ ScreensCurrent'
  <2>1. \A t \in Tasks : task'[t] = task[t]
           \/ /\ task[t] \notin {"left", "right", "moved"}
              /\ task'[t] \notin {"left", "right", "moved"}
    BY <1>1, <1>2 DEF Tasks
  <2> QED BY <1>1, <1>2, <2>1, ScreensIInv
<1> QED BY <1>2, <1>4, <1>5

\* The pump calls a session, or takes the signal, or the background query fails.
LEMMA StageIInv ==
  ASSUME IInv, LoadCalls \/ TakeSignal \/ ScanFails
  PROVE  IInv'
<1> USE DEF IInv, Typed
<1> PICK t \in Tasks, stage \in Stages :
      /\ task' = [task EXCEPT ![t] = stage]
      /\ \/ t = "pump" /\ task[t] = "load" /\ stage = "calling"
         \/ t = "pump" /\ task[t] = "idle" /\ stage = "stopped"
         \/ t = "scan" /\ task[t] = "browse" /\ stage = "ended"
      /\ UNCHANGED screenVars /\ UNCHANGED <<conn, loads, ops, serving>>
      /\ signal' \in BOOLEAN
  <2>1. CASE LoadCalls
    BY <2>1 DEF LoadCalls, Tasks, Stages, clientVars, pumpVars, TypeOK
  <2>2. CASE TakeSignal
    BY <2>2 DEF TakeSignal, Tasks, Stages, clientVars
  <2>3. CASE ScanFails
    BY <2>3 DEF ScanFails, Tasks, Stages, clientVars, pumpVars, TypeOK
  <2> QED BY <2>1, <2>2, <2>3
<1>1. /\ task' \in [Tasks -> Stages] /\ task'[t] = stage
      /\ \A u \in Tasks : u # t => task'[u] = task[u]
  OBVIOUS
<1>2. TypeOK'
  <2>1. /\ task'["pump"] \in Ops \cup {"idle", "left", "right", "calling", "stopped"}
        /\ task'["nav"] \in {"idle", "moved", "left", "right"}
        /\ task'["scan"] \in {"browse", "left", "right", "ended"}
    BY <1>1 DEF TypeOK, Tasks
  <2> QED BY <2>1 DEF TypeOK, screenVars
<1>3. LockHeld' /\ LeftPainted' /\ CursorOnRow' /\ ScreensCurrent'
  BY <1>1, ScreensIInv
<1>4. PumpServes'
  BY <1>1 DEF PumpServes, Working, Ops, Tasks
<1>5. Waiters'
  BY DEF Waiters
<1> QED BY <1>1, <1>2, <1>3, <1>4, <1>5

----------------------------------------------------------------------------
\* The browse state and its repaints

\* A step of the task that turns the view over to a repaint, or of the repaint,
\* leaves the clients alone.
LEMMA ClientsIInv ==
  ASSUME IInv, UNCHANGED <<conn, ops, serving>>,
         task'["pump"] = task["pump"]
           \/ (task["pump"] \in Working /\ task'["pump"] \in Working)
  PROVE  PumpServes' /\ Waiters'
BY DEF IInv, PumpServes, Waiters

\* The rows of a query become the view, under the lock that the task takes.
LEMMA ShowRowsIInv ==
  ASSUME IInv, NEW t \in {"pump", "scan"}, ShowRows(t)
  PROVE  IInv'
<1> USE DEF IInv, Typed
<1> PICK found \in Results : browse' = [browse EXCEPT !.rows = found, !.cursor = 0]
  BY DEF ShowRows, SetRows
<1>1. /\ task[t] = "browse" /\ lock = "none" /\ lock' = t
      /\ task' = [task EXCEPT ![t] = "left"]
      /\ UNCHANGED <<left, right, conn, loads, ops, serving, signal>>
  BY DEF ShowRows, clientVars, pumpVars
<1>2. browse' \in View /\ CursorOnRow'
  BY DEF TypeOK, View, CursorOnRow
<1>3. /\ t \in Tasks /\ task' \in [Tasks -> Stages] /\ task'[t] = "left"
      /\ \A u \in Tasks : u # t => task'[u] = task[u]
  BY <1>1 DEF Tasks, Stages
<1>4. TypeOK'
  <2>1. /\ task'["pump"] \in Ops \cup {"idle", "left", "right", "calling", "stopped"}
        /\ task'["nav"] \in {"idle", "moved", "left", "right"}
        /\ task'["scan"] \in {"browse", "left", "right", "ended"}
    BY <1>3 DEF TypeOK, Tasks
  <2> QED BY <1>1, <1>2, <1>3, <2>1 DEF TypeOK
<1>5. LockHeld' /\ LeftPainted' /\ ScreensCurrent'
  <2>1. \A u \in Tasks : task[u] \notin {"left", "right"}
    BY <1>1 DEF LockHeld, Tasks
  <2> QED BY <1>1, <1>3, <2>1 DEF LockHeld, LeftPainted, ScreensCurrent, Settled, Tasks
<1>6. PumpServes' /\ Waiters'
  BY <1>1, <1>3, ClientsIInv DEF Working, Ops, Tasks
<1> QED BY <1>2, <1>3, <1>4, <1>5, <1>6

\* A turn of an encoder changes the view under the lock, and a repaint is due.
LEMMA NavMoveIInv ==
  ASSUME IInv, NEW moved \in View, NavMove(moved),
         moved.cursor < moved.rows \/ moved.cursor = 0
  PROVE  IInv'
<1> USE DEF IInv, Typed
<1>1. /\ task["nav"] = "idle" /\ lock = "none" /\ browse' = moved
      /\ task' = [task EXCEPT !["nav"] = "moved"]
      /\ UNCHANGED <<lock, left, right, conn, loads, ops, serving, signal>>
  BY DEF NavMove, clientVars, pumpVars
<1>2. /\ task' \in [Tasks -> Stages] /\ task'["nav"] = "moved"
      /\ task'["pump"] = task["pump"] /\ task'["scan"] = task["scan"]
  BY <1>1 DEF Tasks, Stages
<1>3. TypeOK' /\ CursorOnRow'
  BY <1>1, <1>2 DEF TypeOK, CursorOnRow
<1>4. LockHeld' /\ LeftPainted' /\ ScreensCurrent'
  <2>1. \A u \in Tasks : task[u] \notin {"left", "right"}
    BY <1>1 DEF LockHeld, Tasks
  <2> QED BY <1>1, <1>2, <2>1 DEF LockHeld, LeftPainted, ScreensCurrent, Settled, Tasks
<1>5. PumpServes' /\ Waiters'
  BY <1>1, <1>2, ClientsIInv
<1> QED BY <1>2, <1>3, <1>4, <1>5

\* The cursor stays on a row, and the facet cursor among the facets, whichever
\* way and however far an encoder is turned.
LEMMA TurnIInv ==
  ASSUME IInv, Turn
  PROVE  IInv'
<1> USE DEF IInv, Typed
<1>1. /\ browse \in View /\ browse.rows \in Nat /\ browse.cursor \in Nat
      /\ browse.facet \in 0..Facets-1 /\ browse.rows \in Results
      /\ browse.cursor < browse.rows \/ browse.cursor = 0
  BY DaemonAssumption DEF TypeOK, View, CursorOnRow
<1>2. \A n \in Nat : n < browse.rows \/ n = 0 =>
        /\ [browse EXCEPT !.cursor = n] \in View
        /\ [browse EXCEPT !.cursor = n].cursor = n
        /\ [browse EXCEPT !.cursor = n].rows = browse.rows
  BY <1>1 DEF View
<1>3. ASSUME NEW ticks \in 1..MaxTurn, CursorDown(ticks)
      PROVE  IInv'
  <2> DEFINE n == CASE browse.cursor + ticks < browse.rows -> browse.cursor + ticks
                    [] browse.cursor < browse.rows /\ browse.rows <= browse.cursor + ticks
                         -> browse.rows - 1
                    [] OTHER -> browse.cursor
  <2>1. n \in Nat /\ (n < browse.rows \/ n = 0)
    BY <1>1, DaemonAssumption
  <2>2. NavMove([browse EXCEPT !.cursor = n])
    BY <1>3 DEF CursorDown
  <2> HIDE DEF n
  <2> QED BY <1>2, <2>1, <2>2, NavMoveIInv
<1>4. ASSUME NEW ticks \in 1..MaxTurn, CursorUp(ticks)
      PROVE  IInv'
  <2> DEFINE n == IF browse.cursor > ticks THEN browse.cursor - ticks ELSE 0
  <2>1. n \in Nat /\ (n < browse.rows \/ n = 0)
    BY <1>1, DaemonAssumption
  <2>2. NavMove([browse EXCEPT !.cursor = n])
    BY <1>4 DEF CursorUp
  <2> HIDE DEF n
  <2> QED BY <1>2, <2>1, <2>2, NavMoveIInv
<1>5. ASSUME NEW step \in {-1, 1}, FacetTurn(step)
      PROVE  IInv'
  <2> DEFINE f == (browse.facet + step) % Facets
  <2>1. f \in 0..Facets-1
    BY <1>1, DaemonAssumption
  <2>2. NavMove([browse EXCEPT !.facet = f])
    BY <1>5 DEF FacetTurn
  <2> HIDE DEF f
  <2>3. /\ [browse EXCEPT !.facet = f] \in View
        /\ [browse EXCEPT !.facet = f].cursor = browse.cursor
        /\ [browse EXCEPT !.facet = f].rows = browse.rows
    BY <1>1, <2>1 DEF View
  <2> QED BY <1>1, <2>2, <2>3, NavMoveIInv
<1> QED BY <1>3, <1>4, <1>5 DEF Turn

\* The navigation task takes the lock again for the repaint that is due.
LEMMA NavRepaintIInv ==
  ASSUME IInv, NavRepaint
  PROVE  IInv'
<1> USE DEF IInv, Typed
<1>1. /\ task["nav"] = "moved" /\ lock = "none" /\ lock' = "nav"
      /\ task' = [task EXCEPT !["nav"] = "left"]
      /\ UNCHANGED <<browse, left, right, conn, loads, ops, serving, signal>>
  BY DEF NavRepaint, clientVars, pumpVars
<1>2. /\ task' \in [Tasks -> Stages] /\ task'["nav"] = "left"
      /\ task'["pump"] = task["pump"] /\ task'["scan"] = task["scan"]
  BY <1>1 DEF Tasks, Stages
<1>3. TypeOK' /\ CursorOnRow'
  BY <1>1, <1>2 DEF TypeOK, CursorOnRow, Tasks
<1>4. LockHeld' /\ LeftPainted' /\ ScreensCurrent'
  <2>1. \A u \in Tasks : task[u] \notin {"left", "right"}
    BY <1>1 DEF LockHeld, Tasks
  <2> QED BY <1>1, <1>2, <2>1 DEF LockHeld, LeftPainted, ScreensCurrent, Settled, Tasks
<1>5. PumpServes' /\ Waiters'
  BY <1>1, <1>2, ClientsIInv
<1> QED BY <1>2, <1>3, <1>4, <1>5

\* The left screen is drawn from the view that the lock holds still.
LEMMA PaintLeftIInv ==
  ASSUME IInv, NEW t \in Tasks, PaintLeft(t)
  PROVE  IInv'
<1> USE DEF IInv, Typed
<1>1. /\ task[t] = "left" /\ left' = RenderLeft(browse)
      /\ task' = [task EXCEPT ![t] = "right"]
      /\ UNCHANGED <<browse, lock, right, conn, loads, ops, serving, signal>>
  BY DEF PaintLeft, clientVars, pumpVars
<1>2. /\ task' \in [Tasks -> Stages] /\ task'[t] = "right"
      /\ \A u \in Tasks : u # t => task'[u] = task[u]
  BY <1>1 DEF Stages
<1>3. lock = t
  BY <1>1 DEF LockHeld
<1>4. TypeOK' /\ CursorOnRow'
  <2>1. /\ task'["pump"] \in Ops \cup {"idle", "left", "right", "calling", "stopped"}
        /\ task'["nav"] \in {"idle", "moved", "left", "right"}
        /\ task'["scan"] \in {"browse", "left", "right", "ended"}
    BY <1>2 DEF TypeOK, Tasks
  <2>2. browse \in View
    BY DEF TypeOK
  <2>3. left'.lit \subseteq 0..Facets-1 /\ left'.count \in Results
    BY <1>1, <2>2, LeftType
  <2> QED BY <1>1, <2>1, <2>3 DEF TypeOK, CursorOnRow
<1>5. LockHeld' /\ LeftPainted' /\ ScreensCurrent'
  BY <1>1, <1>2, <1>3 DEF LockHeld, LeftPainted, ScreensCurrent, Settled, Tasks
<1>6. PumpServes' /\ Waiters'
  BY <1>1, <1>2, ClientsIInv DEF Working, Tasks
<1> QED BY <1>2, <1>4, <1>5, <1>6

\* The right screen is drawn from the same view, and the lock released.
LEMMA PaintRightIInv ==
  ASSUME IInv, NEW t \in Tasks, PaintRight(t)
  PROVE  IInv'
<1> USE DEF IInv, Typed
<1>1. /\ task[t] = "right" /\ right' = RenderRight(browse) /\ lock' = "none"
      /\ UNCHANGED <<browse, left, loads, ops, signal>>
  BY DEF PaintRight
<1>2. lock = t /\ left = RenderLeft(browse) /\ browse \in View
  BY <1>1 DEF LockHeld, LeftPainted, TypeOK
<1>3. right'.lit \cup right'.caption \subseteq Nat
  BY <1>1, <1>2, RightType
<1>4. ASSUME task' \in [Tasks -> Stages],
             task'[t] = IF t = "scan" THEN "ended" ELSE "idle",
             \A u \in Tasks : u # t => task'[u] = task[u],
             conn' \in [Clients -> {"reading", "sending", "waiting"}],
             serving' \subseteq Clients, PumpServes', Waiters'
      PROVE  IInv'
  <2>1. /\ task'["pump"] \in Ops \cup {"idle", "left", "right", "calling", "stopped"}
        /\ task'["nav"] \in {"idle", "moved", "left", "right"}
        /\ task'["scan"] \in {"browse", "left", "right", "ended"}
    BY <1>4 DEF TypeOK, Tasks
  <2>2. TypeOK' /\ CursorOnRow'
    BY <1>1, <1>3, <1>4, <2>1 DEF TypeOK, CursorOnRow
  <2>3. \A u \in Tasks : task'[u] \notin {"left", "right"}
    BY <1>2, <1>4 DEF LockHeld
  <2>4. LockHeld' /\ LeftPainted' /\ ScreensCurrent'
    BY <1>1, <1>2, <2>3 DEF LockHeld, LeftPainted, ScreensCurrent, Tasks
  <2> QED BY <1>4, <2>2, <2>4
<1>5. CASE t = "pump"
  <2>1. Answer
    BY <1>5 DEF PaintRight
  <2>2. serving' = {}
    BY <2>1 DEF Answer
  <2> QED BY <1>1, <1>4, <1>5, <2>1, <2>2, AnswerFacts DEF Tasks
<1>6. CASE t # "pump"
  <2>1. /\ task' = [task EXCEPT ![t] = IF t = "scan" THEN "ended" ELSE "idle"]
        /\ UNCHANGED <<conn, serving>>
    BY <1>6 DEF PaintRight
  <2>2. /\ task' \in [Tasks -> Stages]
        /\ task'[t] = IF t = "scan" THEN "ended" ELSE "idle"
        /\ \A u \in Tasks : u # t => task'[u] = task[u]
    BY <2>1 DEF Stages
  <2>3. PumpServes' /\ Waiters'
    BY <1>1, <1>6, <2>1, <2>2, ClientsIInv DEF Tasks
  <2> QED BY <1>4, <2>1, <2>2, <2>3 DEF TypeOK
<1> QED BY <1>5, <1>6

\* Steps of the plugin sessions, the arrival of a signal, and stuttering.
LEMMA QuietIInv ==
  ASSUME IInv, Signal \/ SessionStep \/ HostDies \/ UNCHANGED vars
  PROVE  IInv'
<1>1. /\ UNCHANGED <<browse, lock, left, right, task, conn, loads, ops, serving>>
      /\ signal' \in BOOLEAN
  BY DEF IInv, Typed, TypeOK, Signal, SessionStep, HostDies, vars, screenVars,
         clientVars, pumpVars
<1> QED
  BY <1>1 DEF IInv, Typed, TypeOK, LockHeld, LeftPainted, CursorOnRow,
       ScreensCurrent, Settled, PumpServes, Waiters

----------------------------------------------------------------------------
\* The theorems

\* Every step of the daemon keeps the invariant.
LEMMA NextIInv == IInv /\ [Next]_vars => IInv'
<1> SUFFICES ASSUME IInv, [Next]_vars PROVE IInv'
  OBVIOUS
<1>1. ASSUME NEW c \in Clients, ReadLine(c) \/ Enqueue(c) PROVE IInv'
  BY <1>1, ReadLineIInv, EnqueueIInv
<1>2. ASSUME NEW t \in {"pump", "scan"}, ShowSteps(t) PROVE IInv'
  BY <1>2, ShowRowsIInv, PaintLeftIInv, PaintRightIInv DEF ShowSteps, Tasks
<1>3. CASE PumpSteps
  BY <1>2, <1>3, TakeOpIInv, AnswersIInv, StageIInv DEF PumpSteps
<1>4. CASE NavSteps
  BY <1>4, NavRepaintIInv, PaintLeftIInv, PaintRightIInv DEF NavSteps, Tasks
<1>5. CASE ScanSteps
  BY <1>2, <1>5, StageIInv DEF ScanSteps
<1>6. CASE TakeSignal
  BY <1>6, StageIInv
<1>7. CASE Turn
  BY <1>7, TurnIInv
<1>8. CASE Signal \/ SessionStep \/ HostDies \/ UNCHANGED vars
  BY <1>8, QuietIInv
<1> QED BY <1>1, <1>3, <1>4, <1>5, <1>6, <1>7, <1>8 DEF Next

\* The inductive invariant holds in every state of every behaviour.
THEOREM DaemonInvariant == Spec => []IInv
BY InitIInv, NextIInv, PTL DEF Spec

\* Type correctness: among the rest, the operation channel keeps to its
\* capacity and the cursors to their ranges.
THEOREM TypeCorrect == Spec => []TypeOK
<1>1. IInv => TypeOK
  BY DEF IInv, Typed
<1> QED BY <1>1, DaemonInvariant, PTL

\* Three tasks repaint the screens, each in two steps, and none leaves one
\* behind the browse state.
THEOREM ScreensAreCurrent == Spec => []ScreensCurrent
<1>1. IInv => ScreensCurrent
  BY DEF IInv
<1> QED BY <1>1, DaemonInvariant, PTL

\* The row that a Load would take is on the right screen, alone highlighted and
\* named: the cursor is on a row, and the window holds the cursor.
THEOREM SelectionIsShown == Spec => []SelectionShown
<1>1. ASSUME IInv PROVE SelectionShown
  <2> SUFFICES ASSUME Settled, browse.rows > 0
               PROVE  right.lit = {browse.cursor} /\ right.caption = right.lit
    BY DEF SelectionShown
  <2>1. right = RenderRight(browse) /\ browse \in View
    BY <1>1 DEF IInv, Typed, TypeOK, ScreensCurrent
  <2>2. browse.cursor < browse.rows
    BY <1>1 DEF IInv, CursorOnRow
  <2> QED BY <2>1, <2>2, WindowHoldsCursor
<1> QED BY <1>1, DaemonInvariant, PTL

\* A client that waits is in one place, the channel or the pump, once.
THEOREM OneReplyForEachOp == Spec => []OneReplyPerOp
<1>1. ASSUME IInv PROVE OneReplyPerOp
  <2> SUFFICES ASSUME NEW c \in Clients
               PROVE  Cardinality({i \in DOMAIN ops : ops[i] = c})
                      + Cardinality(serving \cap {c})
                        = IF conn[c] = "waiting" THEN 1 ELSE 0
    BY DEF OneReplyPerOp
  <2> DEFINE In == {i \in DOMAIN ops : ops[i] = c}
             At == serving \cap {c}
  <2>1. \A i, j \in In : i = j
    BY <1>1 DEF IInv, Waiters
  <2>2. \A d, e \in At : d = e
    OBVIOUS
  <2>3. In = {} \/ At = {}
    BY <1>1 DEF IInv, Waiters
  <2>4. conn[c] = "waiting" <=> ~ (In = {} /\ At = {})
    BY <1>1 DEF IInv, Waiters
  <2> HIDE DEF In, At
  <2>5. ASSUME NEW S PROVE Sessions!Cardinality(S) = Cardinality(S)
    BY DEF Sessions!Cardinality, Cardinality
  <2>6. /\ Cardinality(In) \in {0, 1} /\ (Cardinality(In) = 0 <=> In = {})
        /\ Cardinality(At) \in {0, 1} /\ (Cardinality(At) = 0 <=> At = {})
    BY <2>1, <2>2, <2>5, Sessions!AtMostOne, DaemonAssumption
  <2>7. Cardinality(In) + Cardinality(At) = IF conn[c] = "waiting" THEN 1 ELSE 0
    BY <2>3, <2>4, <2>6
  <2> QED BY <2>7 DEF In, At
<1> QED BY <1>1, DaemonInvariant, PTL

\* Each step of the daemon is a step of the plugin sessions or leaves them.
THEOREM RefinesSessions == Spec => Plugins!Spec
<1>1. Init => Plugins!Init
  BY DEF Init
<1>2. ASSUME [Next]_vars PROVE [Plugins!Next]_(Plugins!vars)
  <2>1. UNCHANGED pluginVars => UNCHANGED Plugins!vars
    BY DEF pluginVars, Plugins!vars, Plugins!hostVars, Plugins!sessionVars, Plugins!callerVars
  <2>2. CASE UNCHANGED pluginVars
    BY <2>1, <2>2
  <2>3. CASE LoadCalls
    <3>1. "load" \in Plugins!Kinds
      BY DEF Plugins!Kinds
    <3> QED BY <2>3, <3>1 DEF LoadCalls, Plugins!Next
  <2>4. CASE LoadReturns
    BY <2>4 DEF LoadReturns, Plugins!Next, Plugins!CallerSteps
  <2>5. CASE SessionStep
    BY <2>5 DEF SessionStep, Plugins!Next, Plugins!CallerSteps
  <2>6. CASE HostDies
    BY <2>6 DEF HostDies, Plugins!Next
  <2>7. UNCHANGED pluginVars \/ LoadCalls \/ LoadReturns \/ SessionStep \/ HostDies
    BY <1>2 DEF Next, vars, ReadLine, Enqueue, Signal, TakeSignal, PumpSteps,
         NavSteps, ScanSteps, Turn, TakeOp, Status, ScanLibraries, BrowseFails,
         LoadRejected, ShowSteps, ShowRows, PaintLeft, PaintRight, NavRepaint,
         ScanFails, CursorDown, CursorUp, FacetTurn, NavMove
  <2> QED BY <2>2, <2>3, <2>4, <2>5, <2>6, <2>7
<1> QED BY <1>1, <1>2, PTL DEF Spec, Plugins!Spec

\* The sessions of the daemon are typed, give each reply to its caller and
\* lose none.
THEOREM SessionsKeepPromises ==
  Spec => [](Plugins!TypeOK /\ Plugins!RepliesRouted /\ Plugins!NoReplyLost)
<1>1. Plugins!Init <=> Sessions!Init
  BY DEF Plugins!Init, Sessions!Init, Plugins!NoCall, Sessions!NoCall,
         Plugins!Error, Sessions!Error
<1>2. [Plugins!Next]_(Plugins!vars) <=> [Sessions!Next]_(Sessions!vars)
  BY DEF
       Plugins!Next, Plugins!CallSession, Plugins!SpawnAndLoad,
       Plugins!NoSession, Plugins!CallerSteps, Plugins!HostSteps,
       Plugins!HostDies, Plugins!ReaderSteps, Plugins!PumpEvent,
       Plugins!Register, Plugins!TakeId, Plugins!Write,
       Plugins!WriteFails, Plugins!Return, Plugins!HostRead,
       Plugins!HostAnnounce, Plugins!HostReply, Plugins!Say,
       Plugins!ReadEvent, Plugins!ReadReply, Plugins!ReadEof,
       Plugins!NextLine, Plugins!Unregister, Plugins!ReplyKind,
       Plugins!Kinds, Plugins!NoCall, Plugins!Error, Plugins!vars,
       Plugins!hostVars, Plugins!sessionVars, Plugins!callerVars,
       Sessions!Next, Sessions!CallSession, Sessions!SpawnAndLoad,
       Sessions!NoSession, Sessions!CallerSteps,
       Sessions!HostSteps, Sessions!HostDies,
       Sessions!ReaderSteps, Sessions!PumpEvent,
       Sessions!Register, Sessions!TakeId, Sessions!Write,
       Sessions!WriteFails, Sessions!Return, Sessions!HostRead,
       Sessions!HostAnnounce, Sessions!HostReply, Sessions!Say,
       Sessions!ReadEvent, Sessions!ReadReply, Sessions!ReadEof,
       Sessions!NextLine, Sessions!Unregister, Sessions!ReplyKind,
       Sessions!Kinds, Sessions!NoCall, Sessions!Error,
       Sessions!vars, Sessions!hostVars, Sessions!sessionVars,
       Sessions!callerVars
<1>3. ASSUME NEW S PROVE Sessions!Cardinality(S) = Plugins!Cardinality(S)
  BY DEF Sessions!Cardinality, Plugins!Cardinality
<1>4. Sessions!TypeOK <=> Plugins!TypeOK
  <2>1. Sessions!Ids = Plugins!Ids /\ Sessions!Kinds = Plugins!Kinds
    BY DEF Sessions!Ids, Plugins!Ids, Sessions!Kinds, Plugins!Kinds
  <2>2. Sessions!NoCall = Plugins!NoCall /\ Sessions!Error = Plugins!Error
    BY DEF Sessions!NoCall, Plugins!NoCall, Sessions!Error, Plugins!Error
  <2>3. Sessions!Requests = Plugins!Requests
    BY <2>1 DEF Sessions!Requests, Plugins!Requests
  <2>4. Sessions!Envelopes = Plugins!Envelopes
    BY <2>1 DEF Sessions!Envelopes, Plugins!Envelopes
  <2> QED
    BY <1>3, <2>1, <2>2, <2>3, <2>4, Zenon DEF Sessions!TypeOK, Plugins!TypeOK
<1>5. Sessions!RepliesRouted <=> Plugins!RepliesRouted
  BY DEF Sessions!RepliesRouted, Plugins!RepliesRouted, Sessions!Error,
         Plugins!Error, Sessions!ReplyKind, Plugins!ReplyKind
<1>6. Sessions!NoReplyLost <=> Plugins!NoReplyLost
  <2>1. ASSUME NEW b, NEW id PROVE Sessions!InFlight(b, id) = Plugins!InFlight(b, id)
    BY <1>3 DEF Sessions!InFlight, Plugins!InFlight
  <2> QED
    BY <2>1 DEF Sessions!NoReplyLost, Plugins!NoReplyLost
<1>7. Sessions!Spec => []Sessions!TypeOK
  BY Sessions!TypeCorrect, DaemonAssumption
<1>8. Sessions!Spec => []Sessions!RepliesRouted
  BY Sessions!RepliesAreRouted, DaemonAssumption
<1>9. Sessions!Spec => []Sessions!NoReplyLost
  BY Sessions!NothingLost, DaemonAssumption
<1> QED
  BY <1>1, <1>2, <1>4, <1>5, <1>6, <1>7, <1>8, <1>9, RefinesSessions, PTL
     DEF Plugins!Spec, Sessions!Spec

=============================================================================
