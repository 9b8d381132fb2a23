------------------------------- MODULE Daemon -------------------------------
(***************************************************************************)
(* maschined (crates/maschined/src/main.rs and ipc.rs): the operation pump *)
(* that serves msctl clients one operation at a time, the browse state it  *)
(* shares with the navigation task and the background scan, the two        *)
(* screens these tasks repaint, and the plugin sessions of PluginSession,  *)
(* with the pump as their only caller.                                     *)
(*                                                                         *)
(* The screens here are the framebuffers: DisplayPipeline carries them to  *)
(* the hardware.                                                           *)
(***************************************************************************)
EXTENDS Integers, Sequences, FiniteSets

CONSTANTS Clients,   \* connections on the Unix socket
          Results,   \* numbers of rows that queries return (0..100)
          Facets,    \* number of facet values (8)
          FacetRows,    \* facet values that fit on the left screen (7)
          VisibleRows,  \* rows that fit on the right screen (7)
          OpCap,     \* capacity of the operation channel (64)
          MaxLoads,  \* bound: load operations explored
          MaxTurn,   \* bound: ticks of one encoder event
          Bundles,   \* plugin bundles
          EventCap   \* capacity of the plugin event channel

ASSUME DaemonAssumption ==
  /\ Results \subseteq Nat /\ Facets \in Nat \ {0}
  /\ FacetRows \in Nat /\ VisibleRows \in Nat \ {0}
  /\ OpCap \in Nat \ {0} /\ MaxLoads \in Nat /\ MaxTurn \in Nat
  /\ EventCap \in Nat \ {0}

VARIABLES
  browse,   \* the browse state: number of rows of the view, cursor,
            \* facet cursor
  lock,     \* the task holding the browse mutex
  left,     \* what is drawn on the left screen
  right,    \* and on the right one
  task,     \* task[t]: the stage of each of Tasks
  conn,     \* conn[c]: stage of the connection's loop
  ops,      \* the operation channel: clients whose operations wait in it
  serving,  \* the client, at most one, whose operation the pump handles
  signal,   \* a SIGINT or SIGTERM not yet taken
  loads     \* load operations so far

VARIABLES child, next_id, pending, stdin, hostServing, stdout, reader, events,
          pc, call, got

Plugins == INSTANCE PluginSession
  WITH Callers <- {"pump"}, MaxCalls <- MaxLoads, serving <- hostServing

pluginVars == <<child, next_id, pending, stdin, hostServing, stdout, reader,
                events, pc, call, got>>
screenVars == <<browse, lock, left, right>>
clientVars == <<conn, loads>>
pumpVars == <<ops, serving, signal>>
vars == <<screenVars, task, clientVars, pumpVars, pluginVars>>

Tasks == {"pump", "nav", "scan"}
Ops == {"status", "scan", "browse", "load"}

\* render_left: as many facet values as fit, the one at the cursor, if it is
\* among them, highlighted; the number of rows.
RenderLeft(state) ==
  [lit |-> {state.facet} \cap 0..FacetRows-1, count |-> state.rows]

\* A window with the cursor in the middle, or at the top of the list above it.
FirstRow(state) ==
  IF state.cursor > VisibleRows \div 2 THEN state.cursor - VisibleRows \div 2 ELSE 0

\* render_right: the rows of the window, the selected one highlighted, and the
\* caption of the selected row.
RenderRight(state) ==
  LET drawn == {row \in 0..state.rows-1 :
                  FirstRow(state) <= row /\ row < FirstRow(state) + VisibleRows}
  IN [drawn |-> drawn, lit |-> drawn \cap {state.cursor},
      caption |-> {state.cursor} \cap 0..state.rows-1]

Init ==
  /\ \E found \in Results : browse = [rows |-> found, cursor |-> 0, facet |-> 0]
  /\ lock = "none"
  /\ left = RenderLeft(browse)
  /\ right = RenderRight(browse)
  /\ task = [t \in Tasks |-> IF t = "scan" THEN "browse" ELSE "idle"]
  /\ conn = [c \in Clients |-> "reading"]
  /\ ops = <<>>
  /\ serving = {}
  /\ signal = FALSE
  /\ loads = 0
  /\ Plugins!Init

----------------------------------------------------------------------------
\* The clients (ipc.rs: one task per connection)

\* A line that parses as an operation; which one does not matter before the
\* pump takes it.  A line that does not is answered by the connection's own
\* task, which reads the next one.
ReadLine(c) ==
  /\ conn[c] = "reading"
  /\ conn' = [conn EXCEPT ![c] = "sending"]
  /\ UNCHANGED <<screenVars, task, loads, pumpVars, pluginVars>>

\* handler.send(): waits while the channel is full.
Enqueue(c) ==
  /\ conn[c] = "sending"
  /\ Len(ops) < OpCap
  /\ ops' = Append(ops, c)
  /\ conn' = [conn EXCEPT ![c] = "waiting"]
  /\ UNCHANGED <<screenVars, task, loads, serving, signal, pluginVars>>

----------------------------------------------------------------------------
\* The pump

Signal ==
  /\ ~signal
  /\ signal' = TRUE
  /\ UNCHANGED <<screenVars, task, clientVars, ops, serving, pluginVars>>

\* The select!: an operation, or a signal, which ends the loop.
TakeOp ==
  /\ task["pump"] = "idle"
  /\ ops # <<>>
  /\ serving' = {Head(ops)}
  /\ ops' = Tail(ops)
  /\ \E op \in Ops :
       /\ op = "load" => loads < MaxLoads
       /\ loads' = IF op = "load" THEN loads + 1 ELSE loads
       /\ task' = [task EXCEPT !["pump"] = op]
  /\ UNCHANGED <<screenVars, conn, signal, pluginVars>>

\* Mutant of TakeSignal: the select! is biased to the operations.
TakeSignalWhenDrained ==
  /\ task["pump"] = "idle"
  /\ ops = <<>>
  /\ signal
  /\ task' = [task EXCEPT !["pump"] = "stopped"]
  /\ signal' = FALSE
  /\ UNCHANGED <<screenVars, clientVars, ops, serving, pluginVars>>

TakeSignal ==
  /\ task["pump"] = "idle"
  /\ signal
  /\ task' = [task EXCEPT !["pump"] = "stopped"]
  /\ signal' = FALSE
  /\ UNCHANGED <<screenVars, clientVars, ops, serving, pluginVars>>

\* Mutant of Answer: the pump replies and stays at the operation.
AnswerTwice ==
  /\ \E c \in serving : conn' = [conn EXCEPT ![c] = "reading"]
  /\ task' = [task EXCEPT !["pump"] = "idle"]
  /\ UNCHANGED serving

\* reply.send(), on the operation's own channel, after which the loop selects
\* again.  The connection's task writes the reply and reads its next line.
Answer ==
  /\ \E c \in serving : conn' = [conn EXCEPT ![c] = "reading"]
  /\ task' = [task EXCEPT !["pump"] = "idle"]
  /\ serving' = {}

\* Status reads the browse state.
Status ==
  /\ task["pump"] = "status"
  /\ lock = "none"
  /\ Answer
  /\ UNCHANGED <<screenVars, loads, ops, signal, pluginVars>>

\* ScanLibraries: scan_root on every root, each time under the scanner lock.
\* What it does to the index is left out; the queries find any rows.
ScanLibraries ==
  /\ task["pump"] = "scan"
  /\ Answer
  /\ UNCHANGED <<screenVars, loads, ops, signal, pluginVars>>

\* Browse: the query runs on a connection of its own and may fail; ShowRows
\* is the case in which it does not.
BrowseFails ==
  /\ task["pump"] = "browse"
  /\ Answer
  /\ UNCHANGED <<screenVars, loads, ops, signal, pluginVars>>

\* Load: the preset is looked up in the current view and the lock released.
\* It may not be there; then reading the file or resolving its plugin may
\* fail; else the bundle's session is called, and spawned if need be.
LoadRejected ==
  /\ task["pump"] = "load"
  /\ lock = "none"
  /\ Answer
  /\ UNCHANGED <<screenVars, loads, ops, signal, pluginVars>>

LoadCalls ==
  /\ task["pump"] = "load"
  /\ lock = "none"
  /\ browse.rows > 0
  /\ \E b \in Bundles :
       \/ Plugins!CallSession("pump", b, "load")
       \/ Plugins!SpawnAndLoad("pump", b)
       \/ Plugins!NoSession("pump", b)
  /\ task' = [task EXCEPT !["pump"] = "calling"]
  /\ UNCHANGED <<screenVars, clientVars, pumpVars>>

LoadReturns ==
  /\ task["pump"] = "calling"
  /\ Plugins!Return("pump")
  /\ Answer
  /\ UNCHANGED <<screenVars, loads, ops, signal>>

----------------------------------------------------------------------------
\* The browse state and the screens

\* Mutant of SetRows: the cursor stays where it was.
SetRowsKeepsCursor(shown) == browse' = [browse EXCEPT !.rows = shown]

\* set_rows()
SetRows(shown) == browse' = [browse EXCEPT !.rows = shown, !.cursor = 0]

\* The rows of a query become the view, at a client's Browse and at the end of
\* the background scan: the lock is taken and held until both screens are
\* repainted.  The rows are any result; when they were queried does not matter.
ShowRows(t) ==
  /\ task[t] = "browse"
  /\ lock = "none"
  /\ lock' = t
  /\ \E found \in Results : SetRows(found)
  /\ task' = [task EXCEPT ![t] = "left"]
  /\ UNCHANGED <<left, right, clientVars, pumpVars, pluginVars>>

\* The background query fails: nothing is shown.
ScanFails ==
  /\ task["scan"] = "browse"
  /\ task' = [task EXCEPT !["scan"] = "ended"]
  /\ UNCHANGED <<screenVars, clientVars, pumpVars, pluginVars>>

\* handle_nav_event: encoder 2 moves the cursor within the rows, tick by tick
\* under one lock, encoder 0 the facet cursor around the facets, one step
\* whatever the ticks.  The lock is released before the repaint.
NavMove(moved) ==
  /\ task["nav"] = "idle"
  /\ lock = "none"
  /\ browse' = moved
  /\ task' = [task EXCEPT !["nav"] = "moved"]
  /\ UNCHANGED <<lock, left, right, clientVars, pumpVars, pluginVars>>

CursorDown(ticks) ==
  NavMove([browse EXCEPT !.cursor =
             CASE @ + ticks < browse.rows -> @ + ticks
               [] @ < browse.rows /\ browse.rows <= @ + ticks -> browse.rows - 1
               [] OTHER -> @])

\* Mutant of CursorUp: a subtraction that does not stop at 0.
CursorUpPastTop(ticks) == NavMove([browse EXCEPT !.cursor = @ - ticks])

CursorUp(ticks) ==
  NavMove([browse EXCEPT !.cursor = IF @ > ticks THEN @ - ticks ELSE 0])

FacetTurn(step) == NavMove([browse EXCEPT !.facet = (@ + step) % Facets])

\* Mutant of NavRepaint: the repaint runs without taking the lock again.
NavRepaintUnlocked ==
  /\ task["nav"] = "moved"
  /\ task' = [task EXCEPT !["nav"] = "left"]
  /\ UNCHANGED <<screenVars, clientVars, pumpVars, pluginVars>>

\* The lock is taken again for the repaint.
NavRepaint ==
  /\ task["nav"] = "moved"
  /\ lock = "none"
  /\ lock' = "nav"
  /\ task' = [task EXCEPT !["nav"] = "left"]
  /\ UNCHANGED <<browse, left, right, clientVars, pumpVars, pluginVars>>

\* repaint(): left.modify().await, then right.modify().await.
PaintLeft(t) ==
  /\ task[t] = "left"
  /\ left' = RenderLeft(browse)
  /\ task' = [task EXCEPT ![t] = "right"]
  /\ UNCHANGED <<browse, lock, right, clientVars, pumpVars, pluginVars>>

\* Mutant of PaintRight: a nav event whose guard outlives the repaint.
PaintRightKeepsLock(t) ==
  /\ task[t] = "right"
  /\ right' = RenderRight(browse)
  /\ lock' = IF t = "nav" THEN lock ELSE "none"
  /\ IF t = "pump" THEN Answer
     ELSE /\ task' = [task EXCEPT ![t] = IF t = "scan" THEN "ended" ELSE "idle"]
          /\ UNCHANGED <<conn, serving>>
  /\ UNCHANGED <<browse, left, loads, ops, signal, pluginVars>>

\* The guard is dropped after the right screen.
PaintRight(t) ==
  /\ task[t] = "right"
  /\ right' = RenderRight(browse)
  /\ lock' = "none"
  /\ IF t = "pump" THEN Answer
     ELSE /\ task' = [task EXCEPT ![t] = IF t = "scan" THEN "ended" ELSE "idle"]
          /\ UNCHANGED <<conn, serving>>
  /\ UNCHANGED <<browse, left, loads, ops, signal, pluginVars>>

----------------------------------------------------------------------------

\* What happens in the sessions between the pump's call and its return.
SessionStep ==
  /\ \/ Plugins!Write("pump") \/ Plugins!WriteFails("pump")
     \/ \E b \in Bundles : Plugins!HostSteps(b) \/ Plugins!ReaderSteps(b)
     \/ Plugins!PumpEvent
  /\ UNCHANGED <<screenVars, task, clientVars, pumpVars>>

HostDies ==
  /\ \E b \in Bundles : Plugins!HostDies(b)
  /\ UNCHANGED <<screenVars, task, clientVars, pumpVars>>

ShowSteps(t) == ShowRows(t) \/ PaintLeft(t) \/ PaintRight(t)
PumpSteps ==
  \/ TakeOp \/ Status \/ ScanLibraries \/ BrowseFails
  \/ LoadRejected \/ LoadCalls \/ LoadReturns
  \/ ShowSteps("pump")
NavSteps == NavRepaint \/ PaintLeft("nav") \/ PaintRight("nav")
ScanSteps == ScanFails \/ ShowSteps("scan")
Turn ==
  \/ \E ticks \in 1..MaxTurn : CursorDown(ticks) \/ CursorUp(ticks)
  \/ \E step \in {-1, 1} : FacetTurn(step)

\* The daemon ends with its pump: main returns and the runtime goes down.
Next ==
  /\ task["pump"] # "stopped"
  /\ \/ \E c \in Clients : ReadLine(c) \/ Enqueue(c)
     \/ Signal \/ TakeSignal
     \/ PumpSteps \/ NavSteps \/ ScanSteps
     \/ Turn
     \/ SessionStep
     \/ HostDies

\* Every task of the runtime is polled again.  Tokio's channel and mutex wake
\* their waiters first come, first served, and select! picks at random among
\* its ready branches: a task that waits for one of them and finds it ready
\* again and again gets it, which is strong fairness.  Clients, the user and
\* the signal owe nothing.
Fairness ==
  /\ \A c \in Clients : SF_vars(Enqueue(c))
  /\ SF_vars(TakeSignal)
  /\ SF_vars(PumpSteps) /\ SF_vars(NavSteps) /\ SF_vars(ScanSteps)
  /\ WF_vars(SessionStep)

Spec == Init /\ [][Next]_vars
FairSpec == Spec /\ Fairness

----------------------------------------------------------------------------

View == [rows : Results, cursor : Nat, facet : 0..Facets-1]

TypeOK ==
  /\ browse \in View
  /\ left.lit \subseteq 0..Facets-1 /\ left.count \in Results
  /\ right.lit \cup right.caption \subseteq Nat
  /\ lock \in Tasks \cup {"none"}
  /\ task["pump"] \in Ops \cup {"idle", "left", "right", "calling", "stopped"}
  /\ task["nav"] \in {"idle", "moved", "left", "right"}
  /\ task["scan"] \in {"browse", "left", "right", "ended"}
  /\ conn \in [Clients -> {"reading", "sending", "waiting"}]
  /\ ops \in Seq(Clients) /\ Len(ops) <= OpCap
  /\ serving \subseteq Clients
  /\ signal \in BOOLEAN
  /\ loads \in 0..MaxLoads

\* Whenever nobody holds the browse lock and no turn of an encoder waits for
\* its repaint, both screens show the browse state as it is: three tasks
\* repaint, each in two steps with awaits between, and none may leave a screen
\* with what it saw earlier.
Settled == lock = "none" /\ task["nav"] # "moved"
ScreensCurrent ==
  Settled => left = RenderLeft(browse) /\ right = RenderRight(browse)

\* The row a Load would take is seen on the right screen: as long as there are
\* rows, exactly one of those drawn is highlighted, and the caption is its own,
\* however far the cursor scrolls and however queries replace the rows between
\* two turns of the encoder.
SelectionShown ==
  Settled /\ browse.rows > 0 => right.lit = {browse.cursor} /\ right.caption = right.lit

\* Each client that waits for a reply is in exactly one place, the channel or
\* the pump, and nobody else is: one reply for each operation.
OneReplyPerOp ==
  \A c \in Clients :
    Cardinality({i \in DOMAIN ops : ops[i] = c})
    + Cardinality(serving \cap {c})
      = IF conn[c] = "waiting" THEN 1 ELSE 0

\* Unless a plugin host died, every operation is answered or the daemon ends.
OpsAnswered ==
  \A c \in Clients :
    conn[c] = "sending" ~>
      \/ conn[c] = "reading"
      \/ task["pump"] = "stopped"
      \/ \E b \in Bundles : child[b] = "exited"

\* Unless a plugin host died, a signal ends the daemon.
SignalStopsWhileHostsLive ==
  signal ~> task["pump"] = "stopped" \/ \E b \in Bundles : child[b] = "exited"

\* "UDS op pump -- terminates on Ctrl-C / SIGTERM so the transport's Drop runs
\* and the NI agent gets restored cleanly" (main.rs:161): a signal ends the
\* daemon, whatever the plugins do.
SignalStops == signal ~> task["pump"] = "stopped"
=============================================================================
