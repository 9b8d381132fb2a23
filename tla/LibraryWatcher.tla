--------------------------- MODULE LibraryWatcher ---------------------------
(***************************************************************************)
(* The library watcher (nks-index/src/watch.rs): a thread that collects    *)
(* the paths of file system events and hands them over in one batch when   *)
(* no event has come for the debounce time.  The file system, external,    *)
(* sends one event per change, in order, through an unbounded channel.     *)
(***************************************************************************)
EXTENDS Sequences

CONSTANTS Presets,  \* .nksf paths
          None      \* any path that is not interesting

VARIABLES
  events,    \* the channel: paths of Modify, Create and Remove events
  pending,   \* paths for the next batch
  deadline,  \* "none", "ahead" or "passed"
  untold     \* history: presets changed and in no batch since

watchVars == <<events, pending, deadline, untold>>

WatchInit ==
  /\ events = <<>>
  /\ pending = {}
  /\ deadline = "none"
  /\ untold = {}

\* The notify callback: a path changed.
Notify(path) ==
  /\ events' = Append(events, path)
  /\ untold' = untold \cup ({path} \ {None})
  /\ UNCHANGED <<pending, deadline>>

\* Mutant of Receive: an event that is not interesting resets the deadline.
ReceiveDisarms ==
  /\ events # <<>>
  /\ events' = Tail(events)
  /\ pending' = pending \cup ({Head(events)} \ {None})
  /\ deadline' = IF Head(events) = None THEN "none" ELSE "ahead"
  /\ UNCHANGED untold

\* recv_timeout returns an event if there is one, whatever the timeout.
Receive ==
  /\ events # <<>>
  /\ events' = Tail(events)
  /\ pending' = pending \cup ({Head(events)} \ {None})
  /\ deadline' = "ahead"
  /\ UNCHANGED untold

DebounceElapses ==
  /\ deadline = "ahead"
  /\ deadline' = "passed"
  /\ UNCHANGED <<events, pending, untold>>

\* recv_timeout times out.  With nothing pending the deadline stays as it is,
\* and the thread waits again, for no time at all once it has passed.
OnBatch ==
  /\ events = <<>>
  /\ deadline = "passed"
  /\ pending # {}
  /\ untold' = untold \ pending
  /\ pending' = {}
  /\ deadline' = "none"
  /\ UNCHANGED events

WatchNext == Receive \/ DebounceElapses \/ OnBatch

\* The thread runs for ever; time passes.
WatchFairness == WF_watchVars(WatchNext)

WatchTypeOK ==
  /\ events \in Seq(Presets \cup {None})
  /\ pending \subseteq Presets /\ untold \subseteq Presets
  /\ deadline \in {"none", "ahead", "passed"}

\* Every change of a preset is told in a batch once the library is quiet, in
\* whatever order changes, uninteresting events and timeouts come.
ChangesTold == \A p \in Presets : p \in untold ~> p \notin untold
=============================================================================
