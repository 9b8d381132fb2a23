----------------------------- MODULE DeviceClaim -----------------------------
(***************************************************************************)
(* How the daemon takes the controller from the Native Instruments         *)
(* programs and gives it back: the claim (maschine-core/src/platform/      *)
(* macos.rs) stops or boots out the programs it finds, the transport       *)
(* (transport/nusb_impl.rs) holds the claim and the USB interfaces, tasks  *)
(* of the daemon (maschined/src/main.rs) share the transport, and the last *)
(* of them to let go of it drops it.                                       *)
(*                                                                         *)
(* The programs, external, start and exit as their users like, at most one *)
(* of each name.  One daemon runs at a time; it may crash anywhere and be  *)
(* started again.  Of the USB transfers only the display tasks' bulk OUT   *)
(* writes are here, one at a time each: a task that is dropped during its  *)
(* write leaves an abandoned transfer (vendor/nusb/src/transfer), which    *)
(* keeps the display interface open until its completion callback.         *)
(***************************************************************************)
EXTENDS SequencesExt

CONSTANT Names  \* NI_AGENT and CONFLICTING_APPS, in the order of the claim

ASSUME NamesAssumption ==
  /\ Names \in Seq(STRING) /\ Names # <<>> /\ IsInjective(Names)
  /\ "none" \notin ToSet(Names)

VARIABLES
  proc,       \* proc[p]: "running", "stopped" (SIGSTOP) or "gone"
  agentKnown, \* launchd has the agent's service
  pc,         \* where the daemon is
  unseen,     \* names the claim has not looked for yet
  target,     \* the program whose pid it has found, or None
  booted,     \* agent_was_bootable
  stopped,    \* stopped_pids
  unfound,    \* history: programs that pgrep failed to find in this claim
  granted,    \* history: prepare has returned the guard
  ifaces,     \* USB interfaces that fields of the transport refer to
  holders,    \* who has a clone of the Arc<Transport>
  reader,     \* the reader task, with a clone of the HID interface, exists
  transfer    \* transfer[t]: "none", "pending", or "abandoned" by t's drop

programVars == <<proc, agentKnown>>
claimVars == <<unseen, target, booted, stopped, unfound, granted>>
transportVars == <<ifaces, holders, reader, transfer>>
vars == <<programVars, pc, claimVars, transportVars>>

Programs == ToSet(Names)
Agent == Head(Names)
None == "none"
Locals == {"mk3", "transport"}        \* of main
Writers == {"left", "right"}          \* the display tasks
Tasks == Writers \cup {"osc"}         \* that main spawns

NoClaim ==
  /\ unseen' = <<>> /\ target' = None /\ booted' = FALSE /\ stopped' = <<>>
  /\ unfound' = {}

NoTransfer == [t \in Writers |-> "none"]

Init ==
  /\ proc \in [Programs -> {"running", "gone"}]
  /\ agentKnown \in BOOLEAN
  /\ pc = "off"
  /\ unseen = <<>> /\ target = None /\ booted = FALSE /\ stopped = <<>>
  /\ unfound = {} /\ granted = FALSE
  /\ ifaces = {} /\ holders = {} /\ reader = FALSE /\ transfer = NoTransfer

----------------------------------------------------------------------------
\* The programs and their users

ProgramExits(p) ==
  /\ proc[p] # "gone"
  /\ proc' = [proc EXCEPT ![p] = "gone"]
  /\ UNCHANGED <<agentKnown, pc, claimVars, transportVars>>

\* A process with a pid of its own: a SIGCONT for an earlier pid does nothing
\* to it.  (To exit and start again between pgrep and kill fails like to exit.)
ProgramStarts(p) ==
  /\ proc[p] = "gone" /\ target # p
  /\ p = Agent => agentKnown
  /\ proc' = [proc EXCEPT ![p] = "running"]
  /\ UNCHANGED <<agentKnown, pc, claimVars, transportVars>>

Continued(ps) == [p \in Programs |->
  IF p \in ps /\ proc[p] = "stopped" THEN "running" ELSE proc[p]]

\* examples/restore_agent.rs, run when no daemon runs.
RestoreTool ==
  /\ pc = "off"
  /\ proc' = Continued(Programs)
  /\ UNCHANGED <<agentKnown, pc, claimVars, transportVars>>

----------------------------------------------------------------------------
\* MacOsClaim::prepare

Start ==
  /\ pc = "off"
  /\ pc' = "dext"
  /\ granted' = FALSE /\ unfound' = {}
  /\ UNCHANGED <<programVars, unseen, target, booted, stopped, transportVars>>

\* DextTransport::open always answers that there is no driver extension.
NoDext ==
  /\ pc = "dext"
  /\ pc' = "claim"
  /\ unseen' = Names
  /\ UNCHANGED <<programVars, target, booted, stopped, unfound, granted, transportVars>>

\* Mutant of Found: a program that is stopped already needs nothing.
FoundRunning(p) == proc[p] = "running"

\* pgrep lists stopped processes too.
Found(p) == proc[p] # "gone"

Pgrep ==
  /\ pc = "claim" /\ target = None /\ unseen # <<>>
  /\ target' = IF Found(Head(unseen)) THEN Head(unseen) ELSE None
  /\ unseen' = Tail(unseen)
  /\ UNCHANGED <<programVars, pc, booted, stopped, unfound, granted, transportVars>>

\* pgrep cannot be run, or prints nothing that is a pid: the claim takes the
\* program for one that does not run.
PgrepFails ==
  /\ pc = "claim" /\ target = None /\ unseen # <<>>
  /\ Found(Head(unseen))
  /\ unfound' = unfound \cup {Head(unseen)}
  /\ unseen' = Tail(unseen)
  /\ UNCHANGED <<programVars, pc, target, booted, stopped, granted, transportVars>>

\* launchctl bootout; where it fails, the agent is stopped like the others.
Bootout ==
  /\ target = Agent /\ agentKnown
  /\ proc' = [proc EXCEPT ![Agent] = "gone"]
  /\ agentKnown' = FALSE
  /\ booted' = TRUE
  /\ target' = None
  /\ UNCHANGED <<pc, unseen, stopped, unfound, granted, transportVars>>

\* Mutant of Sigstop: the loop does not go on to the next program.
SigstopAgain ==
  /\ target # None /\ proc[target] # "gone"
  /\ proc' = [proc EXCEPT ![target] = "stopped"]
  /\ stopped' = Append(stopped, target)
  /\ UNCHANGED <<agentKnown, pc, target, unseen, booted, unfound, granted,
                 transportVars>>

Sigstop ==
  /\ target # None /\ proc[target] # "gone"
  /\ proc' = [proc EXCEPT ![target] = "stopped"]
  /\ stopped' = Append(stopped, target)
  /\ target' = None
  /\ UNCHANGED <<agentKnown, pc, unseen, booted, unfound, granted, transportVars>>

\* The process has exited since: prepare returns an error, and with it main.
\* What it had stopped and booted out before is forgotten.
SigstopFails ==
  /\ target # None /\ proc[target] = "gone"
  /\ pc' = "off"
  /\ NoClaim
  /\ UNCHANGED <<programVars, granted, transportVars>>

\* MIDIServer and usbaudiod are killed, for launchd to start again.
Grant ==
  /\ pc = "claim" /\ target = None /\ unseen = <<>>
  /\ granted' = TRUE
  /\ pc' = "open"
  /\ UNCHANGED <<programVars, unseen, target, booted, stopped, unfound, transportVars>>

----------------------------------------------------------------------------
\* NusbTransport::open, then main

ClaimInterface ==
  /\ pc = "open" /\ "display" \notin ifaces
  /\ ifaces' = IF ifaces = {} THEN {"hid"} ELSE {"hid", "display"}
  /\ UNCHANGED <<programVars, pc, claimVars, holders, reader, transfer>>

\* Maschine::open_with, and the display tasks.
SpawnTasks ==
  /\ pc = "open" /\ "display" \in ifaces
  /\ pc' = "start"
  /\ holders' = Locals \cup Writers
  /\ reader' = TRUE
  /\ UNCHANGED <<programVars, claimVars, ifaces, transfer>>

\* No controller, or an interface that cannot be claimed: the locals of open
\* are dropped, the guard, which came first, last.
OpenFails ==
  /\ pc = "open" /\ "display" \notin ifaces
  /\ pc' = "shutdown"
  /\ UNCHANGED <<programVars, claimVars, transportVars>>

Serve ==
  /\ pc = "start"
  /\ pc' = "serve"
  /\ holders' = holders \cup {"osc"}
  /\ UNCHANGED <<programVars, claimVars, ifaces, reader, transfer>>

\* The OSC socket fails: its pump ends.
OscEnds ==
  /\ pc = "serve"
  /\ holders' = holders \ {"osc"}
  /\ UNCHANGED <<programVars, pc, claimVars, ifaces, reader, transfer>>

\* The index cannot be opened or a socket not be bound; or a signal.
End ==
  /\ pc \in {"start", "serve"}
  /\ pc' = "ending"
  /\ UNCHANGED <<programVars, claimVars, transportVars>>

\* write_display of a display task, until the runtime drops the task.
Submit(t) ==
  /\ t \in holders /\ transfer[t] = "none"
  /\ transfer' = [transfer EXCEPT ![t] = "pending"]
  /\ UNCHANGED <<programVars, pc, claimVars, ifaces, holders, reader>>

\* The completion callback, on nusb's event thread: the task goes on, or the
\* transfer that nobody waits for is freed with its reference to the interface.
Complete(t) ==
  /\ transfer[t] # "none"
  /\ transfer' = [transfer EXCEPT ![t] = "none"]
  /\ UNCHANGED <<programVars, pc, claimVars, ifaces, holders, reader>>

----------------------------------------------------------------------------
\* main returns, and the runtime drops the tasks in any order

DropLocal ==
  /\ pc = "ending"
  /\ \E h \in holders \cap Locals : holders' = holders \ {h}
  /\ pc' = IF holders' \cap Locals = {} THEN "shutdown" ELSE pc
  /\ UNCHANGED <<programVars, claimVars, ifaces, reader, transfer>>

\* Mutant of Dropped: the OSC pump is a thread that the runtime does not end.
DroppedButOsc(t) == t # "osc" /\ holders' = holders \ {t}

Dropped(t) == holders' = holders \ {t}

\* The drop of a TransferHandle cancels what is pending and abandons it.
Abandoned(t) == [transfer EXCEPT ![t] = IF @ = "pending" THEN "abandoned" ELSE @]

DropTask ==
  /\ pc = "shutdown"
  /\ \E t \in holders :
       /\ Dropped(t)
       /\ transfer' = IF t \in Writers THEN Abandoned(t) ELSE transfer
  /\ UNCHANGED <<programVars, pc, claimVars, ifaces, reader>>

DropReader ==
  /\ pc = "shutdown" /\ reader
  /\ reader' = FALSE
  /\ UNCHANGED <<programVars, pc, claimVars, ifaces, holders, transfer>>

\* The last holder's drop drops the transport, field by field.  An interface
\* is closed with the last reference to it, which may be an abandoned
\* transfer's.
TransportDropped == pc = "shutdown" /\ holders = {}

DropInterface ==
  /\ TransportDropped
  /\ ifaces # {}
  /\ ifaces' = IF "hid" \in ifaces THEN ifaces \ {"hid"} ELSE {}
  /\ UNCHANGED <<programVars, pc, claimVars, holders, reader, transfer>>

\* Mutant of GuardDropped: the guard is the first field.
GuardDroppedFirst == TransportDropped

GuardDropped == TransportDropped /\ ifaces = {}

Sigcont ==
  /\ GuardDropped
  /\ stopped # <<>>
  /\ proc' = Continued({Head(stopped)})
  /\ stopped' = Tail(stopped)
  /\ UNCHANGED <<agentKnown, pc, unseen, target, booted, unfound, granted,
                 transportVars>>

\* launchctl bootstrap, "best-effort".
Bootstrap ==
  /\ GuardDropped
  /\ stopped = <<>> /\ booted
  /\ booted' = FALSE
  /\ \/ agentKnown' = TRUE /\ proc' = [proc EXCEPT ![Agent] = "running"]
     \/ UNCHANGED programVars
  /\ UNCHANGED <<pc, unseen, target, stopped, unfound, granted, transportVars>>

Exit ==
  /\ GuardDropped
  /\ stopped = <<>> /\ ~booted /\ ~reader
  /\ pc' = "off"
  /\ transfer' = NoTransfer
  /\ UNCHANGED <<programVars, claimVars, ifaces, holders, reader>>

\* kill -9, a panic that aborts, a power cut without the end of the programs:
\* nothing is dropped.
Crash ==
  /\ pc # "off"
  /\ pc' = "off"
  /\ NoClaim
  /\ granted' = FALSE
  /\ ifaces' = {} /\ holders' = {} /\ reader' = FALSE /\ transfer' = NoTransfer
  /\ UNCHANGED programVars

ShutDown ==
  \/ DropLocal \/ DropTask \/ DropReader \/ DropInterface
  \/ Sigcont \/ Bootstrap \/ Exit

Next ==
  \/ \E p \in Programs : ProgramExits(p) \/ ProgramStarts(p)
  \/ RestoreTool
  \/ Start \/ NoDext \/ Pgrep \/ PgrepFails \/ Bootout
  \/ Sigstop \/ SigstopFails \/ Grant
  \/ ClaimInterface \/ SpawnTasks \/ OpenFails \/ Serve \/ OscEnds \/ End
  \/ \E t \in Writers : Submit(t) \/ Complete(t)
  \/ ShutDown
  \/ Crash

\* What has been let go of is dropped; the runtime polls no task again.
Spec == Init /\ [][Next]_vars /\ WF_vars(ShutDown)

----------------------------------------------------------------------------

TypeOK ==
  /\ proc \in [Programs -> {"running", "stopped", "gone"}]
  /\ pc \in {"off", "dext", "claim", "open", "start", "serve", "ending", "shutdown"}
  /\ unseen \in Seq(Programs) /\ target \in Programs \cup {None}
  /\ stopped \in Seq(Programs) /\ Len(stopped) <= Len(Names)
  /\ unfound \subseteq Programs
  /\ agentKnown \in BOOLEAN /\ booted \in BOOLEAN
  /\ granted \in BOOLEAN /\ reader \in BOOLEAN
  /\ ifaces \subseteq {"hid", "display"} /\ holders \subseteq Locals \cup Tasks
  /\ transfer \in [Writers -> {"none", "pending", "abandoned"}]

\* A daemon that was granted the claim and did not crash leaves no program
\* stopped when it has ended, on whichever path: neither one it stopped itself
\* nor one that a crash or a failed claim before it had left stopped.  The
\* exception are the programs that pgrep failed to find.
CleanEndRestores ==
  pc = "off" /\ granted => \A p \in Programs : proc[p] = "stopped" => p \in unfound

\* No program goes on while the daemon can still use the display, which the
\* program would want: its field is gone, no task is left that could submit
\* another write, and what was under way has been cancelled.  (A cancelled
\* write keeps the interface open until its callback; nothing waits for that.)
DisplayFirst ==
  [][\A p \in Programs :
       proc[p] = "stopped" /\ proc'[p] = "running" =>
         /\ "display" \notin ifaces /\ holders = {}
         /\ \A t \in Writers : transfer[t] # "pending"]_vars

\* Once main returns, every program in stopped_pids goes on again, unless the
\* daemon crashes: no task keeps the transport from being dropped.
EndingRestores ==
  \A p \in Programs :
    pc = "ending" /\ p \in ToSet(stopped) ~>
      proc[p] # "stopped" \/ (pc = "off" /\ ~granted)
=============================================================================
