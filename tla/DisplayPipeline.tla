-------------------------- MODULE DisplayPipeline --------------------------
(***************************************************************************)
(* One display of the controller: the shared framebuffer that painters     *)
(* modify, the scheduler task that encodes its dirty tiles, and the panel  *)
(* that receives the encoded payload over bulk OUT                         *)
(* (crates/maschine-core/src/display).                                     *)
(*                                                                         *)
(* A tile's content is the number of the `modify` call that last painted   *)
(* it, 0 when none has.  The contents of a payload are therefore ordered   *)
(* by age, which is what the properties below need; module FrameEncoder    *)
(* goes down to the pixels and commands of a single payload.               *)
(***************************************************************************)
EXTENDS Naturals

CONSTANTS Tiles,      \* the 16x16-pixel tiles of the screen
          MaxPaints   \* bound: calls of modify explored

ASSUME TilesAssumption == Tiles # {}
ASSUME MaxPaintsAssumption == MaxPaints \in Nat

VARIABLES
  paints,    \* calls of modify so far; stamps the tiles each call paints
  fb,        \* fb[t]: content of tile t in the framebuffer
  dirty,     \* tiles set in the framebuffer's DirtyTracker
  notified,  \* the permit stored by Notify::notify_one
  sched,     \* where the scheduler task is in its loop
  sending,   \* tiles encoded in the payload being written
  payload,   \* payload[t]: content the payload holds for t \in sending
  panel,     \* panel[t]: content the hardware shows
  lost       \* history: lost[t]: newest content of t dropped by a failed write

painterVars == <<paints, fb>>
vars == <<paints, fb, dirty, notified, sched, sending, payload, panel, lost>>

Stamps == 0..MaxPaints

Init ==
  /\ paints = 0
  /\ fb = [t \in Tiles |-> 0]
  /\ dirty = {}
  /\ notified = FALSE
  /\ sched = "waiting"
  /\ sending = {}
  /\ payload = [t \in Tiles |-> 0]
  /\ panel = [t \in Tiles |-> 0]
  /\ lost = [t \in Tiles |-> 0]

----------------------------------------------------------------------------

\* Mutant of Modify: mark_tile without its bounds check.
ModifyUnclipped(painted, marked) ==
  /\ paints < MaxPaints
  /\ painted \subseteq marked
  /\ paints' = paints + 1
  /\ fb' = [t \in Tiles |-> IF t \in painted THEN paints + 1 ELSE fb[t]]
  /\ dirty' = dirty \cup marked \cup {"off screen"}
  /\ notified' = TRUE
  /\ UNCHANGED <<sched, sending, payload, panel, lost>>

\* modify(f): f runs under the framebuffer lock and has no await, so it is
\* one step.  It paints some tiles and marks at least those (fill_rect,
\* set_pixel and clear mark what they paint; touch may mark more).
Modify(painted, marked) ==
  /\ paints < MaxPaints
  /\ painted \subseteq marked
  /\ paints' = paints + 1
  /\ fb' = [t \in Tiles |-> IF t \in painted THEN paints + 1 ELSE fb[t]]
  /\ dirty' = dirty \cup marked
  /\ notified' = TRUE
  /\ UNCHANGED <<sched, sending, payload, panel, lost>>

\* The select!: woken by the stored permit, or by the frame tick, which
\* always comes again.
Wake ==
  /\ sched = "waiting"
  /\ sched' = "flushing"
  /\ \/ notified /\ notified' = FALSE
     \/ UNCHANGED notified
  /\ UNCHANGED <<painterVars, dirty, sending, payload, panel, lost>>

\* Mutant of Flush: a run is coalesced over clean tiles whose pixels the
\* encoder does not copy.
FlushZeroFills ==
  /\ sched = "flushing"
  /\ IF dirty = {}
     THEN /\ sched' = "waiting"
          /\ UNCHANGED <<dirty, sending, payload>>
     ELSE /\ sched' = "writing"
          /\ sending' = Tiles
          /\ payload' = [t \in Tiles |-> IF t \in dirty THEN fb[t] ELSE 0]
          /\ dirty' = {}
  /\ UNCHANGED <<painterVars, notified, panel, lost>>

\* Under the framebuffer lock: encode_frame copies the dirty tiles into the
\* payload and clears the tracker.  With nothing dirty the loop goes round.
Flush ==
  /\ sched = "flushing"
  /\ IF dirty = {}
     THEN /\ sched' = "waiting"
          /\ UNCHANGED <<dirty, sending, payload>>
     ELSE /\ sched' = "writing"
          /\ sending' = dirty
          /\ payload' = fb
          /\ dirty' = {}
  /\ UNCHANGED <<painterVars, notified, panel, lost>>

\* What the panel shows once the tiles in `written` took their new content.
Written(written) ==
  [t \in Tiles |-> IF t \in written THEN payload[t] ELSE panel[t]]

\* The history of losses once the new content of `dropped` was not delivered.
Dropped(dropped) ==
  [t \in Tiles |-> IF t \in dropped THEN payload[t] ELSE lost[t]]

\* Mutant of WriteOk: the tracker is cleared when the payload is delivered.
WriteOkClears ==
  /\ sched = "writing"
  /\ panel' = Written(sending)
  /\ dirty' = {}
  /\ sending' = {}
  /\ sched' = "waiting"
  /\ UNCHANGED <<painterVars, notified, payload, lost>>

\* write_display returned Ok: the whole payload reached the panel.
WriteOk ==
  /\ sched = "writing"
  /\ panel' = Written(sending)
  /\ sending' = {}
  /\ sched' = "waiting"
  /\ UNCHANGED <<painterVars, dirty, notified, payload, lost>>

\* Mutant of WriteFail: the task returns the error.
WriteFailStops(written) ==
  /\ sched = "writing"
  /\ written \subseteq sending
  /\ panel' = Written(written)
  /\ lost' = Dropped(sending \ written)
  /\ sending' = {}
  /\ sched' = "stopped"
  /\ UNCHANGED <<painterVars, dirty, notified, payload>>

\* write_display returned Err: some part of the payload may have reached the
\* panel before the transfer failed; the rest is dropped with the payload.
WriteFail(written) ==
  /\ sched = "writing"
  /\ written \subseteq sending
  /\ panel' = Written(written)
  /\ lost' = Dropped(sending \ written)
  /\ sending' = {}
  /\ sched' = "backoff"
  /\ UNCHANGED <<painterVars, dirty, notified, payload>>

\* The 20 ms sleep after a failed write.
BackoffElapsed ==
  /\ sched = "backoff"
  /\ sched' = "waiting"
  /\ UNCHANGED <<painterVars, dirty, notified, sending, payload, panel, lost>>

WriteReturns == WriteOk \/ \E written \in SUBSET Tiles : WriteFail(written)

Next ==
  \/ \E painted, marked \in SUBSET Tiles : Modify(painted, marked)
  \/ Wake
  \/ Flush
  \/ WriteReturns
  \/ BackoffElapsed

\* Painters may stop at any time.  The scheduler is a tokio task that is
\* always polled again, and the USB stack completes every transfer, with
\* success or with an error.
Fairness ==
  /\ WF_vars(Wake)
  /\ WF_vars(Flush)
  /\ WF_vars(WriteReturns)
  /\ WF_vars(BackoffElapsed)

Spec == Init /\ [][Next]_vars
FairSpec == Spec /\ Fairness

----------------------------------------------------------------------------

TypeOK ==
  /\ paints \in Stamps
  /\ fb \in [Tiles -> Stamps]
  /\ dirty \subseteq Tiles
  /\ notified \in BOOLEAN
  /\ sched \in {"waiting", "flushing", "writing", "backoff"}
  /\ sending \subseteq Tiles
  /\ payload \in [Tiles -> Stamps]
  /\ panel \in [Tiles -> Stamps]
  /\ lost \in [Tiles -> Stamps]

\* A tile whose panel content differs from the framebuffer is still on its
\* way: it is dirty, or in the payload being written with the framebuffer's
\* content, or exactly that content was lost with a failed write.  The tracker
\* is cleared when the payload is encoded and not when it is delivered
\* (encoder.rs, mod.rs), so a painter that runs during the write must find its
\* tile dirty afterwards.
NoUpdateForgotten ==
  \A t \in Tiles :
    panel[t] # fb[t] =>
      \/ t \in dirty
      \/ t \in sending /\ payload[t] = fb[t]
      \/ lost[t] = fb[t]

\* What the payload and the panel hold is never newer than the framebuffer,
\* and the payload is at least as new as the panel.
Aged ==
  \A t \in Tiles :
    /\ fb[t] <= paints
    /\ panel[t] <= fb[t]
    /\ t \in sending => panel[t] <= payload[t] /\ payload[t] <= fb[t]

\* The tiles of a payload that are not dirty again hold the current content.
PayloadCurrent ==
  \A t \in sending : t \notin dirty => payload[t] = fb[t]

\* There is a payload only while it is written.
PayloadOnlyWhileWriting ==
  sending # {} <=> sched = "writing"

\* The inductive invariant.
IInv ==
  /\ TypeOK
  /\ NoUpdateForgotten
  /\ Aged
  /\ PayloadCurrent
  /\ PayloadOnlyWhileWriting

Mirror == INSTANCE TileMirror WITH wanted <- fb, shown <- panel

\* The pipeline implements the abstract display: a tile of the panel never
\* goes back to an older painting and never shows what no painter drew.
\* Payloads reach the hardware in the order they were encoded, also around
\* failed writes and whatever is painted meanwhile.
MirrorsFramebuffer == Mirror!Spec

\* Every painting of a tile is eventually shown, or a later one of the same
\* tile is, unless the write that carried it failed: the tick wakes the
\* scheduler even when the permit was consumed by an earlier pass.
PaintsShown ==
  \A t \in Tiles : \A v \in 1..MaxPaints :
    fb[t] >= v ~> (panel[t] >= v \/ lost[t] >= v)

============================================================================
