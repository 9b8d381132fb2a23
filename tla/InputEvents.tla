---------------------------- MODULE InputEvents ----------------------------
(***************************************************************************)
(* From the HID reports of the controller to the events a client takes     *)
(* (crates/maschine-core/src/device.rs, the reader of nusb_impl.rs and the *)
(* parsers of crates/maschine-proto/src/hid_in.rs).                        *)
(*                                                                         *)
(* Reports carry positions and pressures, events carry changes: the diff   *)
(* task holds the state between them.  The device and the client, both     *)
(* external, are the two ends: what the device last reported, and what the *)
(* client makes of the events.                                             *)
(*                                                                         *)
(* One encoder stands for the eight macro encoders and the master encoder, *)
(* and one knob for the three analog knobs.                                *)
(***************************************************************************)
EXTENDS Integers, SequencesExt

CONSTANTS Buttons,      \* bits of the button mask
          ENCODER_WRAP, \* positions of an encoder (1024)
          Starts,       \* positions in which the encoder may be found
          Positions,    \* strip positions used
          Knob,         \* knob values used, 0 among them
          Pads,         \* pad numbers, 0 among them
          Pressures,    \* raw pressures used, 0 among them
          PadReports,   \* sequences of [pad, pressure] slots the device sends
          pad_off_threshold, pad_on_threshold, pad_pressure_step,
          RawCap,       \* capacity of the report channel (256)
          EventCap,     \* event_capacity (1024)
          MaxReports    \* bound: reports explored

ASSUME InputAssumption ==
  /\ ENCODER_WRAP \in Nat /\ ENCODER_WRAP > 2 /\ ENCODER_WRAP % 2 = 0
  /\ Starts \subseteq 0..ENCODER_WRAP-1
  /\ IsFiniteSet(Buttons) /\ 0 \in Knob
  /\ 0 \in Pads /\ 0 \in Pressures /\ {Pads, Pressures} \subseteq SUBSET Nat
  /\ PadReports \subseteq Seq([pad : Pads, pressure : Pressures])
  /\ pad_off_threshold \in Nat /\ pad_on_threshold \in Nat
  /\ pad_off_threshold < pad_on_threshold
  /\ pad_pressure_step \in Nat
  /\ RawCap \in Nat \ {0} /\ EventCap \in Nat \ {0} /\ MaxReports \in Nat

VARIABLES
  device,    \* what the device last reported: its controls, the encoder without
             \* the wrap, and its pads; first: the encoder in the first report
  reader,    \* the reader task: "running" or "ended"
  raw,       \* the report channel
  diff,      \* the diff task: "receiving", "sending" or "ended"
  controls,  \* DiffState.controls
  pads,      \* DiffState.pad_on and pad_pressures, and raw_pad_stream
  out,       \* events of the current report not yet sent
  events,    \* the event channel
  open,      \* the client holds its end of the channel
  client,    \* what the client makes of the events
  reports    \* reports so far

taskVars == <<reader, diff>>
diffVars == <<controls, pads>>
vars == <<device, raw, taskVars, diffVars, out, events, open, client, reports>>

None == "none"
Rest == [buttons |-> {}, encoder |-> 0, strip |-> None, knob |-> 0]

Init ==
  /\ \E start \in Starts :
       device = [controls |-> [Rest EXCEPT !.encoder = start], first |-> {},
                 pressure |-> [p \in Pads |-> 0]]
  /\ reader = "running"
  /\ raw = <<>>
  /\ diff = "receiving"
  /\ controls = Rest
  /\ \E stream \in BOOLEAN :
       pads = [on |-> {}, pressures |-> [p \in Pads |-> 0], raw_stream |-> stream]
  /\ out = <<>>
  /\ events = <<>>
  /\ open = TRUE
  /\ client = [buttons |-> {}, encoder |-> 0, strip |-> None, knob |-> 0, held |-> {}]
  /\ reports = 0

----------------------------------------------------------------------------
\* The device and the reader

\* A transfer completes and the reader passes its report on, or finds the
\* diff task gone and ends.  A full channel holds the reader back, and the
\* reader the device.
Report(report) ==
  /\ reader = "running"
  /\ reports < MaxReports
  /\ IF diff = "ended" THEN reader' = "ended" /\ raw' = raw
     ELSE /\ Len(raw) < RawCap
          /\ raw' = Append(raw, report)
          /\ reader' = reader
  /\ reports' = reports + 1
  /\ UNCHANGED <<diff, diffVars, out, events, open, client>>

\* Between two reports the encoder turns less than half a revolution.
ReportControls ==
  \E pressed \in SUBSET Buttons, turn \in {-1, 0, 1},
     strip \in Positions \cup {None}, knob \in Knob :
    LET now == [buttons |-> pressed, encoder |-> device.controls.encoder + turn,
                strip |-> strip, knob |-> knob]
    IN  /\ Report([id |-> "controls",
                   controls |-> [now EXCEPT !.encoder = @ % ENCODER_WRAP]])
        /\ device' = [device EXCEPT !.controls = now,
                        !.first = IF @ = {} THEN {now.encoder} ELSE @]

Press(pressure, s) == [pressure EXCEPT ![s.pad] = s.pressure]

ReportPads ==
  \E slots \in PadReports :
    /\ Report([id |-> "pads", slots |-> slots])
    /\ device' = [device EXCEPT !.pressure =
         FoldLeft(Press, @, slots)]

\* A report of another id, too short, or with a pad number that is none: parse
\* refuses all of it, and the controller, whose pads are numbered from 0 to 15,
\* puts nothing into it that it did not put into another.
ReportOther == Report([id |-> "other"]) /\ UNCHANGED device

----------------------------------------------------------------------------
\* The diff task

\* Mutant of EncoderDelta: the difference is not brought to the short way.
EncoderDeltaUnsigned(prev, now) == (now - prev) % ENCODER_WRAP

\* encoder_delta: the short way around the wrap.
EncoderDelta(prev, now) ==
  LET turned == (now - prev) % ENCODER_WRAP
  IN  IF turned > ENCODER_WRAP \div 2 THEN turned - ENCODER_WRAP ELSE turned

When(condition, event) == IF condition THEN <<event>> ELSE <<>>

\* Mutant of StripEvents: an untouched strip is never told.
StripEventsNoRelease(was, now) ==
  When(now # None, [type |-> "strip", at |-> now])

StripEvents(was, now) ==
  When(now # None, [type |-> "strip", at |-> now])
  \o When(was # None /\ now = None, [type |-> "strip", at |-> None])

\* emit_controls: what differs from the report before, from all zeros at first.
ControlEvents(was, now) ==
  SetToSeq({[type |-> "button", bit |-> b, pressed |-> b \in now.buttons] :
              b \in (was.buttons \ now.buttons) \cup (now.buttons \ was.buttons)})
  \o When(EncoderDelta(was.encoder, now.encoder) # 0,
        [type |-> "encoder", delta |-> EncoderDelta(was.encoder, now.encoder)])
  \o StripEvents(was.strip, now.strip)
  \o When(was.knob # now.knob, [type |-> "knob", value |-> now.knob])

\* Mutant of IsSample: a pressure of zero is taken for an empty slot.
IsSamplePressed(s) == s.pressure # 0

\* parse_pads: a slot of zeros is an empty one.
IsSample(s) == s.pad # 0 \/ s.pressure # 0

AbsDiff(a, b) == IF a < b THEN b - a ELSE a - b

PhaseEvent(s, phase) == [type |-> "pad", pad |-> s.pad, phase |-> phase]

\* emit_pads: the phase of the event that a sample gives rise to, if any.
Phase(state, s) ==
  LET was_on == s.pad \in state.on IN
  CASE state.raw_stream -> "pressure"
    [] ~state.raw_stream /\ ~was_on /\ s.pressure >= pad_on_threshold -> "attack"
    [] ~state.raw_stream /\ was_on /\ s.pressure <= pad_off_threshold -> "release"
    [] ~state.raw_stream /\ was_on /\ s.pressure > pad_off_threshold
       /\ AbsDiff(s.pressure, state.pressures[s.pad]) >= pad_pressure_step
       -> "pressure"
    [] OTHER -> None

\* Mutant of NextPads: a pad that is released stays on.
NextPadsKeepOn(state, s) ==
  [state EXCEPT !.on = IF Phase(state, s) = "attack" THEN @ \cup {s.pad} ELSE @,
                !.pressures[s.pad] = s.pressure]

NextPads(state, s) ==
  [state EXCEPT !.on = CASE Phase(state, s) = "attack" -> @ \cup {s.pad}
                         [] Phase(state, s) = "release" -> @ \ {s.pad}
                         [] OTHER -> @,
                !.pressures[s.pad] = s.pressure]

PadStep(acc, s) ==
  IF IsSample(s)
  THEN [state |-> NextPads(acc.state, s),
        sent |-> acc.sent \o When(Phase(acc.state, s) # None,
                                PhaseEvent(s, Phase(acc.state, s)))]
  ELSE acc

\* The samples of a report, one after the other.
EmitPads(slots) == FoldLeft(PadStep, [state |-> pads, sent |-> <<>>], slots)

\* A report is parsed and its events determined: the state they depend on is
\* the task's own.
TakeReport ==
  /\ diff = "receiving"
  /\ raw # <<>>
  /\ LET report == Head(raw) IN
       CASE report.id = "controls" ->
              /\ out' = ControlEvents(controls, report.controls)
              /\ controls' = report.controls
              /\ diff' = "sending"
              /\ UNCHANGED pads
         [] report.id = "pads" ->
              LET emitted == EmitPads(report.slots) IN
              /\ out' = emitted.sent
              /\ pads' = emitted.state
              /\ diff' = "sending"
              /\ UNCHANGED controls
         [] OTHER -> UNCHANGED <<out, diff, diffVars>>
  /\ raw' = Tail(raw)
  /\ UNCHANGED <<device, reader, events, open, client, reports>>

\* Mutant of Send: what the channel has no room for is pushed all the same.
SendUnbounded ==
  /\ diff = "sending"
  /\ out # <<>>
  /\ events' = IF open THEN Append(events, Head(out)) ELSE events
  /\ out' = Tail(out)
  /\ UNCHANGED <<device, raw, taskVars, diffVars, open, client, reports>>

\* Mutant of Send: try_send(), which drops what the channel has no room for.
SendDropsWhenFull ==
  /\ diff = "sending"
  /\ out # <<>>
  /\ events' = IF open /\ Len(events) < EventCap THEN Append(events, Head(out))
               ELSE events
  /\ out' = Tail(out)
  /\ UNCHANGED <<device, raw, taskVars, diffVars, open, client, reports>>

\* tx.send(): waits while the channel is full, and fails, the failure being
\* ignored, when the client is gone.
Send ==
  /\ diff = "sending"
  /\ out # <<>>
  /\ open => Len(events) < EventCap
  /\ events' = IF open THEN Append(events, Head(out)) ELSE events
  /\ out' = Tail(out)
  /\ UNCHANGED <<device, raw, taskVars, diffVars, open, client, reports>>

\* All is sent.  The task looks whether the client is gone, and then ends and
\* with it the report channel.
Finish ==
  /\ diff = "sending"
  /\ out = <<>>
  /\ diff' = IF open THEN "receiving" ELSE "ended"
  /\ raw' = IF open THEN raw ELSE <<>>
  /\ UNCHANGED <<device, reader, diffVars, out, events, open, client, reports>>

----------------------------------------------------------------------------
\* The client

\* What the client makes of one event.
Apply(c, e) ==
  CASE e.type = "button" ->
         [c EXCEPT !.buttons = IF e.pressed THEN @ \cup {e.bit} ELSE @ \ {e.bit}]
    [] e.type = "encoder" -> [c EXCEPT !.encoder = @ + e.delta]
    [] e.type = "strip" -> [c EXCEPT !.strip = e.at]
    [] e.type = "knob" -> [c EXCEPT !.knob = e.value]
    [] e.type = "pad" ->
         [c EXCEPT !.held = CASE e.phase = "attack" -> @ \cup {e.pad}
                              [] e.phase = "release" -> @ \ {e.pad}
                              [] OTHER -> @]

TakeEvent ==
  /\ open
  /\ events # <<>>
  /\ client' = Apply(client, Head(events))
  /\ events' = Tail(events)
  /\ UNCHANGED <<device, raw, taskVars, diffVars, out, open, reports>>

\* The client drops the stream.
Close ==
  /\ open
  /\ open' = FALSE
  /\ events' = <<>>
  /\ UNCHANGED <<device, raw, taskVars, diffVars, out, client, reports>>

Next ==
  \/ ReportControls \/ ReportPads \/ ReportOther
  \/ TakeReport \/ Send \/ Finish
  \/ TakeEvent \/ Close

Spec == Init /\ [][Next]_vars

\* The tasks are polled again, and a client that holds the stream reads it.
FairSpec == Spec /\ WF_vars(TakeReport \/ Send \/ Finish) /\ WF_vars(TakeEvent)

----------------------------------------------------------------------------

Controls == [buttons : SUBSET Buttons, encoder : 0..ENCODER_WRAP-1,
             strip : Positions \cup {None}, knob : Knob]
Phases == {"attack", "pressure", "release"}

TypeOK ==
  /\ reader \in {"running", "ended"}
  /\ diff \in {"receiving", "sending", "ended"}
  /\ controls \in Controls
  /\ pads \in [on : SUBSET Pads, pressures : [Pads -> Pressures],
              raw_stream : BOOLEAN]
  /\ Len(raw) <= RawCap /\ Len(events) <= EventCap
  /\ \A e \in Range(events \o out) :
       e.type = "pad" => e.pad \in Pads /\ e.phase \in Phases
  /\ open \in BOOLEAN
  /\ client.encoder \in Int /\ client.held \subseteq Pads
  /\ reports \in 0..MaxReports

\* All events on their way to the client, in order.
Coming == events \o out

\* A client that applies the events on their way has the picture that the
\* diff task holds, and its sum of encoder deltas is, modulo the wrap, the
\* position reported: no edge is lost, doubled or out of order between the
\* state that suppresses duplicates and the channel that may be full.
ClientWillAgree ==
  open =>
    LET then == FoldLeft(Apply, client, Coming) IN
    /\ then.buttons = controls.buttons
    /\ then.encoder % ENCODER_WRAP = controls.encoder
    /\ then.strip = controls.strip
    /\ then.knob = controls.knob
    /\ then.held = pads.on

\* The encoder's true rotation: when nothing is on its way, what the deltas
\* after the first report add up to is how far the knob has turned since, not
\* merely modulo the wrap.
EncoderTurnsAddUp ==
  open /\ raw = <<>> /\ Coming = <<>> =>
    \A first \in device.first :
      client.encoder - EncoderDelta(0, first % ENCODER_WRAP)
        = device.controls.encoder - first

\* Each pad's events are an attack, pressures while it is held, a release, and
\* so on from the attack (event.rs:10): a client need not keep state of its own
\* to tell a new press from a pressure.  (Not so with raw_pad_stream.)
PhasesAlternate ==
  open /\ ~pads.raw_stream =>
    \A i \in DOMAIN Coming :
      LET before == FoldLeft(Apply, client, SubSeq(Coming, 1, i - 1)) IN
      Coming[i].type = "pad" =>
        (Coming[i].phase = "attack") = (Coming[i].pad \notin before.held)

\* A pad that the client has as held was last reported above the threshold of
\* release, when nothing is on its way.
HeldIsPressed(some) ==
  open /\ raw = <<>> /\ Coming = <<>> =>
    \A p \in some \cap client.held : device.pressure[p] > pad_off_threshold

\* So it is for every pad but pad 0: a client is never left with a pad that
\* hangs.
NoPadHangs == HeldIsPressed(Pads \ {0})

\* "Crossed back below the off-threshold" (event.rs:15) is reported of every
\* pad.
EveryReleaseReported == HeldIsPressed(Pads)

\* In the end, when the device has no more to report, the client has the
\* buttons, the strip and the knob as they are, unless it dropped the stream:
\* full channels hold the tasks up and lose nothing.
ClientCatchesUp ==
  <>[](open => /\ client.buttons = device.controls.buttons
               /\ client.strip = device.controls.strip
               /\ client.knob = device.controls.knob)
=============================================================================
