# Verification of openmk3

TLA+ models of openmk3, the daemon and macOS driver extension that drive a
Maschine Mk3 controller, the TLC runs that check them on small instances, and
TLAPS proofs of what matters most for every instance. File names below are
relative to the repository. `PROJECT.json` holds the lists behind this text: the
components, the runs and the mutants that break each property, the code lines
each definition models, the hazards, the findings and the theorems.

## 1. The system

| Component | State it keeps | Operations | Talks to |
|---|---|---|---|
| Display pipeline (`maschine-core/src/display/mod.rs`) | framebuffer and dirty tiles under a mutex, a `Notify` permit, the payload being written | `modify`, the scheduler task's loop | painters (shared state), USB transport (await) |
| Framebuffer, dirty tracker, encoder (`framebuffer.rs`, `dirty.rs`, `encoder.rs`, `maschine-proto/src/display.rs`) | pixels, 510 tile bits | `clear`, `set_pixel`, `fill_rect`, `touch`, `encode_frame` | the controller's display decoder |
| Input events (`device.rs`, `nusb_impl.rs`, `maschine-proto/src/hid_in.rs`) | last controls report, pads' on-bits and pressures; report channel (256), event channel (1024) | reader task, parsers, diff task | controller, event client |
| Plugin sessions (`maschined/src/session.rs`) and plugin host (`pluginhost/src`) | sessions by bundle, pending oneshot senders by id, pipes, event channel (128) | `load`, `midi`, `shutdown`, the read loop, the host's request loop | operation pump, plugin processes |
| Daemon (`maschined/src/main.rs`, `ipc.rs`, `maschine-ui/src/browse.rs`, `render.rs`) | browse state under a mutex, operation channel (64), two screens | four operations, encoder navigation, background scan, signals | everything above |
| HID transport of the driver extension (`MaschineMk3HidTransport.cpp`) | atomic mask of OUT slots, one IN read, client pointer | `SubmitHidOut`, completions, `Stop`, attach/detach | USB stack, user client |
| Display transport of the driver extension (`MaschineMk3DisplayTransport.cpp`) | ring of 16 buffers, head, in-flight count, sequence numbers, client pointer | `SubmitBulkOut`, bundled completion, `Stop`, attach/detach | USB stack, user client |
| User client (`MaschineMk3UserClient.cpp`) | stored completions, transport pointer | start, stop, dispatch, delivery | the two transports |
| Platform claim and transport lifetime (`platform/macos.rs`, `nusb_impl.rs`, `main.rs`) | stopped pids, booted-out agent, claimed interfaces, clones of the `Arc` of the transport | `prepare`, `open`, task spawns, the drops at the end, `restore_agent` | NI programs, launchd, every task of the daemon |
| Library index (`nks-index`) | SQLite tables, one write transaction, the walk of each scan, the watcher's pending batch and deadline | scan, upsert, query, watch | file system, daemon, `mkindex` |
| NKS parser, plugin registry, OSC, LED reports, dext client stub, `msctl`, packaging | none over time, or little | | |

What is hard in it, and what makes each component correct:

- **Display.** The tracker is cleared when a payload is encoded, not when it is
  delivered. A painter may run during the write, the write may fail, one permit
  stands for any number of paintings. Correct means: no update is forgotten, the
  panel never goes back in time, every painting is shown or superseded unless
  its write failed, and the encoded commands repaint exactly what was marked.
- **Input.** Reports carry positions, events carry changes; two bounded channels
  in a row may be full in the middle of a report; the encoder wraps; pads have
  two thresholds. Correct means: the client, who only sees events, ends up with
  the controller's state, and each pad's events alternate.
- **Sessions.** Calls interleave on one pair of pipes, events share the stream
  with replies, and the host runs foreign code that dies. Correct means: each
  reply to its caller, none lost or doubled, every call returns.
- **Daemon.** Three tasks change and repaint the browse state with awaits
  between the steps; the pump serves one operation at a time inside its
  `select!`; only a window of the rows is drawn. Correct means: the screens agree
  with the state, the selected row is seen and highlighted, one reply per
  operation, and a signal stops the daemon.
- **Claim.** Programs exit and start while they are looked for and stopped; a
  claim may fail half-way, or not find a program that is there; what undoes it is the
  drop of a field of a struct that main and tasks share, while their USB transfers are
  under way; the daemon may crash. Correct means: after an end without a crash no
  program that the claim found is left stopped, the display is not used any more when a
  program goes on, and the end comes.
- **Library index.** Files are saved and deleted under the scan; metadata and
  content are read at different moments; an upsert is several statements, each of
  which may fail, in one of several processes. Correct means: searches agree with
  the rows, no row looks current that is not, a scan passes over nothing that the file
  system gave it and that it does not count as failed, and every change is told.
- **Driver extension.** Completions run against submissions and `Stop`. Correct
  means: each buffer has one owner, counts are exact, nothing survives `Stop`,
  no pointer to a stopped client is kept, frames are told in order.

## 2. Modules

| Module | Models | State and actions |
|---|---|---|
| `TileMirror` | what a display promises (abstract) | `wanted` and `shown` per tile; `Paint` replaces content by newer content, `Refresh` brings some tiles forward |
| `DisplayPipeline` | one display of the daemon | a tile's content is the number of the `modify` call that painted it. `Modify` (one step: the closure runs under the lock, without an await), `Wake` (the `select!`), `Flush` (encode and clear under the lock), `WriteOk`/`WriteFail`, `BackoffElapsed`. `lost` is a history variable |
| `FrameEncoder` | the pixels of a frame | `pixels`, `bits` (the `DirtyTracker`), and `shown`, what the decoder (external, `Receive`) makes of the encoded commands. Its names differ from those of `DisplayPipeline` so that one module proves about both |
| `PluginSession` | sessions, callers, host | two steps of a call (`Register`, `Write`) and its end (`Return`), the host's `HostRead`, `HostAnnounce`, `HostReply`, `HostDies`, the read loop's `ReadEvent`, `ReadReply`, `ReadEof`, the event pump |
| `Daemon` | main.rs and ipc.rs, composed with an instance of `PluginSession` whose only caller is the pump | `task[t]` is where the pump, the navigation task and the background scan are; every await at which another task can run separates two actions |
| `InputEvents` | controller to client | `Report*` (reader), `TakeReport`, `Send` (one event at a time, waiting while the channel is full), `Finish`, `TakeEvent`, `Close` |
| `HidTransport` | the dext's HID transport | each atomic operation on the mask is a step: `Load`, `Claim`, `Retry`, `Full`, `Transfer`, `Abandon`, `OutComplete`; `InComplete`/`InAborted` with `Requeue`; `Stop`; `ClientStart`, `ClientStop`; `Crash`, the end of the driver's process on a pipe that `Stop` has released |
| `DisplayRing` | the dext's display transport | `Reserve`, `Fill`, `NoAddress`, `Accept`, `Refuse` between which the ring lock is free; `Complete` and `Tell`, which goes on with the client that `Complete` found (`teller`) whoever is attached (`userClient`) now; `ClientStart`, which attaches over another, `Register`, `ClientStop`; `Stop`; `Crash`, the end of the process on a client or a pipe that is gone |
| `DeviceClaim` | claim, transport lifetime, end of the daemon | the claim looks for one name at a time (`Pgrep`, `PgrepFails`), then `Bootout`, `Sigstop` or `SigstopFails`; `ClaimInterface`, `SpawnTasks`, `OpenFails`, `Serve`; the display tasks' writes, `Submit` and `Complete`; `DropLocal`, `DropTask`, `DropReader` in any order, then, with no holder left, the transport's fields: `DropInterface`, `Sigcont`, `Bootstrap`. A write whose task is dropped is `Abandoned`. `unfound` is a history variable. `Crash` anywhere; the programs' own `ProgramStarts`, `ProgramExits` |
| `LibraryIndex` | scanners, tables, queries | the walk (`RootMissing`, `ReadFolder`, `ReadFails`), `Stat`, `Parse`, then a transaction of four statements (`InsertRow`, `ReplaceTypes`, `ReplaceWords`, `Commit`), `Busy`, `StatementFails`, `Crash`; `Results` is `query::run`. A preset's content is the number of the save. `lost` is a history variable of a scan: the presets whose entries it was not given |
| `LibraryWatcher` | the watch thread, part of `LibraryIndex` | `Notify`, `Receive`, `DebounceElapses`, `OnBatch` |
| `Display_proofs`, `PluginSession_proofs`, `Daemon_proofs`, `HidTransport_proofs`, `DisplayRing_proofs`, `LibraryIndex_proofs`, `DeviceClaim_proofs`, `InputEvents_proofs` | | theorems, section 5 |
| `MC*` | | instances for TLC |

How they fit together: a repaint of `Daemon` is a `Modify` of `DisplayPipeline`;
`Flush` there is `EncodedFrame` of `FrameEncoder`; on the input side the events
of `InputEvents` are the `Turn`s of `Daemon`. `Daemon` instantiates
`PluginSession`; the others are checked apart, since they share no state but the
framebuffer and the events just named. `LibraryIndex` composes scanners and
watcher over one library; the rows its queries return are the `Results` of `Daemon`.
The dext's transports are not yet reached by the daemon: `dext_impl.rs` is a stub
that answers NotFound, which is the action `NoDext` of `DeviceClaim`.

Abstractions. Wording, logging, JSON and colours are left out; a pixel is one of
two values. Painters mark at least what they paint: that is the contract of
`modify` (mod.rs:42). In `InputEvents` one encoder stands for nine and one knob
for three, because no event depends on two of them; the device is assumed to
turn an encoder by less than half a revolution between two reports, without
which no difference of positions means anything. A failed interrupt transfer
carries no report, the controller still has it. Non-JSON lines on the host's
stdout are skipped by the read loop and left out. In `Daemon` the rows of a
query are any of `Results`, the index being left out; a screen is what the last
painting drew on it: the first row of the window, its length and the highlighted row,
and the facet values. In `DeviceClaim` a name is one program: `pgrep`'s list of pids
is cut to one. In `LibraryIndex` mtime and size are one number: two saves of the
same size within one tick of the clock, which the code cannot tell apart, are not
modelled. In `InputEvents`, a report with a pad number beyond 15, which `parse_pads`
refuses whole, is one that the controller does not send.

`DeviceClaim` takes `pgrep` as the code does: when it cannot be run, or prints no pid,
the program counts as not running (macos.rs:137). Programs passed over in this way are
`unfound`, and `CleanEndRestores` speaks of the others. An interface is closed with the
last reference to it. A display task dropped in the middle of a write leaves the transfer
to its completion callback (vendor/nusb/src/transfer/internal.rs:173), and the transfer
has a reference of its own: the display may then be closed after the guard has sent
SIGCONT. Nothing in the repository promises otherwise. What the order of fields
(nusb_impl.rs:20) does ensure, and `DisplayFirst` states, is that by then the field is
dropped, no task can begin a write, and what was under way is cancelled.

`LibraryIndex` takes the file system as the walk does: an entry that is an error is
skipped (`flatten`, scanner.rs:164), a folder that cannot be examined is taken for a file
(scanner.rs:166), a root that cannot be examined ends the scan (scanner.rs:160), each
without an error or a count. The presets passed over in this way are `lost`, and
`ScanComplete` speaks of the others. A SELECT that fails is taken for a preset that is
not in the index, which is then parsed (scanner.rs:67).

The driver extension's methods name no queue (.iig), so DriverKit runs `Stop` and the
completions of one object on its default queue, one after another: for that reason
`Stop` is one step, and so are the check and the requeue of an IN read. Submissions are
local calls of the user client and interleave with all of them at every shared access.
One that found the pipe open and goes on after `Stop` has released it is refused, or ends
the process (`Crash`). `HandleHidOutComplete` falls back to slot 0 when its action has no reference
(HidTransport.cpp:241); every action is created with room for one (HidTransport.cpp:147), so the
model has no such case. `DisplayRing` takes submissions one at a time: the daemon has
one connection to the display and makes its calls one after another. A second client
may attach over the first, but does not submit. With two submissions at once the rewind
of a refused one (DisplayTransport.cpp:245) would give away the other's slot.

## 3. Runs

All cfgs are small instances; `distinct states` in brackets.

| Run | Instance | What it shows |
|---|---|---|
| `display_pipeline` | 3 tiles, 3 paintings [135k] | `NoUpdateForgotten`; `MirrorsFramebuffer` (refinement of `TileMirror`); `PaintsShown` |
| `frame_encoder` | 3 x 2 tiles of 2 x 2 pixels, 2 draws, coordinates on and off tile and screen boundaries [30k] | `StalePixelIsDirty`: after encode the decoded panel equals the framebuffer wherever no bit is left; `RunsAreMaximal`: `runs()` against its definition |
| `plugin_session` | 2 callers, 2 bundles, 2 calls per session, event channel of 1 [160k] | `RepliesRouted`, `NoReplyLost`, `CallsReturn` |
| `daemon` | 2 clients, channel of 1, results of 0 to 2 rows in a window of 1, 1 facet, 1 load [86k] | `ScreensCurrent`, `SelectionShown`, `OneReplyPerOp`, `OpsAnswered`, `SignalStopsWhileHostsLive` |
| `daemon_signal` | 1 client | violates `SignalStops` (finding 1) |
| `input_events` | 1 button, wrap of 4, 2 pads, 4 pressures, 2 reports, channels of 1 [161k] | `ClientWillAgree`, `EncoderTurnsAddUp`, `PhasesAlternate`, `NoPadHangs`, `ClientCatchesUp` |
| `input_release` | same | violates `EveryReleaseReported` (finding 2) |
| `hid_transport` | 2 submissions, 3 slots, 2 clients [38k] | `SlotsPartition`, `NoDanglingClient`, `StopDrains` |
| `display_ring` | ring of 3, 6 frames, 2 clients that are alike (symmetry; invariants only) [1.9M] | `CountExact`, `RingHoldsFrames`, `ToldInOrder`: told in order, each once, and no frame lost track of |
| `device_claim` | the agent and 2 other programs [118k] | `CleanEndRestores`: no program that `pgrep` found stays stopped after an end without a crash, not even one an earlier crash left so; `DisplayFirst`; `EndingRestores`: every program in `stopped_pids` goes on once main returns |
| `library_index` | 1 preset of 2 versions in a subfolder, a locked folder, 2 scanner processes, 1 other file's change [1.2M] | `SearchAgrees`, `LooksCurrentIsCurrent`, `ScanComplete`, `ChangesTold` |
| `library_update` | same | violates `UpdatesAreIdempotent` (finding 3) |

Why the bounds are enough. Three tiles let one be in the payload, one dirty and
one clean, and three paintings let a tile be repainted during the write and once
more after it failed. Six tiles in two rows give runs that begin and end
at either edge, touch and stay apart; 2 x 2 pixels let a boundary fall within a
tile. Channels of capacity 1 are full most of the time, which is when they
matter. Two calls of two callers meet in every order on a session; two bundles
let the death of one host meet a call to the other. Results of no, one and two
rows in a window of one let the view shrink under the cursor and the window
scroll. Three programs are the agent, which is booted out or stopped, one stopped before and one
after a failure. In `library_index` the tables of one preset are independent of
another's but for the write lock, which two scanners of the same preset contend
for at every statement; two versions let a file change between metadata and
content; for any number see section 5. Four encoder positions have a
wrap, a half turn, and a short way on each side; the four pressures lie at rest,
between the thresholds, and on and above the upper one. Two reports (the first
of them compared with the defaults) suffice to press and release, and a report
may hold two slots of one pad. A ring of three with six frames fills and wraps
twice; two clients let one attach over the other and stop while it is being told. Two submissions suffice for a lost update on the mask; for any number see
section 5.

Runs with `CHECK_DEADLOCK FALSE` end by themselves: bounded draws, calls,
reports, frames and loads are used up, or the daemon or the transport has
stopped. `display_pipeline`, `device_claim` and `library_index` never stop and are checked
for deadlock.

Each property is broken by a mutant of the code it guards, written next to the
definition it changes (a comment says `Mutant of ...`): a dropped reset, an
off-by-one, a load and store for an atomic exchange, a lock not taken again.

## 4. Fairness

- Tokio tasks (scheduler, read loops, diff task, pumps): weak fairness, since
  the runtime polls every woken task again. Painters, callers, clients, users
  and signals owe nothing and have none.
- Operations of `Daemon` that wait for a mutex or a channel others use
  again and again: strong fairness. Tokio's `Mutex` and `mpsc` serve waiters
  first come, first served, and `select!` begins at a random branch, so that a
  branch ready again and again is taken.
- USB transfers: each ends, with success or an error (`WriteReturns`). In
  `HidTransport` only after `Stop`, which aborts the pipes: an IN read may wait
  for the user for ever.
- `DeviceClaim`: what main and the runtime have let go of is dropped
  (`WF_vars(ShutDown)`); that every task is let go of is not assumed but follows from
  the runtime's end, which drops them. Programs, their users and signals owe nothing.
- The watch thread runs and time passes (`WF` of `WatchNext`). Scanners may stop
  anywhere and have no fairness: their properties are safety.
- A host that lives answers; it is never obliged to die, and may at any time.

## 5. Proofs

Checked by TLAPS for every value of the constants, under the named assumptions
of the modules (`TilesAssumption`, `MaxPaintsAssumption`, `SessionAssumption`,
`DaemonAssumption`, `HidAssumption`, `RingAssumption`, `LibraryAssumption`,
`NamesAssumption`, `InputAssumption`, `GeometryAssumption`). They say that capacities, depths and the height of a screen are
at least 1, that bounds are natural numbers, and that sets are of the right kind;
`InputAssumption` also that an encoder has an even number of positions, more than 2
(the code: 1024), and that the threshold of release is below that of attack (the code: 0x4005 and 0x4010);
`GeometryAssumption` that a tile has an even side (the code: 16), so that each run is a whole
number of pixel pairs.

`Display_proofs`, first part. `NoUpdateForgotten` is not inductive by itself: that a
delivered payload brings the panel to the framebuffer's content needs
`PayloadCurrent` (a tile of the payload that nobody painted since is current),
that a tile cannot be in a payload nobody is writing needs
`PayloadOnlyWhileWriting`, and the refinement needs `Aged` (panel, payload and
framebuffer are ordered by age). `IInv` is the conjunction; `PipelineInvariant`
proves it with one step per action. `TypeCorrect` and `NothingForgotten` follow;
`ImplementsMirror` shows `Spec => Mirror!Spec`: a `Modify` is a `Paint`, the two
ends of a write are a `Refresh`, every other action a stutter.

`Display_proofs`, second part: `FrameEncoder`. `FrameIInv` is `FrameTypeOK` and
`StalePixelIsDirty`, which is inductive once two things are known. A drawing operation
marks the tile of every pixel it changes (`DrawKeeps`, from `RectBitsCover`: rounding
and clipping in `mark_rect` lose no tile, and from `RectBitsIn`: they add none that does
not exist). And encoding repaints the dirty tiles and no other (`FrameDecoded`), which is
what `DisplayPipeline` takes for granted when `WriteOk` brings the tiles of a payload,
and only those, to what the framebuffer held when the payload was encoded. The proof
goes along the code: the inner loop of `runs()` stops at the first clean tile
(`ScanStops`), the
outer one finds each maximal run of its row once (`RowRunsFound`, with `RunsAfterClean`
and `RunsAfterRun` for its two branches), so do all rows (`RunsFound`, hence
`RunsMaximal`); a tile is dirty when one of the runs covers it (`DirtyIsCovered`); the frame is a pair of
commands for each run (`FrameCommands`); the pair repaints, by `repeat` or by `blit`, the
pixels the run covers (`BlockPaints`, from `DrawnRun`); and the decoder takes the
commands one by one (`Decoded`). The functions recurse over a row and over lists of any
length: that they exist, and what they give, is shown by induction on sets of numbers
(`Climb`, `Descend`). `Quotient`, `QuotientOf`, `Monotone` and `Times` are the arithmetic of
pixels and tiles.

`HidTransport_proofs`. `IInv` is `TypeOK`, `SlotsPartition`, `NoDanglingClient`
and `HeldWhileFilling` (a submission holds a slot only between its claim and its
handing over, without which `Claim` could overwrite a slot that is held). One
lemma per group of actions; `TransportInvariant`, then `TypeCorrect`,
`NoSlotSharedOrLost` and `NeverDangles`. The point of the proof over the run: the
compare-and-exchange protects the mask for any number of concurrent submissions,
slots and completions.

`PluginSession_proofs`. `RepliesRouted` speaks of the end of a call and `NoReplyLost`
counts; the invariant says where a request is. What is on its way is awaited
(`AllAwaited`: by somebody, and by a call of the kind that it answers), is there once
(`OnePlace`: no id twice in stdin, with the host or on stdout), and is somewhere until
the host dies (`SomePlace`). That the read loop's lookup finds the right sender needs
`IdsFresh`: ids in use lie below `next_id`, no two calls of a session share one, and
`pending` has one sender for each. One lemma per action of caller, host and read loop;
`StaysAwaited` carries the awaited calls over the steps of others. `SessionInvariant`,
then `TypeCorrect`, `RepliesAreRouted`, and `NothingLost`, which turns places into
cardinalities.

`Daemon_proofs`. `ScreensCurrent` holds between repaints; the invariant adds who holds
the lock (`LockHeld`: the task that repaints, and no other) and that the left screen is
current at the half-way point of a repaint (`LeftPainted`). `SelectionShown` is
arithmetic: the cursor is on a row (`CursorOnRow`), and then the window drawn holds it,
for screens of any height (`WindowHoldsCursor`). `OneReplyPerOp` rests on `PumpServes`
and `Waiters`. `DaemonInvariant`, then `TypeCorrect`, `ScreensAreCurrent`,
`SelectionIsShown`, `OneReplyForEachOp`. `RefinesSessions` shows
`Spec => Plugins!Spec`, action by action: the daemon uses the sessions as
`PluginSession` says. Hence `SessionsKeepPromises`: what is proved of the sessions for
any callers holds in the daemon, with the pump as the caller.

`DisplayRing_proofs`. `CountExact` is inductive with `TypeOK` and `ReservedForFrame`
(a reserved slot has a frame number): `RingInvariant`, then `TypeCorrect` and
`CountIsExact`, for a ring of any depth. What the slots hold takes a second invariant,
`Frames`: each transfer is in the slot so many places before the next to be handed over
and the slot has its frame (`HoldsFrame`), a submission's slot is free and just before
head (`Submission`), frames go out in the order of their numbers (`WireInOrder`), after
those that were shown (`ShownBefore`). `Back`, a difference with one turn added, stands
for the remainder; `OneTurn`, `BackInRing`, `BackFromNext` and `CountOn` are the
arithmetic. `CompletionFindsFrames` is the heart: the handler that counts slots on from
the oldest finds the frames the controller has read. A frame that the client found does
not get leaves the list of those to be told and is missed (`DropOne`: the rest stays in
order and has it no more), and so do all when the process ends (`CrashFrames`).
`FramesInvariant`, then `RingHolds` and `FramesAreToldInOrder`.

`LibraryIndex_proofs`. That a row which looks current is current (`LooksCurrentIsCurrent`)
needs three things: files only carry saved versions (`FilesAreSaved`), the metadata
of every row, committed or in a transaction, is no newer than its content (`Aged`),
and a scanner between `Stat` and `Commit` keeps that order (`Working`). That searches
agree (`SearchAgrees`) needs that the open transaction belongs to one scanner
(`Owned`), and how far it has come (`TxReplaces`): at `Commit`, and only there, its
tables agree. `IndexInvariant`, then `TypeCorrect`, `SearchesAgree`, `CurrentIsCurrent`.
`ScanComplete` needs what a scan under way has covered (`Covered`: an unchanged preset is
in a folder still to walk, among the entries still to see, or in the index) and that no
other scanner takes a row back (`TxAdds`: a transaction gets to its commit only for a
preset without a row). The latter rests on finding 3: were updates to succeed, a scanner
with an older stamp could overwrite a newer row, and `ScanComplete` would have to be
weakened. `ScansAreComplete` follows; a preset whose entry was not given is in `lost` from then on. `Reachable` asks for the root too: a root that may
not be read ends the walk at once (scanner.rs:159), without an error.

`DeviceClaim_proofs`. `CleanEndRestores` speaks of the end; `StoppedKnown` says for
every phase where a stopped program is known from: still to be looked for, just
found, in `stopped_pids`, or passed over by a `pgrep` that failed. `OncePerName` bounds
that list, `IfacesAfterClaim` gives `DisplayFirst` its case of the restore tool, and
`WritesHeld` says that a write which is not cancelled has a task that holds the transport. `ClaimInvariant`, then `TypeCorrect`,
`CleanEnd` and `GoesOnAfterDisplay`, for any list of programs.

`InputEvents_proofs`. Events are told one by one over two queues while the diff task's
state has already moved on, so the invariant is about what is to come: `After` is what
the client will make of all events on their way. `Agreed`: that picture is the diff
task's. `Alternating`: the client will be able to make sense of each pad event when it
gets there. `Stepping`: for each pad but pad 0, the pressure that the device reported
last is that of the pad's last slot on its way (`Shows`), or the diff task has it.
`OnIsPressed`: a pad that is on was above the threshold of release, and with the raw
stream none is on. `InputInvariant`, then `TypeCorrect`, `ClientAgrees`,
`PhasesDoAlternate` and `NoPadIsLeftHanging`. For the encoder, `Rotating` follows the sum
of deltas through the reports on their way (`Unwound`): it will be how far the encoder
has turned since the first report, because less than half a revolution is its own delta
across the wrap (`TurnIs`). `RotationInvariant`, then `TurnsAddUp`.
The model folds over sequences of events, samples and reports of any length, and a fold
is defined over sets of indices. The module proves what is needed of a fold (`FoldedNext`:
it takes the elements one by one; `FoldedConcat`: over two sequences it goes on from the
first) by induction on a set of numbers (`Climb`), which rests on the library's theorem
that < is well founded. `AddAfter` is the one fact about remainders.

Only model-checked: all liveness properties (`PaintsShown`, `CallsReturn`,
`OpsAnswered`, `SignalStopsWhileHostsLive`, `ClientCatchesUp`, `StopDrains`,
`EndingRestores`, `ChangesTold`), since the prover does not handle fairness and
ENABLED. Every safety property of the passing runs is proved.

## 6. Findings

1. **A plugin host that dies during a load blocks the daemon, signals
   included.** `read_loop` ends at EOF (session.rs:72) without dropping the
   senders in `pending`, and the session stays in the manager's map; the caller's
   `rx.await` never ends, its error "pluginhost closed before replying" cannot
   occur. The pump waits within its `select!` arm (main.rs:168) and polls the
   signals no more, against the comment at main.rs:161. Run `daemon_signal`.
2. **The release of pad 0 can be lost.** `parse_pads` (hid_in.rs:155) takes a slot
   with pad 0 and pressure 0 for an unused one. Run `input_release`; `NoPadHangs`
   shows that no other pad is concerned.
3. **A preset in the index cannot be updated.** `presets_fts` is contentless
   (schema.sql:42), and SQLite refuses the DELETE of scanner.rs:141 for a row it holds:
   the upsert is rolled back, at every scan again, and the first version stays. The
   comment at scanner.rs:139 says the delete and insert "keep updates idempotent". Run
   `library_update`. `SearchAgrees` shows that the failure never leaves half a preset.

Worth knowing, without a run of their own:

- Sessions: the session of a dead host is never replaced (session.rs:137).
- Input: the first report is told as a movement, since `emit_controls` compares it
  with zeros (device.rs:151); `EncoderTurnsAddUp` takes that one rotation out of its
  sum and shows that the error never grows. The pressure step is compared with the last
  sample (device.rs:208), not the last event as device.rs:23 says.
- Driver extension: a ring slot without buffer or address leaves the display
  ring's head past a slot that is not in flight (DisplayTransport.cpp:213), after which
  the ring's guarantees are void (`skipped`); the completion handler calls the client that it read under the lock, without a
  reference to it, after the lock is released (DisplayTransport.cpp:187): frames can go to
  one that has stopped; an IN read that cannot be requeued ends
  input (HidTransport.cpp:231).
- Claim: a claim that fails at a second `sigstop` leaves what it stopped before
  stopped, and the agent booted out (macos.rs:74); the next daemon that ends well heals
  the former, unless its `pgrep` fails: nothing tells a failed `pgrep` from a program that
  does not run (macos.rs:137). `drop(mk3)` (main.rs:182) drops nothing: main's `transport`, the display
  tasks and the OSC pump hold clones, and it is the end of the runtime that drops
  them. The comment at macos.rs:99 says that `Transport::open` retries; it does not. The
  reader's clone of the HID interface may outlive the guard.
- Index: a scan does not count what the file system fails to give it (scanner.rs:164);
  `ScanStats` counts unchanged presets as `updated` and updated ones as
  `added`; a deleted preset stays in the index; once the debounce has passed with
  nothing pending the watch thread spins until a preset changes (watch.rs:49).
- Screens: an eighth facet value is neither drawn nor highlighted (browse.rs:83).
- A load reads the offset of the chunk, then opens the file again (main.rs:246, 256):
  a file saved in between is read at the old offset.

## 7. Not modelled

NKS parser and plugin registry: functions of their input files; a walk over the
chunks of a file could be stated as an algorithm. OSC: the pump is a holder of the
transport in `DeviceClaim`; the broadcast changes no state that another component
reads, and its commands are stubs. UI rendering: which rows are drawn is in `Daemon`,
glyphs and coordinates are not. LED reports: layout of bytes, covered by golden tests.
The dext client beyond its answer to `open`: unimplemented. `msctl`: one request, one
reply. Host application, packaging, the plugins, and of the vendored nusb all but the
fate of a dropped transfer: outside. Of the
user client, argument checks of the dispatch methods. Of the index,
`touch_recent`, which nothing calls, and the list of roots, which are scanned one
after the other. The claims of other platforms answer an error.

## 8. Plan

Done: a module for every component with behaviour over time, their runs, and
eight proof modules, which state every safety property of the passing runs. Next, in
this order:

1. An abstract reply service that `PluginSession` implements as long as hosts live.
2. The chunk walk of `nks-parse` as an algorithm against a definition.
