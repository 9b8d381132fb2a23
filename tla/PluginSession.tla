--------------------------- MODULE PluginSession ---------------------------
(***************************************************************************)
(* The daemon's plugin sessions (crates/maschined/src/session.rs) and the  *)
(* plugin host at the other end of the pipes (pluginhost/src).             *)
(*                                                                         *)
(* SessionManager keeps one PluginSession per bundle and never forgets     *)
(* one, so a session is named by its bundle.  Callers share a session: a   *)
(* call registers a oneshot sender under a fresh id, writes the request to *)
(* the host's stdin and awaits the reply that the session's read loop      *)
(* finds on stdout.  The host handles one request after the other and,     *)
(* running foreign plugin code, may die at any time.                       *)
(***************************************************************************)
EXTENDS Naturals, Sequences, FiniteSets

CONSTANTS Bundles,   \* plugin bundles, each the key of a session
          Callers,   \* tasks that call into the session manager
          MaxCalls,  \* bound: calls explored per session
          EventCap   \* capacity of the plugin event channel (128)

ASSUME SessionAssumption == MaxCalls \in Nat /\ EventCap \in Nat \ {0}

VARIABLES
  child,    \* child[b]: "none", "running" or "exited": the host process of b
  next_id,  \* next_id[b]: the id of the session's next call
  pending,  \* pending[b]: the registered calls, as [id, caller] records
  stdin,    \* stdin[b]: requests written and not yet read by the host
  serving,  \* serving[b]: the requests (at most one) the host is handling
  stdout,   \* stdout[b]: envelopes written by the host and not yet read
  reader,   \* reader[b]: "none", "reading" or "done": the read loop of b
  events,   \* the channel to the plugin event pump
  pc,       \* pc[c]: "idle", "registered", "awaiting" or "done"
  call,     \* call[c]: session, kind and id of c's call
  got       \* got[c]: the envelope or error c's call ended with

hostVars == <<child, stdin, serving, stdout>>
sessionVars == <<next_id, pending, reader, events>>
callerVars == <<pc, call, got>>
vars == <<hostVars, sessionVars, callerVars>>

Ids == 1..MaxCalls
Kinds == {"load", "midi", "shutdown"}
Requests == [id : Ids, kind : Kinds]
Envelopes == [id : Ids \cup {0}, kind : {"load_result", "ok", "audio_started"}]
Error == [id |-> 0, kind |-> "error"]
NoCall == [bundle |-> "none", kind |-> "none", id |-> 0]

ReplyKind(kind) == IF kind = "load" THEN "load_result" ELSE "ok"

Init ==
  /\ child = [b \in Bundles |-> "none"]
  /\ next_id = [b \in Bundles |-> 1]
  /\ pending = [b \in Bundles |-> {}]
  /\ stdin = [b \in Bundles |-> <<>>]
  /\ serving = [b \in Bundles |-> {}]
  /\ stdout = [b \in Bundles |-> <<>>]
  /\ reader = [b \in Bundles |-> "none"]
  /\ events = <<>>
  /\ pc = [c \in Callers |-> "idle"]
  /\ call = [c \in Callers |-> NoCall]
  /\ got = [c \in Callers |-> Error]

----------------------------------------------------------------------------
\* The callers

\* Mutant of TakeId: the counter is read and not advanced.
TakeIdNoAdvance(b) == next_id' = next_id

\* next_id.fetch_add(1)
TakeId(b) == next_id' = [next_id EXCEPT ![b] = @ + 1]

\* The first half of PluginSession::call: a fresh id, and the oneshot sender
\* registered under it (HashMap::insert replaces).
Register(c, b, kind) ==
  LET id == next_id[b] IN
  /\ id <= MaxCalls
  /\ TakeId(b)
  /\ pending' = [pending EXCEPT ![b] =
       {p \in @ : p.id # id} \cup {[id |-> id, caller |-> c]}]
  /\ call' = [call EXCEPT ![c] = [bundle |-> b, kind |-> kind, id |-> id]]
  /\ pc' = [pc EXCEPT ![c] = "registered"]
  /\ UNCHANGED <<stdin, serving, stdout, events, got>>

\* SessionManager::load, and midi or shutdown on a session that exists: the
\* map is locked across lookup and spawn.  Nothing that the rest of the
\* system can see happens between that and the registration.
CallSession(c, b, kind) ==
  /\ pc[c] = "idle"
  /\ child[b] # "none"
  /\ Register(c, b, kind)
  /\ UNCHANGED <<child, reader>>

SpawnAndLoad(c, b) ==
  /\ pc[c] = "idle"
  /\ child[b] = "none"
  /\ child' = [child EXCEPT ![b] = "running"]
  /\ reader' = [reader EXCEPT ![b] = "reading"]
  /\ Register(c, b, "load")

\* The binary cannot be spawned, or midi finds no session: the map is as it
\* was and the caller has its error (`got` as it was).
NoSession(c, b) ==
  /\ pc[c] = "idle"
  /\ child[b] = "none"
  /\ pc' = [pc EXCEPT ![c] = "done"]
  /\ UNCHANGED <<hostVars, sessionVars, call, got>>

\* The request is written to the host's stdin, under the stdin lock.
Write(c) ==
  LET b == call[c].bundle IN
  /\ pc[c] = "registered"
  /\ child[b] = "running"
  /\ stdin' = [stdin EXCEPT ![b] =
       Append(@, [id |-> call[c].id, kind |-> call[c].kind])]
  /\ pc' = [pc EXCEPT ![c] = "awaiting"]
  /\ UNCHANGED <<child, serving, stdout, sessionVars, call, got>>

\* The pipe is broken: the call ends with the error and leaves its sender in
\* `pending`.
WriteFails(c) ==
  /\ pc[c] = "registered"
  /\ child[call[c].bundle] = "exited"
  /\ pc' = [pc EXCEPT ![c] = "done"]
  /\ got' = [got EXCEPT ![c] = Error]
  /\ UNCHANGED <<hostVars, sessionVars, call>>

\* The caller takes the result.
Return(c) ==
  /\ pc[c] = "done"
  /\ pc' = [pc EXCEPT ![c] = "idle"]
  /\ call' = [call EXCEPT ![c] = NoCall]
  /\ got' = [got EXCEPT ![c] = Error]
  /\ UNCHANGED <<hostVars, sessionVars>>

----------------------------------------------------------------------------
\* The host process

HostRead(b) ==
  /\ child[b] = "running"
  /\ serving[b] = {}
  /\ stdin[b] # <<>>
  /\ serving' = [serving EXCEPT ![b] = {Head(stdin[b])}]
  /\ stdin' = [stdin EXCEPT ![b] = Tail(@)]
  /\ UNCHANGED <<child, stdout, sessionVars, callerVars>>

Say(b, envelope) == stdout' = [stdout EXCEPT ![b] = Append(@, envelope)]

\* A load that succeeds announces the audio start, with id 0, before the
\* reply is written.
HostAnnounce(b) ==
  /\ child[b] = "running"
  /\ \E r \in serving[b] :
       /\ r.kind = "load"
       /\ serving' = [serving EXCEPT ![b] = {[id |-> r.id, kind |-> "loaded"]}]
  /\ Say(b, [id |-> 0, kind |-> "audio_started"])
  /\ UNCHANGED <<child, stdin, sessionVars, callerVars>>

\* The reply: a load that was announced or that failed, or another verb.
\* After the reply to shutdown the process ends.
HostReply(b) ==
  /\ child[b] = "running"
  /\ \E r \in serving[b] :
       /\ Say(b, [id |-> r.id,
                  kind |-> IF r.kind = "loaded" THEN "load_result"
                           ELSE ReplyKind(r.kind)])
       /\ child' = [child EXCEPT ![b] = IF r.kind = "shutdown" THEN "exited" ELSE @]
  /\ serving' = [serving EXCEPT ![b] = {}]
  /\ UNCHANGED <<stdin, sessionVars, callerVars>>

\* The plugin takes its process down.  What was written to stdout can still
\* be read, what is in stdin cannot.
HostDies(b) ==
  /\ child[b] = "running"
  /\ child' = [child EXCEPT ![b] = "exited"]
  /\ serving' = [serving EXCEPT ![b] = {}]
  /\ stdin' = [stdin EXCEPT ![b] = <<>>]
  /\ UNCHANGED <<stdout, sessionVars, callerVars>>

----------------------------------------------------------------------------
\* The read loop and the event pump

NextLine(b) == stdout' = [stdout EXCEPT ![b] = Tail(@)]

\* Mutant of ReadEvent: the loop ends after an event (break for continue).
ReadEventBreaks(b) ==
  /\ reader[b] = "reading"
  /\ stdout[b] # <<>>
  /\ Head(stdout[b]).id = 0
  /\ Len(events) < EventCap
  /\ events' = Append(events, Head(stdout[b]))
  /\ NextLine(b)
  /\ reader' = [reader EXCEPT ![b] = "done"]
  /\ UNCHANGED <<child, stdin, serving, next_id, pending, callerVars>>

\* Mutant of ReadEvent: the channel does not hold the reader back.
ReadEventUnbounded(b) ==
  /\ reader[b] = "reading"
  /\ stdout[b] # <<>>
  /\ Head(stdout[b]).id = 0
  /\ events' = Append(events, Head(stdout[b]))
  /\ NextLine(b)
  /\ UNCHANGED <<child, stdin, serving, next_id, pending, reader, callerVars>>

\* id 0: an event, sent to the pump; the loop waits while the channel is full.
ReadEvent(b) ==
  /\ reader[b] = "reading"
  /\ stdout[b] # <<>>
  /\ Head(stdout[b]).id = 0
  /\ Len(events) < EventCap
  /\ events' = Append(events, Head(stdout[b]))
  /\ NextLine(b)
  /\ UNCHANGED <<child, stdin, serving, next_id, pending, reader, callerVars>>

\* Mutant of Unregister: every sender is dropped with the one that is used.
UnregisterAll(b, id) == pending' = [pending EXCEPT ![b] = {}]

\* pending.remove(id)
Unregister(b, id) ==
  pending' = [pending EXCEPT ![b] = {p \in @ : p.id # id}]

\* Another id: the sender registered under it, if any, gets the envelope.
ReadReply(b) ==
  LET env == Head(stdout[b])
      to == {p.caller : p \in {q \in pending[b] : q.id = env.id}}
      woken == {c \in to : pc[c] = "awaiting" /\ call[c].bundle = b}
  IN  /\ reader[b] = "reading"
      /\ stdout[b] # <<>>
      /\ env.id # 0
      /\ Unregister(b, env.id)
      /\ pc' = [c \in Callers |-> IF c \in woken THEN "done" ELSE pc[c]]
      /\ got' = [c \in Callers |-> IF c \in woken THEN env ELSE got[c]]
      /\ NextLine(b)
      /\ UNCHANGED <<child, stdin, serving, next_id, reader, events, call>>

\* EOF on stdout: the loop ends.  The session, its stdin and its pending
\* senders live on in the session manager's map.
ReadEof(b) ==
  /\ reader[b] = "reading"
  /\ stdout[b] = <<>>
  /\ child[b] = "exited"
  /\ reader' = [reader EXCEPT ![b] = "done"]
  /\ UNCHANGED <<hostVars, next_id, pending, events, callerVars>>

\* The event pump of main.rs logs the event.
PumpEvent ==
  /\ events # <<>>
  /\ events' = Tail(events)
  /\ UNCHANGED <<hostVars, next_id, pending, reader, callerVars>>

----------------------------------------------------------------------------

CallerSteps(c) == Write(c) \/ WriteFails(c) \/ Return(c)
HostSteps(b) == HostRead(b) \/ HostAnnounce(b) \/ HostReply(b)
ReaderSteps(b) == ReadEvent(b) \/ ReadReply(b) \/ ReadEof(b)

Next ==
  \/ \E c \in Callers, b \in Bundles :
       \/ \E kind \in Kinds : CallSession(c, b, kind)
       \/ SpawnAndLoad(c, b) \/ NoSession(c, b)
  \/ \E c \in Callers : CallerSteps(c)
  \/ \E b \in Bundles : HostSteps(b) \/ HostDies(b) \/ ReaderSteps(b)
  \/ PumpEvent

\* The daemon's tasks are always polled again; a host that lives handles its
\* requests.  Callers need not start a call, and no host needs to die.
Fairness ==
  /\ \A c \in Callers : WF_vars(CallerSteps(c))
  /\ \A b \in Bundles : WF_vars(HostSteps(b)) /\ WF_vars(ReaderSteps(b))
  /\ WF_vars(PumpEvent)

Spec == Init /\ [][Next]_vars
FairSpec == Spec /\ Fairness

----------------------------------------------------------------------------

TypeOK ==
  /\ child \in [Bundles -> {"none", "running", "exited"}]
  /\ next_id \in [Bundles -> 1..MaxCalls + 1]
  /\ pending \in [Bundles -> SUBSET [id : Ids, caller : Callers]]
  /\ \A b \in Bundles :
       /\ stdin[b] \in Seq(Requests)
       /\ stdout[b] \in Seq(Envelopes)
       /\ serving[b] \subseteq Requests \cup [id : Ids, kind : {"loaded"}]
       /\ Cardinality(serving[b]) <= 1
  /\ reader \in [Bundles -> {"none", "reading", "done"}]
  /\ events \in Seq(Envelopes)
  /\ Len(events) <= EventCap
  /\ pc \in [Callers -> {"idle", "registered", "awaiting", "done"}]
  /\ call \in [Callers ->
       [bundle : Bundles, kind : Kinds, id : Ids] \cup {NoCall}]
  /\ got \in [Callers -> Envelopes \cup {Error}]

\* A caller that ends with a reply has the reply to its own request: from its
\* session, with its id and of the kind its verb is answered with, however
\* the calls of other callers interleave with it.
RepliesRouted ==
  \A c \in Callers :
    pc[c] = "done" /\ got[c] # Error =>
      /\ got[c].id = call[c].id
      /\ got[c].kind = ReplyKind(call[c].kind)

\* How often the request of an awaiting caller is on its way: in stdin, with
\* the host, or answered on stdout.
InFlight(b, id) ==
  Cardinality({i \in DOMAIN stdin[b] : stdin[b][i].id = id})
  + Cardinality({r \in serving[b] : r.id = id})
  + Cardinality({i \in DOMAIN stdout[b] : stdout[b][i].id = id})

\* A caller that awaits a reply is registered for it, and until its host has
\* died its request or reply is in exactly one place: none is lost, answered
\* twice or given to another caller.
NoReplyLost ==
  \A c \in Callers :
    pc[c] = "awaiting" =>
      LET b == call[c].bundle
          id == call[c].id
      IN  /\ [id |-> id, caller |-> c] \in pending[b]
          /\ InFlight(b, id) <= 1
          /\ child[b] = "running" => InFlight(b, id) = 1

\* A call returns unless the host of its own session dies: neither the event
\* traffic, nor the other callers, nor the death of another plugin's host
\* holds it up for ever.
CallsReturn ==
  \A c \in Callers, b \in Bundles :
    pc[c] = "awaiting" /\ call[c].bundle = b
      ~> pc[c] = "done" \/ child[b] = "exited"

============================================================================
