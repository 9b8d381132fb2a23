------------------------ MODULE PluginSession_proofs ------------------------
(***************************************************************************)
(* Proofs about PluginSession, for any callers, bundles, number of calls   *)
(* and capacity of the event channel.                                      *)
(***************************************************************************)
EXTENDS PluginSession, FiniteSetTheorems, TLAPS

\* Caller c awaits the reply to the request with this id.
Awaits(c, b, id) == pc[c] = "awaiting" /\ call[c].bundle = b /\ call[c].id = id

\* Somebody awaits the reply with this id, and it is of this kind.
Awaited(b, id, kind) ==
  \E c \in Callers : Awaits(c, b, id) /\ ReplyKind(call[c].kind) = kind

\* The kind of the reply to a request the host is handling.
Answer(r) == IF r.kind = "loaded" THEN "load_result" ELSE ReplyKind(r.kind)

ServesOne ==
  \A b \in Bundles : \A r, s \in serving[b] : r = s

\* Nothing is on its way that nobody waits for.
AwaitedAt(b) ==
  /\ \A i \in DOMAIN stdin[b] :
       Awaited(b, stdin[b][i].id, ReplyKind(stdin[b][i].kind))
  /\ \A r \in serving[b] : Awaited(b, r.id, Answer(r))
  /\ \A i \in DOMAIN stdout[b] :
       stdout[b][i].id # 0 => Awaited(b, stdout[b][i].id, stdout[b][i].kind)

AllAwaited == \A b \in Bundles : AwaitedAt(b)

\* No id is in two places.
OnePlaceAt(b) ==
  /\ \A i, j \in DOMAIN stdin[b] : stdin[b][i].id = stdin[b][j].id => i = j
  /\ \A i, j \in DOMAIN stdout[b] :
       stdout[b][i].id = stdout[b][j].id /\ stdout[b][i].id # 0 => i = j
  /\ \A i \in DOMAIN stdin[b], r \in serving[b] : stdin[b][i].id # r.id
  /\ \A i \in DOMAIN stdin[b], j \in DOMAIN stdout[b] :
       stdin[b][i].id # stdout[b][j].id
  /\ \A r \in serving[b], j \in DOMAIN stdout[b] : r.id # stdout[b][j].id

OnePlace == \A b \in Bundles : OnePlaceAt(b)

\* A call that is under way.
Active(c) == pc[c] \in {"registered", "awaiting"}

\* Its sender is in the session's table, and the session has, or had, a host.
Registered ==
  \A c \in Callers :
    Active(c) =>
      /\ [id |-> call[c].id, caller |-> c] \in pending[call[c].bundle]
      /\ child[call[c].bundle] # "none"

\* What a caller awaits is somewhere as long as the host runs.
Somewhere(b, id) ==
  \/ \E i \in DOMAIN stdin[b] : stdin[b][i].id = id
  \/ \E r \in serving[b] : r.id = id
  \/ \E i \in DOMAIN stdout[b] : stdout[b][i].id = id

SomePlace ==
  \A c \in Callers :
    pc[c] = "awaiting" /\ child[call[c].bundle] = "running" =>
      Somewhere(call[c].bundle, call[c].id)

\* Ids are given out once: for one sender, and for one call at a time.
IdsFresh ==
  /\ \A c \in Callers : Active(c) =>
       /\ call[c] \in [bundle : Bundles, kind : Kinds, id : Ids]
       /\ call[c].id < next_id[call[c].bundle]
  /\ \A c, d \in Callers :
       Active(c) /\ Active(d) /\ call[c].bundle = call[d].bundle
         /\ call[c].id = call[d].id => c = d
  /\ \A b \in Bundles : \A p, q \in pending[b] :
       /\ p.id < next_id[b]
       /\ p.id = q.id => p = q

\* A caller has a result only when its call has ended.
NoEarlyResult == \A c \in Callers : pc[c] # "done" => got[c] = Error

\* TypeOK but for what it says of the size of serving, which ServesOne implies.
Typed ==
  /\ child \in [Bundles -> {"none", "running", "exited"}]
  /\ next_id \in [Bundles -> 1..MaxCalls + 1]
  /\ pending \in [Bundles -> SUBSET [id : Ids, caller : Callers]]
  /\ stdin \in [Bundles -> Seq(Requests)]
  /\ stdout \in [Bundles -> Seq(Envelopes)]
  /\ serving \in [Bundles -> SUBSET (Requests \cup [id : Ids, kind : {"loaded"}])]
  /\ reader \in [Bundles -> {"none", "reading", "done"}]
  /\ events \in Seq(Envelopes)
  /\ Len(events) <= EventCap
  /\ pc \in [Callers -> {"idle", "registered", "awaiting", "done"}]
  /\ call \in [Callers -> [bundle : Bundles, kind : Kinds, id : Ids] \cup {NoCall}]
  /\ got \in [Callers -> Envelopes \cup {Error}]

IInv ==
  /\ Typed
  /\ ServesOne
  /\ AllAwaited
  /\ OnePlace
  /\ Registered
  /\ SomePlace
  /\ IdsFresh
  /\ NoEarlyResult
  /\ RepliesRouted
----------------------------------------------------------------------------
\* The elements of a queue

\* What is left of a queue when its first element is taken.
LEMMA TailFacts ==
  ASSUME NEW S, NEW s \in Seq(S), s # <<>>
  PROVE  /\ Tail(s) \in Seq(S) /\ Head(s) \in S
         /\ Len(Tail(s)) = Len(s) - 1
         /\ 1 \in DOMAIN s /\ Head(s) = s[1]
         /\ \A i \in DOMAIN Tail(s) :
              i + 1 \in DOMAIN s /\ i + 1 # 1 /\ Tail(s)[i] = s[i + 1]
         /\ \A i \in DOMAIN s :
              i = 1 \/ (i - 1 \in DOMAIN Tail(s) /\ Tail(s)[i - 1] = s[i])
         /\ \A i, j \in DOMAIN Tail(s) : i + 1 = j + 1 => i = j
<1>1. Len(s) \in Nat /\ DOMAIN s = 1..Len(s) /\ Len(s) > 0
  OBVIOUS
<1>2. Tail(s) \in Seq(S) /\ DOMAIN Tail(s) = 1..Len(s) - 1
  OBVIOUS
<1>3. \A i \in 1..Len(s) - 1 : Tail(s)[i] = s[i + 1]
  OBVIOUS
<1> QED BY <1>1, <1>2, <1>3

\* A queue with an element added.
LEMMA AppendFacts ==
  ASSUME NEW S, NEW s \in Seq(S), NEW e \in S
  PROVE  /\ Append(s, e) \in Seq(S)
         /\ Len(Append(s, e)) = Len(s) + 1
         /\ \A i \in DOMAIN s : i \in DOMAIN Append(s, e) /\ Append(s, e)[i] = s[i]
         /\ Len(s) + 1 \in DOMAIN Append(s, e) /\ Append(s, e)[Len(s) + 1] = e
         /\ \A i \in DOMAIN Append(s, e) : i \in DOMAIN s \/ i = Len(s) + 1
<1>1. Len(s) \in Nat /\ DOMAIN s = 1..Len(s)
  OBVIOUS
<1>2. Append(s, e) \in Seq(S) /\ DOMAIN Append(s, e) = 1..Len(s) + 1
  OBVIOUS
<1>3. /\ \A i \in 1..Len(s) : Append(s, e)[i] = s[i]
      /\ Append(s, e)[Len(s) + 1] = e
  OBVIOUS
<1> QED BY <1>1, <1>2, <1>3

----------------------------------------------------------------------------
\* The callers

\* At first there are no calls.
LEMMA InitIInv == Init => IInv
<1> SUFFICES ASSUME Init PROVE IInv
  OBVIOUS
<1> USE SessionAssumption DEF Init
<1>1. Typed
  <2>1. <<>> \in Seq(Requests) /\ <<>> \in Seq(Envelopes) /\ Len(<<>>) = 0
    OBVIOUS
  <2>2. 1 \in 1..MaxCalls + 1
    OBVIOUS
  <2> QED BY <2>1, <2>2 DEF Typed
<1>2. ServesOne /\ AllAwaited /\ OnePlace
  BY DEF ServesOne, AllAwaited, AwaitedAt, OnePlace, OnePlaceAt
<1>3. Registered /\ SomePlace /\ IdsFresh /\ NoEarlyResult /\ RepliesRouted
  BY DEF Registered, SomePlace, IdsFresh, Active, NoEarlyResult, RepliesRouted
<1> QED BY <1>1, <1>2, <1>3 DEF IInv

\* A reply stays awaited while nobody returns.
LEMMA StaysAwaited ==
  ASSUME \A c \in Callers : pc[c] = "awaiting" => pc'[c] = "awaiting" /\ call'[c] = call[c],
         NEW b, NEW id, NEW kind, Awaited(b, id, kind)
  PROVE  Awaited(b, id, kind)'
BY DEF Awaited, Awaits

\* A call gets an id that nobody had; its host may be a new one, of which
\* nobody awaits anything.
LEMMA RegisterIInv ==
  ASSUME IInv, NEW c \in Callers, NEW b \in Bundles, NEW kind \in Kinds,
         pc[c] = "idle", Register(c, b, kind),
         child' \in [Bundles -> {"none", "running", "exited"}],
         reader' \in [Bundles -> {"none", "reading", "done"}],
         child'[b] # "none",
         \A a \in Bundles : child[a] # "none" => child'[a] = child[a]
  PROVE  IInv'
<1> DEFINE id == next_id[b]
           rec == [bundle |-> b, kind |-> kind, id |-> id]
           entry == [id |-> id, caller |-> c]
<1> USE SessionAssumption DEF IInv
<1>1. id \in Ids /\ id + 1 \in 1..MaxCalls + 1 /\ rec \in [bundle : Bundles, kind : Kinds, id : Ids]
  BY DEF Typed, Register, Ids
<1>2. /\ next_id' = [next_id EXCEPT ![b] = id + 1]
      /\ call' = [call EXCEPT ![c] = rec]
      /\ pc' = [pc EXCEPT ![c] = "registered"]
      /\ UNCHANGED <<stdin, serving, stdout, events, got>>
  BY DEF Register, TakeId
<1>3. \A p \in pending[b] : p.id # id /\ p.id < id
  BY <1>1 DEF IdsFresh, Typed, Ids
<1>4. pending' = [pending EXCEPT ![b] = pending[b] \cup {entry}]
  <2>1. {p \in pending[b] : p.id # id} = pending[b]
    BY <1>3
  <2> QED BY <2>1 DEF Register
<1> HIDE DEF id, rec, entry
<1>5. Typed'
  <2>1. entry \in [id : Ids, caller : Callers]
    BY <1>1 DEF entry
  <2>2. pending' \in [Bundles -> SUBSET [id : Ids, caller : Callers]]
    BY <2>1, <1>4 DEF Typed
  <2> QED BY <1>1, <1>2, <2>2 DEF Typed
<1>6. \A d \in Callers :
        /\ pc[d] = "awaiting" => pc'[d] = "awaiting" /\ call'[d] = call[d]
        /\ pc'[d] = "awaiting" => pc[d] = "awaiting" /\ call'[d] = call[d]
  BY <1>2 DEF Typed
<1>7. ServesOne' /\ OnePlace'
  BY <1>2 DEF ServesOne, OnePlace, OnePlaceAt
<1>8. AllAwaited'
  BY <1>2, <1>6, StaysAwaited DEF AllAwaited, AwaitedAt
<1>9. /\ \A d \in Callers : Active(d)' /\ d # c => Active(d) /\ call'[d] = call[d]
      /\ call'[c] = rec /\ rec.id = id /\ rec.bundle = b
  BY <1>2 DEF Active, Typed, rec
<1>10. \A d \in Callers : Active(d) => call[d].bundle \in Bundles
  BY DEF IdsFresh
<1>11. Registered'
  <2>1. entry \in pending'[b]
    BY <1>4 DEF Typed
  <2>2. \A a \in Bundles : pending[a] \subseteq pending'[a]
    BY <1>4 DEF Typed
  <2> QED BY <1>9, <1>10, <2>1, <2>2 DEF Registered, entry
<1>12. SomePlace'
  <2>1. \A d \in Callers : pc'[d] = "awaiting" =>
          /\ pc[d] = "awaiting" /\ call'[d] = call[d]
          /\ child[call[d].bundle] = child'[call[d].bundle]
    BY <1>6, <1>10 DEF Active, Registered
  <2> QED BY <1>2, <2>1 DEF SomePlace, Somewhere
<1>13. IdsFresh'
  <2>3. \A a \in Bundles : next_id'[a] \in Nat /\ next_id[a] \in Nat /\ next_id[a] <= next_id'[a]
    BY <1>1, <1>2 DEF Typed, id
  <2>4. id < next_id'[b]
    BY <1>1, <1>2 DEF Typed, Ids
  <2>5. \A d \in Callers : Active(d)' =>
          /\ call'[d] \in [bundle : Bundles, kind : Kinds, id : Ids]
          /\ call'[d].id < next_id'[call'[d].bundle]
    BY <1>1, <1>9, <2>3, <2>4 DEF IdsFresh, Ids
  <2>6. \A d \in Callers : Active(d) /\ call[d].bundle = b => call[d].id # id
    BY DEF IdsFresh, id, Ids
  <2>7. \A d, e \in Callers :
          Active(d)' /\ Active(e)' /\ call'[d].bundle = call'[e].bundle
            /\ call'[d].id = call'[e].id => d = e
    BY <1>9, <2>6 DEF IdsFresh
  <2>8. \A a \in Bundles : \A p, q \in pending'[a] :
          p.id < next_id'[a] /\ (p.id = q.id => p = q)
    <3> SUFFICES ASSUME NEW a \in Bundles, NEW p \in pending'[a], NEW q \in pending'[a]
                 PROVE  p.id < next_id'[a] /\ (p.id = q.id => p = q)
      OBVIOUS
    <3>1. CASE a = b
      <4>1. p \in pending[b] \/ p = entry
        BY <1>4, <3>1 DEF Typed
      <4>2. q \in pending[b] \/ q = entry
        BY <1>4, <3>1 DEF Typed
      <4>3. entry.id = id
        BY DEF entry
      <4>4. \A x \in pending[b] : x.id \in Nat /\ x.id < next_id'[b]
        BY <2>3, <1>3, <2>4 DEF Typed, Ids, IdsFresh
      <4> QED BY <4>1, <4>2, <4>3, <4>4, <1>3, <2>4, <3>1 DEF IdsFresh
    <3>2. CASE a # b
      BY <1>2, <1>4, <3>2 DEF IdsFresh, Typed
    <3> QED BY <3>1, <3>2
  <2> QED BY <2>5, <2>7, <2>8 DEF IdsFresh
<1>14. NoEarlyResult' /\ RepliesRouted'
  BY <1>2 DEF NoEarlyResult, RepliesRouted, Typed
<1> QED BY <1>5, <1>7, <1>8, <1>11, <1>12, <1>13, <1>14

\* A call on a session, and the load that makes the session.
LEMMA CallIInv ==
  ASSUME IInv, NEW c \in Callers, NEW b \in Bundles, NEW kind \in Kinds,
         CallSession(c, b, kind) \/ SpawnAndLoad(c, b)
  PROVE  IInv'
<1>1. Typed
  BY DEF IInv
<1>2. CASE CallSession(c, b, kind)
  BY <1>1, <1>2, RegisterIInv DEF CallSession, Typed
<1>3. CASE SpawnAndLoad(c, b)
  <2>1. "load" \in Kinds
    BY DEF Kinds
  <2> QED BY <1>1, <1>3, <2>1, RegisterIInv DEF SpawnAndLoad, Typed
<1> QED BY <1>2, <1>3

\* A caller that is not waiting comes and goes: nothing that is on its way is
\* its, and the sender of a failed write may stay in the table.
LEMMA CallerIInv ==
  ASSUME IInv, NEW c \in Callers,
         (\E b \in Bundles : NoSession(c, b)) \/ WriteFails(c) \/ Return(c)
  PROVE  IInv'
<1> USE DEF IInv
<1>1. /\ UNCHANGED <<hostVars, sessionVars>>
      /\ \A d \in Callers : d # c => pc'[d] = pc[d] /\ call'[d] = call[d] /\ got'[d] = got[d]
      /\ pc[c] \in {"idle", "registered", "done"} /\ pc'[c] \in {"idle", "done"}
      /\ (got'[c] = Error \/ (pc[c] = "idle" /\ got'[c] = got[c]))
      /\ call'[c] \in {call[c], NoCall}
  BY DEF Typed, NoSession, WriteFails, Return
<1>2. /\ UNCHANGED <<child, stdin, serving, stdout, next_id, pending, reader, events>>
  BY <1>1 DEF hostVars, sessionVars
<1>3. /\ pc' \in [Callers -> {"idle", "registered", "awaiting", "done"}]
      /\ call' \in [Callers -> [bundle : Bundles, kind : Kinds, id : Ids] \cup {NoCall}]
      /\ got' \in [Callers -> Envelopes \cup {Error}]
  BY DEF Typed, NoSession, WriteFails, Return
<1>4. Typed' /\ ServesOne' /\ OnePlace'
  BY <1>2, <1>3 DEF Typed, ServesOne, OnePlace, OnePlaceAt
<1>5. \A d \in Callers : pc[d] = "awaiting" => pc'[d] = "awaiting" /\ call'[d] = call[d]
  BY <1>1
<1>6. \A d \in Callers :
        Active(d)' => Active(d) /\ pc'[d] = pc[d] /\ call'[d] = call[d]
  BY <1>1 DEF Active
<1>7. AllAwaited'
  BY <1>2, <1>5, StaysAwaited DEF AllAwaited, AwaitedAt
<1>8. Registered' /\ SomePlace'
  BY <1>2, <1>6 DEF Registered, SomePlace, Somewhere, Active
<1>9. IdsFresh'
  BY <1>2, <1>6 DEF IdsFresh
<1>10. NoEarlyResult' /\ RepliesRouted'
  BY <1>1 DEF NoEarlyResult, RepliesRouted
<1> QED BY <1>4, <1>7, <1>8, <1>9, <1>10

\* The request of a caller goes out: its id is nowhere yet, since whatever is
\* on its way is awaited and an id is one caller's.
LEMMA WriteIInv ==
  ASSUME IInv, NEW c \in Callers, Write(c)
  PROVE  IInv'
<1> USE DEF IInv
<1> PICK b \in Bundles, req \in Requests :
      b = call[c].bundle /\ req = [id |-> call[c].id, kind |-> call[c].kind]
  <2>1. Active(c)
    BY DEF Write, Active
  <2>2. call[c] \in [bundle : Bundles, kind : Kinds, id : Ids]
    BY <2>1 DEF IdsFresh
  <2>3. [id |-> call[c].id, kind |-> call[c].kind] \in Requests
    BY <2>2 DEF Requests
  <2> QED BY <2>2, <2>3
<1>1. /\ Active(c) /\ child[b] = "running" /\ b = call[c].bundle
      /\ req.id = call[c].id /\ req.kind = call[c].kind /\ req.id \in Ids
  BY DEF Write, Active, Requests
<1>2. /\ stdin' = [stdin EXCEPT ![b] = Append(stdin[b], req)]
      /\ pc' = [pc EXCEPT ![c] = "awaiting"] /\ pc[c] = "registered"
      /\ UNCHANGED <<child, serving, stdout, next_id, pending, reader, events, call, got>>
  BY DEF Write, sessionVars
<1>3. stdin[b] \in Seq(Requests) /\ req.id # 0
  BY <1>1, SessionAssumption DEF Typed, Ids
<1>4. \A k : ~ Awaited(b, req.id, k)
  BY <1>1, <1>2 DEF Awaited, Awaits, IdsFresh, Active
<1>5. /\ \A i \in DOMAIN stdin[b] : stdin[b][i].id # req.id
      /\ \A r \in serving[b] : r.id # req.id
      /\ \A i \in DOMAIN stdout[b] : stdout[b][i].id # req.id
  BY <1>1, <1>3, <1>4 DEF AllAwaited, AwaitedAt
<1>6. /\ stdin'[b] = Append(stdin[b], req)
      /\ \A a \in Bundles : a # b => stdin'[a] = stdin[a]
  BY <1>1, <1>2 DEF Typed
<1>7. Append(stdin[b], req) \in Seq(Requests)
  BY <1>1, <1>3, AppendFacts
<1>8. Typed'
  BY <1>1, <1>2, <1>7 DEF Typed
<1>9. ServesOne' /\ NoEarlyResult' /\ RepliesRouted'
  BY <1>2 DEF ServesOne, NoEarlyResult, RepliesRouted, Typed
<1>10. \A d \in Callers :
         /\ pc[d] = "awaiting" => pc'[d] = "awaiting" /\ call'[d] = call[d]
         /\ pc'[d] = "awaiting" => d = c \/ pc[d] = "awaiting"
         /\ Active(d)' => Active(d)
  BY <1>1, <1>2 DEF Typed, Active
<1>11. \A i \in DOMAIN stdin'[b] :
         \/ i \in DOMAIN stdin[b] /\ stdin'[b][i] = stdin[b][i]
         \/ i = Len(stdin[b]) + 1 /\ stdin'[b][i] = req
  BY <1>1, <1>3, <1>6, AppendFacts
<1>12. Awaited(b, req.id, ReplyKind(req.kind))'
  BY <1>1, <1>2 DEF Awaited, Awaits, Typed
<1>13. AllAwaited'
  <2>1. \A a, id, k : Awaited(a, id, k) => Awaited(a, id, k)'
    BY <1>10, StaysAwaited
  <2>2. \A i \in DOMAIN stdin'[b] : \A id, k :
          id = stdin'[b][i].id /\ k = ReplyKind(stdin'[b][i].kind) =>
            Awaited(b, id, k)'
    BY <1>1, <1>11, <1>12, <2>1 DEF AllAwaited, AwaitedAt
  <2>3. AwaitedAt(b)'
    <3>1. AwaitedAt(b)
      BY DEF AllAwaited
    <3> QED BY <1>2, <2>1, <2>2, <3>1 DEF AwaitedAt
  <2>4. ASSUME NEW a \in Bundles, a # b
        PROVE  AwaitedAt(a)'
    <3>1. AwaitedAt(a)
      BY DEF AllAwaited
    <3> QED BY <1>2, <1>6, <2>1, <2>4, <3>1 DEF AwaitedAt
  <2> QED BY <2>3, <2>4 DEF AllAwaited
<1>14. OnePlace'
  <2>1. \A i, j \in DOMAIN stdin'[b] : stdin'[b][i].id = stdin'[b][j].id => i = j
    BY <1>1, <1>5, <1>11 DEF OnePlace, OnePlaceAt
  <2>2. /\ \A i \in DOMAIN stdin'[b], r \in serving[b] : stdin'[b][i].id # r.id
        /\ \A i \in DOMAIN stdin'[b], j \in DOMAIN stdout[b] :
             stdin'[b][i].id # stdout[b][j].id
    BY <1>1, <1>5, <1>11 DEF OnePlace, OnePlaceAt
  <2>3. OnePlaceAt(b)'
    <3>1. OnePlaceAt(b)
      BY DEF OnePlace
    <3> QED BY <1>2, <2>1, <2>2, <3>1 DEF OnePlaceAt
  <2>4. \A a \in Bundles : a # b => OnePlaceAt(a)'
    BY <1>2, <1>6 DEF OnePlace, OnePlaceAt
  <2> QED BY <2>3, <2>4 DEF OnePlace
<1>15. Registered' /\ IdsFresh'
  BY <1>2, <1>10 DEF Registered, IdsFresh
<1>16. SomePlace'
  <2>1. \A i \in DOMAIN stdin[b] : i \in DOMAIN stdin'[b] /\ stdin'[b][i] = stdin[b][i]
    BY <1>1, <1>3, <1>6, AppendFacts
  <2>2. \E i \in DOMAIN stdin'[b] : stdin'[b][i].id = call[c].id
    <3>1. Len(stdin[b]) + 1 \in DOMAIN stdin'[b] /\ stdin'[b][Len(stdin[b]) + 1] = req
      BY <1>1, <1>3, <1>6, AppendFacts
    <3> QED BY <1>1, <3>1
  <2>3. \A d \in Callers : pc[d] = "awaiting" => call[d].bundle \in Bundles
    BY DEF IdsFresh, Active
  <2>4. ASSUME NEW d \in Callers, pc'[d] = "awaiting",
               child[call[d].bundle] = "running"
        PROVE  Somewhere(call[d].bundle, call[d].id)'
    <3>1. CASE d = c
      BY <1>1, <1>2, <2>2, <3>1 DEF Somewhere
    <3>2. CASE pc[d] = "awaiting"
      <4>1. Somewhere(call[d].bundle, call[d].id)
        BY <2>4, <3>2 DEF SomePlace
      <4>2. CASE call[d].bundle = b
        BY <1>2, <2>1, <4>1, <4>2 DEF Somewhere
      <4>3. CASE call[d].bundle # b
        BY <1>2, <1>6, <2>3, <3>2, <4>1, <4>3 DEF Somewhere
      <4> QED BY <4>2, <4>3
    <3> QED BY <1>10, <2>4, <3>1, <3>2
  <2> QED BY <1>2, <2>4 DEF SomePlace, Somewhere
<1> QED BY <1>8, <1>9, <1>13, <1>14, <1>15, <1>16

----------------------------------------------------------------------------
\* The host process and the pipes

\* A step that changes the pipes of one session and leaves the calls alone.
LEMMA PipesIInv ==
  ASSUME IInv, NEW b \in Bundles, Typed',
         UNCHANGED <<next_id, pending, callerVars>>,
         \A a \in Bundles : a # b =>
           /\ child'[a] = child[a] /\ stdin'[a] = stdin[a]
           /\ serving'[a] = serving[a] /\ stdout'[a] = stdout[a],
         child[b] # "none" => child'[b] # "none",
         \A r, s \in serving'[b] : r = s,
         AwaitedAt(b)', OnePlaceAt(b)',
         child'[b] = "running" =>
           child[b] = "running" /\ (\A id \in Ids : Somewhere(b, id) => Somewhere(b, id)')
  PROVE  IInv'
<1> USE DEF IInv
<1>1. UNCHANGED <<next_id, pending, pc, call, got>>
  BY DEF callerVars
<1>2. ServesOne'
  BY DEF ServesOne
<1>3. \A a, id, k : Awaited(a, id, k) => Awaited(a, id, k)'
  BY <1>1, StaysAwaited
<1>4. AllAwaited'
  <2>1. \A a \in Bundles : a # b => AwaitedAt(a)'
    BY <1>3 DEF AllAwaited, AwaitedAt
  <2> QED BY <2>1 DEF AllAwaited
<1>5. OnePlace'
  <2>1. \A a \in Bundles : a # b => OnePlaceAt(a)'
    BY DEF OnePlace, OnePlaceAt
  <2> QED BY <2>1 DEF OnePlace
<1>6. \A c \in Callers : Active(c)' => Active(c) /\ call[c].bundle \in Bundles /\ call[c].id \in Ids
  BY <1>1 DEF Active, IdsFresh
<1>7. Registered'
  BY <1>1, <1>6 DEF Registered
<1>8. SomePlace'
  <2>1. \A a \in Bundles : \A id : a # b /\ Somewhere(a, id) => Somewhere(a, id)'
    BY DEF Somewhere
  <2> SUFFICES ASSUME NEW c \in Callers, NEW a \in Bundles, NEW id \in Ids,
                      pc[c] = "awaiting", call[c].bundle = a, call[c].id = id,
                      child'[a] = "running"
               PROVE  Somewhere(a, id)'
    BY <1>1, <1>6 DEF SomePlace, Active, Somewhere
  <2>2. Somewhere(a, id)
    BY DEF SomePlace
  <2> QED BY <2>1, <2>2
<1>9. IdsFresh' /\ NoEarlyResult' /\ RepliesRouted'
  BY <1>1 DEF IdsFresh, Active, NoEarlyResult, RepliesRouted
<1> QED BY <1>2, <1>4, <1>5, <1>7, <1>8, <1>9

\* The host takes a request from its stdin.
LEMMA HostReadIInv ==
  ASSUME IInv, NEW b \in Bundles, HostRead(b)
  PROVE  IInv'
<1> DEFINE h == Head(stdin[b])
<1> USE DEF IInv
<1>1. stdin[b] \in Seq(Requests) /\ stdin[b] # <<>>
  BY DEF Typed, HostRead
<1>2. /\ serving[b] = {} /\ child[b] = "running"
      /\ serving' = [serving EXCEPT ![b] = {h}]
      /\ stdin' = [stdin EXCEPT ![b] = Tail(stdin[b])]
      /\ UNCHANGED <<child, stdout, next_id, pending, reader, events, pc, call, got>>
  BY DEF HostRead, sessionVars, callerVars
<1>3. serving'[b] = {h} /\ stdin'[b] = Tail(stdin[b])
  BY <1>2 DEF Typed
<1>4. /\ Tail(stdin[b]) \in Seq(Requests) /\ h \in Requests
      /\ 1 \in DOMAIN stdin[b] /\ h = stdin[b][1]
      /\ \A i \in DOMAIN stdin'[b] :
           i + 1 \in DOMAIN stdin[b] /\ i + 1 # 1 /\ stdin'[b][i] = stdin[b][i + 1]
      /\ \A i \in DOMAIN stdin[b] :
           i = 1 \/ (i - 1 \in DOMAIN stdin'[b] /\ stdin'[b][i - 1] = stdin[b][i])
      /\ \A i, j \in DOMAIN stdin'[b] : i + 1 = j + 1 => i = j
  BY <1>1, <1>3, TailFacts
<1> HIDE DEF h
<1>5. Typed'
  BY <1>2, <1>4 DEF Typed
<1>6. Answer(h) = ReplyKind(h.kind)
  BY <1>4 DEF Answer, Requests, Kinds
<1>7. AwaitedAt(b)'
  <2>1. \A id, k : Awaited(b, id, k) => Awaited(b, id, k)'
    BY <1>2, StaysAwaited
  <2>2. AwaitedAt(b)
    BY DEF AllAwaited
  <2>3. \A i \in DOMAIN stdin'[b] : \A id, k :
          id = stdin'[b][i].id /\ k = ReplyKind(stdin'[b][i].kind) => Awaited(b, id, k)'
    BY <1>4, <2>1, <2>2 DEF AwaitedAt
  <2>4. \A r \in serving'[b] : \A id, k :
          id = r.id /\ k = Answer(r) => Awaited(b, id, k)'
    BY <1>3, <1>4, <1>6, <2>1, <2>2 DEF AwaitedAt
  <2> QED BY <1>2, <2>1, <2>2, <2>3, <2>4 DEF AwaitedAt
<1>8. OnePlaceAt(b)'
  <2>1. OnePlaceAt(b)
    BY DEF OnePlace
  <2>2. \A i, j \in DOMAIN stdin'[b] : stdin'[b][i].id = stdin'[b][j].id => i = j
    BY <1>4, <2>1 DEF OnePlaceAt
  <2>3. \A i \in DOMAIN stdin'[b] : stdin'[b][i].id # h.id
    BY <1>4, <2>1 DEF OnePlaceAt
  <2>4. \A i \in DOMAIN stdin'[b], j \in DOMAIN stdout[b] : stdin'[b][i].id # stdout[b][j].id
    BY <1>4, <2>1 DEF OnePlaceAt
  <2>5. \A j \in DOMAIN stdout[b] : h.id # stdout[b][j].id
    BY <1>4, <2>1 DEF OnePlaceAt
  <2> QED BY <1>2, <1>3, <2>1, <2>2, <2>3, <2>4, <2>5 DEF OnePlaceAt
<1>9. \A id \in Ids : Somewhere(b, id) => Somewhere(b, id)'
  <2> SUFFICES ASSUME NEW id \in Ids, Somewhere(b, id) PROVE Somewhere(b, id)'
    OBVIOUS
  <2>1. CASE \E i \in DOMAIN stdin[b] : stdin[b][i].id = id
    <3>1. h.id = id \/ \E i \in DOMAIN stdin'[b] : stdin'[b][i].id = id
      BY <1>4, <2>1
    <3> QED BY <1>3, <3>1 DEF Somewhere
  <2>2. CASE \E i \in DOMAIN stdout[b] : stdout[b][i].id = id
    BY <1>2, <2>2 DEF Somewhere
  <2> QED BY <1>2, <2>1, <2>2 DEF Somewhere
<1> QED
  BY <1>2, <1>3, <1>5, <1>7, <1>8, <1>9, PipesIInv DEF callerVars, Typed


\* The host writes an envelope and goes on with the request, or is done with it.
LEMMA SayIInv ==
  ASSUME IInv, NEW b \in Bundles, HostAnnounce(b) \/ HostReply(b)
  PROVE  IInv'
<1> USE DEF IInv
<1> PICK r \in serving[b], e \in Envelopes :
      /\ stdout' = [stdout EXCEPT ![b] = Append(stdout[b], e)]
      /\ child[b] = "running" /\ child'[b] # "none"
      /\ child' \in [Bundles -> {"none", "running", "exited"}]
      /\ \A a \in Bundles : a # b => child'[a] = child[a]
      /\ UNCHANGED <<stdin, next_id, pending, reader, events, pc, call, got>>
      /\ \/ /\ e.id = 0 /\ r.kind = "load"
            /\ serving' = [serving EXCEPT ![b] = {[id |-> r.id, kind |-> "loaded"]}]
         \/ /\ e.id = r.id /\ e.kind = Answer(r)
            /\ serving' = [serving EXCEPT ![b] = {}]
  <2>1. CASE HostAnnounce(b)
    <3>1. [id |-> 0, kind |-> "audio_started"] \in Envelopes
      BY DEF Envelopes
    <3> QED BY <2>1, <3>1 DEF HostAnnounce, Say, sessionVars, callerVars, Typed
  <2>2. CASE HostReply(b)
    <3>1. PICK r \in serving[b] :
            /\ Say(b, [id |-> r.id, kind |-> Answer(r)])
            /\ child' = [child EXCEPT ![b] = IF r.kind = "shutdown" THEN "exited" ELSE @]
      BY <2>2 DEF HostReply, Answer
    <3>2. r.id \in Ids
      BY DEF Typed, Requests
    <3>3. [id |-> r.id, kind |-> Answer(r)] \in Envelopes
      BY <3>2 DEF Envelopes, Answer, ReplyKind
    <3>4. child[b] = "running" /\ child'[b] # "none"
          /\ child' \in [Bundles -> {"none", "running", "exited"}]
          /\ \A a \in Bundles : a # b => child'[a] = child[a]
      BY <2>2, <3>1 DEF HostReply, Typed
    <3> QED BY <2>2, <3>1, <3>3, <3>4 DEF HostReply, Say, sessionVars, callerVars
  <2> QED BY <2>1, <2>2
<1>1. stdout[b] \in Seq(Envelopes) /\ stdout'[b] = Append(stdout[b], e)
  BY DEF Typed
<1>2. /\ Append(stdout[b], e) \in Seq(Envelopes)
      /\ \A i \in DOMAIN stdout[b] : i \in DOMAIN stdout'[b] /\ stdout'[b][i] = stdout[b][i]
      /\ Len(stdout[b]) + 1 \in DOMAIN stdout'[b] /\ stdout'[b][Len(stdout[b]) + 1] = e
      /\ \A i \in DOMAIN stdout'[b] :
           \/ i \in DOMAIN stdout[b] /\ stdout'[b][i] = stdout[b][i]
           \/ i = Len(stdout[b]) + 1 /\ stdout'[b][i] = e
  BY <1>1, AppendFacts
<1>3. r.id \in Ids /\ r.id # 0
  BY SessionAssumption DEF Typed, Requests, Ids
<1>4. \A s \in serving'[b] :
        s = [id |-> r.id, kind |-> "loaded"] /\ Answer(s) = Answer(r) /\ s.id = r.id /\ e.id = 0
  BY DEF Typed, Answer, ReplyKind
<1>5. Typed'
  <2>1. [id |-> r.id, kind |-> "loaded"] \in [id : Ids, kind : {"loaded"}]
    BY <1>3
  <2>2. serving' \in [Bundles -> SUBSET (Requests \cup [id : Ids, kind : {"loaded"}])]
    <3>1. {[id |-> r.id, kind |-> "loaded"]} \subseteq Requests \cup [id : Ids, kind : {"loaded"}]
      BY <2>1
    <3>2. \A X : X \subseteq Requests \cup [id : Ids, kind : {"loaded"}] =>
            [serving EXCEPT ![b] = X]
              \in [Bundles -> SUBSET (Requests \cup [id : Ids, kind : {"loaded"}])]
      BY DEF Typed
    <3>3. CASE serving' = [serving EXCEPT ![b] = {}]
      BY <3>2, <3>3
    <3>4. CASE serving' = [serving EXCEPT ![b] = {[id |-> r.id, kind |-> "loaded"]}]
      BY <3>1, <3>2, <3>4
    <3> QED BY <3>3, <3>4
  <2>3. stdout' \in [Bundles -> Seq(Envelopes)]
    BY <1>2 DEF Typed
  <2> QED BY <2>2, <2>3 DEF Typed
<1>6. AwaitedAt(b)'
  <2>1. \A id, k : Awaited(b, id, k) => Awaited(b, id, k)'
    BY StaysAwaited
  <2>2. AwaitedAt(b)
    BY DEF AllAwaited
  <2>3. \A s \in serving'[b] : \A id, k : id = s.id /\ k = Answer(s) => Awaited(b, id, k)'
    BY <1>4, <2>1, <2>2 DEF AwaitedAt
  <2>4. \A i \in DOMAIN stdout'[b] : \A id, k :
          id # 0 /\ id = stdout'[b][i].id /\ k = stdout'[b][i].kind => Awaited(b, id, k)'
    BY <1>2, <2>1, <2>2 DEF AwaitedAt
  <2> QED BY <2>1, <2>2, <2>3, <2>4 DEF AwaitedAt
<1>7. OnePlaceAt(b)'
  <2>1. OnePlaceAt(b)
    BY DEF OnePlace
  <2>2. \A i \in DOMAIN stdin[b] : stdin[b][i].id # 0 /\ stdin[b][i].id # r.id
    <3>1. \A i \in DOMAIN stdin[b] : stdin[b][i] \in Requests
      BY DEF Typed
    <3> QED BY <2>1, <3>1, SessionAssumption DEF OnePlaceAt, Requests, Ids
  <2>3. \A i, j \in DOMAIN stdout'[b] :
          stdout'[b][i].id = stdout'[b][j].id /\ stdout'[b][i].id # 0 => i = j
    BY <1>2, <2>1 DEF OnePlaceAt
  <2>4. \A i \in DOMAIN stdin[b], j \in DOMAIN stdout'[b] : stdin[b][i].id # stdout'[b][j].id
    BY <1>2, <2>1, <2>2 DEF OnePlaceAt
  <2>5. \A s \in serving'[b], j \in DOMAIN stdout'[b] : s.id # stdout'[b][j].id
    BY <1>2, <1>3, <1>4, <2>1 DEF OnePlaceAt
  <2> QED BY <1>4, <2>1, <2>2, <2>3, <2>4, <2>5 DEF OnePlaceAt
<1>8. \A id \in Ids : Somewhere(b, id) => Somewhere(b, id)'
  <2>1. (\E s \in serving'[b] : s.id = r.id) \/ (\E i \in DOMAIN stdout'[b] : stdout'[b][i].id = r.id)
    <3>1. CASE e.id = r.id
      BY <1>2, <3>1
    <3>2. CASE serving' = [serving EXCEPT ![b] = {[id |-> r.id, kind |-> "loaded"]}]
      <4>1. [id |-> r.id, kind |-> "loaded"] \in serving'[b]
        BY <3>2 DEF Typed
      <4> QED BY <4>1
    <3> QED BY <3>1, <3>2
  <2>2. \A s \in serving[b] : s = r
    BY DEF ServesOne
  <2> SUFFICES ASSUME NEW id \in Ids, Somewhere(b, id) PROVE Somewhere(b, id)'
    OBVIOUS
  <2>3. CASE \E i \in DOMAIN stdout[b] : stdout[b][i].id = id
    BY <1>2, <2>3 DEF Somewhere
  <2>4. CASE \E s \in serving[b] : s.id = id
    BY <2>1, <2>2, <2>4 DEF Somewhere
  <2>5. CASE \E i \in DOMAIN stdin[b] : stdin[b][i].id = id
    BY <2>5 DEF Somewhere
  <2> QED BY <2>3, <2>4, <2>5 DEF Somewhere
<1>9. \A a \in Bundles : a # b =>
        child'[a] = child[a] /\ stdin'[a] = stdin[a]
        /\ serving'[a] = serving[a] /\ stdout'[a] = stdout[a]
  BY DEF Typed
<1>10. \A s, t \in serving'[b] : s = t
  BY <1>4
<1>11. UNCHANGED <<next_id, pending, callerVars>>
  BY DEF callerVars
<1> QED BY <1>5, <1>6, <1>7, <1>8, <1>9, <1>10, <1>11, PipesIInv

\* The host process ends, with what it had read and what it had not.
LEMMA HostDiesIInv ==
  ASSUME IInv, NEW b \in Bundles, HostDies(b)
  PROVE  IInv'
<1> USE DEF IInv
<1>1. /\ child' = [child EXCEPT ![b] = "exited"]
      /\ serving' = [serving EXCEPT ![b] = {}]
      /\ stdin' = [stdin EXCEPT ![b] = <<>>]
      /\ UNCHANGED <<stdout, next_id, pending, reader, events, pc, call, got>>
  BY DEF HostDies, sessionVars, callerVars
<1>2. child'[b] = "exited" /\ serving'[b] = {} /\ stdin'[b] = <<>>
  BY <1>1 DEF Typed
<1>3. Typed'
  <2>1. <<>> \in Seq(Requests)
    OBVIOUS
  <2> QED BY <1>1, <2>1 DEF Typed
<1>4. AwaitedAt(b)'
  <2>1. \A id, k : Awaited(b, id, k) => Awaited(b, id, k)'
    BY <1>1, StaysAwaited
  <2> QED BY <1>1, <1>2, <2>1 DEF AllAwaited, AwaitedAt
<1>5. OnePlaceAt(b)'
  BY <1>1, <1>2 DEF OnePlace, OnePlaceAt
<1> QED BY <1>1, <1>2, <1>3, <1>4, <1>5, PipesIInv DEF callerVars, Typed

----------------------------------------------------------------------------
\* The read loop and the event pump

\* An event leaves stdout for the channel; nobody waits for it.
LEMMA ReadEventIInv ==
  ASSUME IInv, NEW b \in Bundles, ReadEvent(b)
  PROVE  IInv'
<1> USE DEF IInv
<1>1. stdout[b] \in Seq(Envelopes) /\ stdout[b] # <<>>
  BY DEF Typed, ReadEvent
<1>2. /\ Head(stdout[b]).id = 0 /\ Len(events) < EventCap
      /\ events' = Append(events, Head(stdout[b]))
      /\ stdout' = [stdout EXCEPT ![b] = Tail(stdout[b])]
      /\ UNCHANGED <<child, stdin, serving, next_id, pending, reader, pc, call, got>>
  BY DEF ReadEvent, NextLine, callerVars
<1>3. stdout'[b] = Tail(stdout[b])
  BY <1>2 DEF Typed
<1>4. /\ Tail(stdout[b]) \in Seq(Envelopes) /\ Head(stdout[b]) \in Envelopes
      /\ \A i \in DOMAIN stdout'[b] :
           i + 1 \in DOMAIN stdout[b] /\ stdout'[b][i] = stdout[b][i + 1]
      /\ \A i \in DOMAIN stdout[b] :
           \/ stdout[b][i].id = 0
           \/ i - 1 \in DOMAIN stdout'[b] /\ stdout'[b][i - 1] = stdout[b][i]
      /\ \A i, j \in DOMAIN stdout'[b] : i + 1 = j + 1 => i = j
  <2>1. \A i \in DOMAIN stdout[b] :
          i = 1 \/ (i - 1 \in DOMAIN stdout'[b] /\ stdout'[b][i - 1] = stdout[b][i])
    BY <1>1, <1>3, TailFacts
  <2>2. stdout[b][1].id = 0
    BY <1>1, <1>2, TailFacts
  <2> QED BY <1>1, <1>3, <2>1, <2>2, TailFacts
<1>5. Typed'
  <2>1. events' \in Seq(Envelopes) /\ Len(events') = Len(events) + 1 /\ Len(events) \in Nat
    BY <1>2, <1>4, AppendFacts DEF Typed
  <2>2. Len(events') <= EventCap
    BY <1>2, <2>1, SessionAssumption
  <2>3. stdout' \in [Bundles -> Seq(Envelopes)]
    BY <1>2, <1>4 DEF Typed
  <2> QED BY <1>2, <2>1, <2>2, <2>3 DEF Typed
<1>6. AwaitedAt(b)'
  <2>1. \A id, k : Awaited(b, id, k) => Awaited(b, id, k)'
    BY <1>2, StaysAwaited
  <2>2. AwaitedAt(b)
    BY DEF AllAwaited
  <2>3. \A i \in DOMAIN stdout'[b] : \A id, k :
          id # 0 /\ id = stdout'[b][i].id /\ k = stdout'[b][i].kind => Awaited(b, id, k)'
    BY <1>4, <2>1, <2>2 DEF AwaitedAt
  <2> QED BY <1>2, <2>1, <2>2, <2>3 DEF AwaitedAt
<1>7. OnePlaceAt(b)'
  <2>1. OnePlaceAt(b)
    BY DEF OnePlace
  <2>2. \A i, j \in DOMAIN stdout'[b] :
          stdout'[b][i].id = stdout'[b][j].id /\ stdout'[b][i].id # 0 => i = j
    BY <1>4, <2>1 DEF OnePlaceAt
  <2>3. /\ \A i \in DOMAIN stdin[b], j \in DOMAIN stdout'[b] : stdin[b][i].id # stdout'[b][j].id
        /\ \A r \in serving[b], j \in DOMAIN stdout'[b] : r.id # stdout'[b][j].id
    BY <1>4, <2>1 DEF OnePlaceAt
  <2> QED BY <1>2, <2>1, <2>2, <2>3 DEF OnePlaceAt
<1>8. \A id \in Ids : Somewhere(b, id) => Somewhere(b, id)'
  <2> SUFFICES ASSUME NEW id \in Ids, Somewhere(b, id) PROVE Somewhere(b, id)'
    OBVIOUS
  <2>1. CASE \E i \in DOMAIN stdout[b] : stdout[b][i].id = id
    <3>1. id # 0
      BY SessionAssumption DEF Ids
    <3>2. \E i \in DOMAIN stdout'[b] : stdout'[b][i].id = id
      BY <1>4, <2>1, <3>1
    <3> QED BY <3>2 DEF Somewhere
  <2> QED BY <1>2, <2>1 DEF Somewhere
<1>9. \A r, s \in serving'[b] : r = s
  BY <1>2 DEF ServesOne
<1> QED BY <1>2, <1>5, <1>6, <1>7, <1>8, <1>9, PipesIInv DEF callerVars, Typed

\* Steps that only the read loop and the pump see.
LEMMA QuietIInv ==
  ASSUME IInv, (\E b \in Bundles : ReadEof(b)) \/ PumpEvent \/ UNCHANGED vars
  PROVE  IInv'
<1> USE DEF IInv
<1>1. /\ UNCHANGED <<child, stdin, serving, stdout, next_id, pending, pc, call, got>>
      /\ reader' \in [Bundles -> {"none", "reading", "done"}]
      /\ events' = events \/ (events # <<>> /\ events' = Tail(events))
  BY DEF ReadEof, PumpEvent, vars, hostVars, sessionVars, callerVars, Typed
<1>2. events' \in Seq(Envelopes) /\ Len(events') <= EventCap
  <2>1. CASE events' = events
    BY <2>1 DEF Typed
  <2>2. CASE events # <<>> /\ events' = Tail(events)
    <3>1. events' \in Seq(Envelopes) /\ Len(events') = Len(events) - 1 /\ Len(events) \in Nat
      BY <2>2, TailFacts DEF Typed
    <3> QED BY <3>1, SessionAssumption DEF Typed
  <2> QED BY <1>1, <2>1, <2>2
<1>3. Typed' /\ ServesOne' /\ OnePlace'
  BY <1>1, <1>2 DEF Typed, ServesOne, OnePlace, OnePlaceAt
<1>4. AllAwaited'
  BY <1>1, StaysAwaited DEF AllAwaited, AwaitedAt
<1>5. Registered' /\ SomePlace' /\ IdsFresh' /\ NoEarlyResult' /\ RepliesRouted'
  BY <1>1 DEF Registered, SomePlace, Somewhere, IdsFresh, Active, NoEarlyResult, RepliesRouted
<1> QED BY <1>3, <1>4, <1>5


\* A reply leaves stdout for the one caller that awaits it; the others keep
\* their senders and what they wait for.
LEMMA ReadReplyIInv ==
  ASSUME IInv, NEW b \in Bundles, ReadReply(b)
  PROVE  IInv'
<1> USE DEF IInv
<1>1. stdout[b] \in Seq(Envelopes) /\ stdout[b] # <<>>
  BY DEF Typed, ReadReply
<1> PICK e \in Envelopes : e = Head(stdout[b])
  BY <1>1, TailFacts
<1>2. /\ \A i \in DOMAIN stdout[b] : i = 1 => stdout[b][i] = e
      /\ 1 \in DOMAIN stdout[b] /\ stdout[b][1] = e /\ e.id # 0
  BY <1>1, TailFacts DEF ReadReply
<1> PICK c \in Callers : Awaits(c, b, e.id) /\ ReplyKind(call[c].kind) = e.kind
  BY <1>2 DEF AllAwaited, AwaitedAt, Awaited
<1>3. /\ pc[c] = "awaiting" /\ Active(c) /\ call[c].bundle = b /\ call[c].id = e.id
      /\ [id |-> e.id, caller |-> c] \in pending[b]
  BY DEF Awaits, Active, Registered
<1>4. \A p \in pending[b] : p.id = e.id => p.caller = c
  BY <1>3 DEF IdsFresh
<1>5. {p.caller : p \in {q \in pending[b] : q.id = e.id}} = {c}
  BY <1>3, <1>4
<1>6. /\ pending' = [pending EXCEPT ![b] = {p \in pending[b] : p.id # e.id}]
      /\ pc' = [pc EXCEPT ![c] = "done"]
      /\ got' = [got EXCEPT ![c] = e]
      /\ stdout' = [stdout EXCEPT ![b] = Tail(stdout[b])]
      /\ UNCHANGED <<child, stdin, serving, next_id, reader, events, call>>
  <2>1. {d \in {c} : pc[d] = "awaiting" /\ call[d].bundle = b} = {c}
    BY <1>3
  <2>2. /\ pc' = [d \in Callers |-> IF d \in {c} THEN "done" ELSE pc[d]]
        /\ got' = [d \in Callers |-> IF d \in {c} THEN e ELSE got[d]]
    BY <1>5, <2>1 DEF ReadReply
  <2>3. pc' = [pc EXCEPT ![c] = "done"] /\ got' = [got EXCEPT ![c] = e]
    BY <2>2 DEF Typed
  <2> QED BY <2>3 DEF ReadReply, Unregister, NextLine
<1>7. stdout'[b] = Tail(stdout[b])
  BY <1>6 DEF Typed
<1>8. /\ Tail(stdout[b]) \in Seq(Envelopes)
      /\ \A i \in DOMAIN stdout'[b] :
           i + 1 \in DOMAIN stdout[b] /\ i + 1 # 1 /\ stdout'[b][i] = stdout[b][i + 1]
      /\ \A i \in DOMAIN stdout[b] :
           i = 1 \/ (i - 1 \in DOMAIN stdout'[b] /\ stdout'[b][i - 1] = stdout[b][i])
      /\ \A i, j \in DOMAIN stdout'[b] : i + 1 = j + 1 => i = j
  BY <1>1, <1>7, TailFacts
<1>9. /\ pending'[b] = {p \in pending[b] : p.id # e.id}
      /\ \A a \in Bundles : a # b => pending'[a] = pending[a] /\ stdout'[a] = stdout[a]
      /\ \A a \in Bundles : pending'[a] \subseteq pending[a]
  BY <1>6 DEF Typed
<1>10. /\ pc'[c] = "done" /\ got'[c] = e
       /\ \A d \in Callers : d # c => pc'[d] = pc[d] /\ got'[d] = got[d]
  BY <1>6 DEF Typed
<1>11. \A d \in Callers :
         Active(d)' => d # c /\ Active(d) /\ pc'[d] = pc[d] /\ call'[d] = call[d]
                       /\ call[d].bundle \in Bundles
  BY <1>6, <1>10 DEF Active, IdsFresh
<1>12. Typed'
  <2>1. pending' \in [Bundles -> SUBSET [id : Ids, caller : Callers]]
    BY <1>6 DEF Typed
  <2>2. stdout' \in [Bundles -> Seq(Envelopes)]
    BY <1>6, <1>8 DEF Typed
  <2>3. /\ pc' \in [Callers -> {"idle", "registered", "awaiting", "done"}]
        /\ got' \in [Callers -> Envelopes \cup {Error}]
    BY <1>6 DEF Typed
  <2> QED BY <1>6, <2>1, <2>2, <2>3 DEF Typed
<1>13. ServesOne'
  BY <1>6 DEF ServesOne
<1>14. \A a \in Bundles : \A id, k :
         Awaited(a, id, k) /\ ~ (a = b /\ id = e.id) => Awaited(a, id, k)'
  BY <1>3, <1>6, <1>10 DEF Awaited, Awaits
<1>15. /\ \A i \in DOMAIN stdin[b] : stdin[b][i].id # e.id
       /\ \A r \in serving[b] : r.id # e.id
       /\ \A i \in DOMAIN stdout'[b] : stdout'[b][i].id # e.id
  BY <1>2, <1>8 DEF OnePlace, OnePlaceAt
<1>16. AllAwaited'
  <2>1. AwaitedAt(b)'
    <3>1. AwaitedAt(b)
      BY DEF AllAwaited
    <3>2. \A i \in DOMAIN stdout'[b] : \A id, k :
            id # 0 /\ id = stdout'[b][i].id /\ k = stdout'[b][i].kind => Awaited(b, id, k)'
      BY <1>8, <1>14, <1>15, <3>1 DEF AwaitedAt
    <3> QED BY <1>6, <1>14, <1>15, <3>1, <3>2 DEF AwaitedAt
  <2>2. \A a \in Bundles : a # b => AwaitedAt(a)'
    BY <1>6, <1>9, <1>14 DEF AllAwaited, AwaitedAt
  <2> QED BY <2>1, <2>2 DEF AllAwaited
<1>17. OnePlace'
  <2>1. OnePlaceAt(b)'
    <3>1. OnePlaceAt(b)
      BY DEF OnePlace
    <3>2. ASSUME NEW i \in DOMAIN stdout'[b], NEW j \in DOMAIN stdout'[b],
                 stdout'[b][i].id = stdout'[b][j].id, stdout'[b][i].id # 0
          PROVE  i = j
      <4>1. /\ i + 1 \in DOMAIN stdout[b] /\ stdout[b][i + 1] = stdout'[b][i]
            /\ j + 1 \in DOMAIN stdout[b] /\ stdout[b][j + 1] = stdout'[b][j]
            /\ (i + 1 = j + 1 => i = j)
        BY <1>8
      <4>2. i + 1 = j + 1
        BY <3>1, <3>2, <4>1 DEF OnePlaceAt
      <4> QED BY <4>1, <4>2
    <3>3. /\ \A i \in DOMAIN stdin[b], j \in DOMAIN stdout'[b] : stdin[b][i].id # stdout'[b][j].id
          /\ \A r \in serving[b], j \in DOMAIN stdout'[b] : r.id # stdout'[b][j].id
      BY <1>8, <3>1 DEF OnePlaceAt
    <3> QED BY <1>6, <3>1, <3>2, <3>3 DEF OnePlaceAt
  <2>2. \A a \in Bundles : a # b => OnePlaceAt(a)'
    BY <1>6, <1>9 DEF OnePlace, OnePlaceAt
  <2> QED BY <2>1, <2>2 DEF OnePlace
<1>18. \A d \in Callers : Active(d)' /\ call[d].bundle = b => call[d].id # e.id
  BY <1>3, <1>11 DEF IdsFresh
<1>19. Registered'
  BY <1>6, <1>9, <1>11, <1>18 DEF Registered
<1>20. SomePlace'
  <2> SUFFICES ASSUME NEW d \in Callers, NEW a \in Bundles, NEW id,
                      pc[d] = "awaiting", Active(d)', call[d].bundle = a, call[d].id = id,
                      child[a] = "running"
               PROVE  Somewhere(a, id)'
    BY <1>6, <1>11 DEF SomePlace, Active, Somewhere
  <2>1. Somewhere(a, id) /\ ~ (a = b /\ id = e.id)
    BY <1>18 DEF SomePlace
  <2>2. CASE a # b
    BY <1>6, <1>9, <2>1, <2>2 DEF Somewhere
  <2>3. CASE a = b
    <3>1. CASE \E i \in DOMAIN stdout[b] : stdout[b][i].id = id
      <4>1. \E i \in DOMAIN stdout'[b] : stdout'[b][i].id = id
        BY <1>2, <1>8, <2>1, <2>3, <3>1
      <4> QED BY <2>3, <4>1 DEF Somewhere
    <3> QED BY <1>6, <2>1, <2>3, <3>1 DEF Somewhere
  <2> QED BY <2>2, <2>3
<1>21. IdsFresh'
  BY <1>6, <1>9, <1>11 DEF IdsFresh
<1>22. NoEarlyResult' /\ RepliesRouted'
  <2>1. got'[c].id = call'[c].id /\ got'[c].kind = ReplyKind(call'[c].kind)
    BY <1>3, <1>6, <1>10
  <2> QED BY <1>6, <1>10, <2>1 DEF NoEarlyResult, RepliesRouted
<1> QED BY <1>12, <1>13, <1>16, <1>17, <1>19, <1>20, <1>21, <1>22

----------------------------------------------------------------------------
\* The theorems

\* Every step of the daemon's tasks and of the hosts keeps the invariant.
LEMMA NextIInv == IInv /\ [Next]_vars => IInv'
<1> SUFFICES ASSUME IInv, [Next]_vars PROVE IInv'
  OBVIOUS
<1>1. ASSUME NEW c \in Callers, NEW b \in Bundles, NEW kind \in Kinds, CallSession(c, b, kind)
      PROVE  IInv'
  BY <1>1, CallIInv
<1>2. ASSUME NEW c \in Callers, NEW b \in Bundles, SpawnAndLoad(c, b)
      PROVE  IInv'
  BY <1>2, CallIInv DEF Kinds
<1>3. ASSUME NEW c \in Callers, NEW b \in Bundles, NoSession(c, b)
      PROVE  IInv'
  BY <1>3, CallerIInv
<1>4. ASSUME NEW c \in Callers, CallerSteps(c)
      PROVE  IInv'
  BY <1>4, WriteIInv, CallerIInv DEF CallerSteps
<1>5. ASSUME NEW b \in Bundles, HostSteps(b)
      PROVE  IInv'
  BY <1>5, HostReadIInv, SayIInv DEF HostSteps
<1>6. ASSUME NEW b \in Bundles, HostDies(b)
      PROVE  IInv'
  BY <1>6, HostDiesIInv
<1>7. ASSUME NEW b \in Bundles, ReaderSteps(b)
      PROVE  IInv'
  BY <1>7, ReadEventIInv, ReadReplyIInv, QuietIInv DEF ReaderSteps
<1>8. CASE PumpEvent \/ UNCHANGED vars
  BY <1>8, QuietIInv
<1> QED BY <1>1, <1>2, <1>3, <1>4, <1>5, <1>6, <1>7, <1>8 DEF Next

\* The inductive invariant holds in every state of every behaviour.
THEOREM SessionInvariant == Spec => []IInv
BY InitIInv, NextIInv, PTL DEF Spec

\* A set with at most one element.
LEMMA AtMostOne ==
  ASSUME NEW S, \A x, y \in S : x = y
  PROVE  /\ Cardinality(S) \in {0, 1}
         /\ Cardinality(S) = 0 <=> S = {}
<1>1. CASE S = {}
  BY <1>1, FS_EmptySet
<1>2. CASE S # {}
  <2>1. PICK x : S = {x}
    BY <1>2
  <2>2. Cardinality({x}) = 1
    BY FS_Singleton
  <2>3. Cardinality(S) = 1
    BY <2>1, <2>2
  <2> QED BY <1>2, <2>3
<1> QED BY <1>1, <1>2

\* Type correctness: among the rest, the host handles one request at a time
\* and the event channel keeps to its capacity.
THEOREM TypeCorrect == Spec => []TypeOK
<1>1. ASSUME IInv PROVE TypeOK
  <2>1. \A b \in Bundles : Cardinality(serving[b]) <= 1
    <3> SUFFICES ASSUME NEW b \in Bundles PROVE Cardinality(serving[b]) <= 1
      OBVIOUS
    <3>1. Cardinality(serving[b]) \in {0, 1}
      BY <1>1, AtMostOne DEF IInv, ServesOne
    <3> QED BY <3>1
  <2> QED BY <1>1, <2>1 DEF IInv, Typed, TypeOK
<1> QED BY <1>1, SessionInvariant, PTL

\* A call that ends with a reply ends with the reply to its own request, in
\* whichever order the callers, the host and the read loop run in.
THEOREM RepliesAreRouted == Spec => []RepliesRouted
<1>1. IInv => RepliesRouted
  BY DEF IInv
<1> QED BY <1>1, SessionInvariant, PTL

\* What a caller awaits is in one place at most and, until the host dies, in
\* exactly one: the count of NoReplyLost, from OnePlace and SomePlace.
THEOREM NothingLost == Spec => []NoReplyLost
<1>1. ASSUME IInv PROVE NoReplyLost
  <2> SUFFICES ASSUME NEW c \in Callers, pc[c] = "awaiting",
                      NEW b \in Bundles, b = call[c].bundle,
                      NEW id \in Ids, id = call[c].id
               PROVE  /\ [id |-> id, caller |-> c] \in pending[b]
                      /\ InFlight(b, id) <= 1
                      /\ child[b] = "running" => InFlight(b, id) = 1
    BY <1>1 DEF NoReplyLost, IInv, IdsFresh, Active
  <2> DEFINE In == {i \in DOMAIN stdin[b] : stdin[b][i].id = id}
             Host == {r \in serving[b] : r.id = id}
             Out == {i \in DOMAIN stdout[b] : stdout[b][i].id = id}
  <2>1. [id |-> id, caller |-> c] \in pending[b]
    BY <1>1 DEF IInv, Registered, Active
  <2>2. OnePlaceAt(b) /\ id # 0
    BY <1>1, SessionAssumption DEF IInv, OnePlace, Ids
  <2>3. /\ \A x, y \in In : x = y
        /\ \A x, y \in Out : x = y
        /\ In = {} \/ Host = {}
        /\ In = {} \/ Out = {}
        /\ Host = {} \/ Out = {}
    BY <2>2 DEF OnePlaceAt
  <2>4. \A x, y \in Host : x = y
    BY <1>1 DEF IInv, ServesOne
  <2>5. child[b] = "running" => ~ (In = {} /\ Host = {} /\ Out = {})
    BY <1>1 DEF IInv, SomePlace, Somewhere
  <2>6. InFlight(b, id) = Cardinality(In) + Cardinality(Host) + Cardinality(Out)
    BY DEF InFlight
  <2> HIDE DEF In, Host, Out
  <2>7. /\ Cardinality(In) \in {0, 1} /\ (Cardinality(In) = 0 <=> In = {})
        /\ Cardinality(Host) \in {0, 1} /\ (Cardinality(Host) = 0 <=> Host = {})
        /\ Cardinality(Out) \in {0, 1} /\ (Cardinality(Out) = 0 <=> Out = {})
    BY <2>3, <2>4, AtMostOne
  <2> QED BY <2>1, <2>3, <2>5, <2>6, <2>7
<1> QED BY <1>1, SessionInvariant, PTL

=============================================================================
