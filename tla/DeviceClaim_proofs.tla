------------------------- MODULE DeviceClaim_proofs -------------------------
(***************************************************************************)
(* Proofs about DeviceClaim, for any programs.                             *)
(***************************************************************************)
EXTENDS DeviceClaim, TLAPS

\* The claim has not begun, or is over and forgotten.
NoClaimHeld == unseen = <<>> /\ target = None /\ stopped = <<>> /\ ~booted

\* What each phase of the daemon knows of the stopped programs: the claim stops
\* again what it finds stopped, and what it has not looked for yet, or what
\* pgrep failed to find, may be.
StoppedKnown ==
  /\ pc \in {"off", "dext"} => NoClaimHeld
  /\ pc = "off" /\ granted => \A p \in Programs : proc[p] = "stopped" => p \in unfound
  /\ pc \in {"dext", "claim"} => ~granted
  /\ pc = "claim" =>
       \A p \in Programs : proc[p] = "stopped" =>
         p \in ToSet(stopped) \cup ToSet(unseen) \cup {target} \cup unfound
  /\ pc \in {"open", "start", "serve", "ending", "shutdown"} =>
       /\ unseen = <<>> /\ target = None
       /\ \A p \in Programs : proc[p] = "stopped" => p \in ToSet(stopped) \cup unfound

\* A name is looked for once.
OncePerName ==
  Len(stopped) + Len(unseen) + (IF target = None THEN 0 ELSE 1) <= Len(Names)

\* The interfaces are claimed after the claim is granted.
IfacesAfterClaim == pc \in {"off", "dext", "claim"} => ifaces = {}

\* The transport is shared once it is open, and a write that is under way is
\* one of a task that is there.
WritesHeld ==
  /\ pc \in {"off", "dext", "claim", "open"} => holders = {}
  /\ \A t \in Writers : transfer[t] = "pending" => t \in holders

IInv == TypeOK /\ StoppedKnown /\ OncePerName /\ IfacesAfterClaim /\ WritesHeld

----------------------------------------------------------------------------
\* The elements of a sequence

\* What Pgrep and the guard's drop take off the front of a sequence.
LEMMA TailElements ==
  ASSUME NEW S, NEW s \in Seq(S), s # <<>>
  PROVE  /\ Head(s) \in S /\ Tail(s) \in Seq(S) /\ Len(Tail(s)) = Len(s) - 1
         /\ ToSet(s) = {Head(s)} \cup ToSet(Tail(s))
<1>1. Head(s) \in S /\ Tail(s) \in Seq(S) /\ Len(Tail(s)) = Len(s) - 1
  OBVIOUS
<1>2. \A i \in 1..Len(Tail(s)) : Tail(s)[i] = s[i + 1]
  OBVIOUS
<1>3. ToSet(s) \subseteq {Head(s)} \cup ToSet(Tail(s))
  <2> SUFFICES ASSUME NEW i \in DOMAIN s, i # 1
               PROVE  s[i] \in ToSet(Tail(s))
    BY DEF ToSet
  <2>1. i - 1 \in 1..Len(Tail(s)) /\ s[i] = Tail(s)[i - 1]
    BY <1>1, <1>2
  <2> QED BY <1>1, <2>1 DEF ToSet
<1>4. {Head(s)} \cup ToSet(Tail(s)) \subseteq ToSet(s)
  BY <1>1, <1>2 DEF ToSet
<1> QED BY <1>1, <1>3, <1>4

\* What Sigstop adds.
LEMMA AppendElements ==
  ASSUME NEW S, NEW s \in Seq(S), NEW e \in S
  PROVE  /\ Append(s, e) \in Seq(S) /\ Len(Append(s, e)) = Len(s) + 1
         /\ ToSet(Append(s, e)) = ToSet(s) \cup {e}
<1>1. Append(s, e) \in Seq(S) /\ Len(Append(s, e)) = Len(s) + 1
  OBVIOUS
<1>2. Append(s, e)[Len(s) + 1] = e /\ \A i \in 1..Len(s) : Append(s, e)[i] = s[i]
  OBVIOUS
<1>3. DOMAIN Append(s, e) = 1..Len(s) + 1 /\ DOMAIN s = 1..Len(s) /\ Len(s) \in Nat
  BY <1>1
<1> QED BY <1>1, <1>2, <1>3 DEF ToSet

\* The programs are the names; None is not one.
LEMMA NamesFacts ==
  /\ Names \in Seq(Programs) /\ ToSet(Names) = Programs
  /\ Agent \in Programs /\ None \notin Programs
  /\ Len(Names) \in Nat /\ <<>> \in Seq(Programs) /\ Len(<<>>) <= Len(Names)
<1>1. Programs = {Names[i] : i \in 1..Len(Names)} /\ Len(Names) \in Nat
  BY NamesAssumption DEF Programs, ToSet
<1>2. Names \in Seq(Programs)
  BY <1>1, NamesAssumption
<1>3. Agent \in Programs
  BY <1>2, NamesAssumption, TailElements DEF Agent
<1>4. <<>> \in Seq(Programs) /\ Len(<<>>) <= Len(Names)
  BY <1>1
<1> QED BY <1>1, <1>2, <1>3, <1>4, NamesAssumption DEF Programs, None

----------------------------------------------------------------------------

\* No daemon runs yet, and no program is stopped.
LEMMA InitIInv == Init => IInv
<1> SUFFICES ASSUME Init PROVE IInv
  OBVIOUS
<1> USE DEF Init
<1>1. TypeOK
  BY NamesFacts DEF TypeOK, Locals, Tasks, NoTransfer
<1>2. StoppedKnown /\ OncePerName /\ IfacesAfterClaim /\ WritesHeld
  BY NamesAssumption DEF StoppedKnown, NoClaimHeld, OncePerName, IfacesAfterClaim,
                         WritesHeld, NoTransfer
<1> QED BY <1>1, <1>2 DEF IInv

\* The programs run, stop at nobody's behest but the daemon's, and exit.
LEMMA ProgramIInv ==
  ASSUME IInv,
         (\E p \in Programs : ProgramExits(p) \/ ProgramStarts(p)) \/ RestoreTool
  PROVE  IInv'
<1>1. /\ \A p \in Programs : proc'[p] = "stopped" => proc[p] = "stopped"
      /\ proc' \in [Programs -> {"running", "stopped", "gone"}]
      /\ UNCHANGED <<agentKnown, pc, claimVars, transportVars>>
  BY DEF IInv, TypeOK, ProgramExits, ProgramStarts, RestoreTool, Continued
<1> USE DEF IInv, claimVars, transportVars
<1>2. TypeOK'
  BY <1>1 DEF TypeOK
<1>3. StoppedKnown'
  BY <1>1 DEF StoppedKnown, NoClaimHeld
<1>4. OncePerName' /\ IfacesAfterClaim' /\ WritesHeld'
  BY <1>1 DEF OncePerName, IfacesAfterClaim, WritesHeld
<1> QED BY <1>2, <1>3, <1>4

\* The claim: a program found is the target, a target is stopped or gone.
LEMMA ClaimIInv ==
  ASSUME IInv, \/ Start \/ NoDext \/ Pgrep \/ PgrepFails \/ Bootout
               \/ Sigstop \/ SigstopFails \/ Grant
  PROVE  IInv'
<1> USE DEF IInv, programVars, transportVars
<1>0. WritesHeld'
  <2>1. UNCHANGED <<holders, transfer>>
    BY DEF Start, NoDext, Pgrep, PgrepFails, Bootout, Sigstop, SigstopFails, Grant
  <2>2. \/ pc \in {"off", "dext", "claim"}
        \/ UNCHANGED pc
    <3>1. CASE Start \/ NoDext \/ Pgrep \/ PgrepFails \/ Grant
      BY <3>1 DEF Start, NoDext, Pgrep, PgrepFails, Grant
    <3>2. CASE SigstopFails
      BY <3>2 DEF SigstopFails, StoppedKnown, NoClaimHeld, TypeOK
    <3>3. CASE Bootout \/ Sigstop
      BY <3>3 DEF Bootout, Sigstop
    <3> QED BY <3>1, <3>2, <3>3
  <2> QED BY <2>1, <2>2 DEF WritesHeld
<1>1. CASE Start \/ NoDext
  <2>1. TypeOK'
    BY <1>1, NamesFacts DEF Start, NoDext, TypeOK
  <2>2. StoppedKnown'
    BY <1>1, NamesFacts DEF Start, NoDext, StoppedKnown, NoClaimHeld
  <2>3. OncePerName' /\ IfacesAfterClaim'
    BY <1>1, NamesFacts DEF Start, NoDext, OncePerName, IfacesAfterClaim, StoppedKnown, NoClaimHeld
  <2> QED BY <1>0, <2>1, <2>2, <2>3
<1>2. CASE Pgrep
  <2> USE <1>2 DEF Pgrep
  <2>1. /\ Head(unseen) \in Programs /\ Tail(unseen) \in Seq(Programs)
        /\ Len(Tail(unseen)) = Len(unseen) - 1
        /\ ToSet(unseen) = {Head(unseen)} \cup ToSet(Tail(unseen))
    BY TailElements DEF TypeOK
  <2>2. TypeOK'
    BY <2>1 DEF TypeOK
  <2>3. StoppedKnown'
    <3>1. pc' = "claim" /\ UNCHANGED <<proc, stopped, unfound, granted>>
      OBVIOUS
    <3>2. ASSUME NEW p \in Programs, proc[p] = "stopped"
          PROVE  p \in ToSet(stopped) \cup ToSet(Tail(unseen)) \cup {target'} \cup unfound
      <4>1. p \in ToSet(stopped) \cup ToSet(unseen) \cup unfound \/ p = None
        BY <3>2 DEF StoppedKnown
      <4>2. p # None
        BY NamesFacts
      <4>3. p = Head(unseen) => target' = p
        BY <3>2 DEF Found
      <4> QED BY <2>1, <4>1, <4>2, <4>3
    <3> QED BY <3>1, <3>2 DEF StoppedKnown
  <2>4. OncePerName'
    <3>1. Len(unseen) \in Nat /\ Len(stopped) \in Nat /\ Len(Names) \in Nat
      BY NamesFacts DEF TypeOK
    <3> QED BY <2>1, <3>1 DEF OncePerName
  <2>5. IfacesAfterClaim'
    BY DEF IfacesAfterClaim
  <2> QED BY <1>0, <2>2, <2>3, <2>4, <2>5
<1>3. CASE Bootout
  <2> USE <1>3 DEF Bootout
  <2>1. pc = "claim" /\ target \in Programs /\ target = Agent
    BY NamesFacts DEF StoppedKnown, NoClaimHeld, TypeOK
  <2>2. TypeOK'
    BY DEF TypeOK
  <2>3. StoppedKnown'
    BY <2>1 DEF StoppedKnown, TypeOK
  <2>4. OncePerName' /\ IfacesAfterClaim'
    <3>1. Len(unseen) \in Nat /\ Len(stopped) \in Nat /\ Len(Names) \in Nat
      BY NamesFacts DEF TypeOK
    <3> QED BY <2>1, <3>1 DEF OncePerName, IfacesAfterClaim
  <2> QED BY <1>0, <2>2, <2>3, <2>4
<1>4. CASE Sigstop
  <2> USE <1>4 DEF Sigstop
  <2>1. pc = "claim" /\ target \in Programs
    BY DEF StoppedKnown, NoClaimHeld, TypeOK
  <2>2. /\ stopped' \in Seq(Programs) /\ Len(stopped') = Len(stopped) + 1
        /\ ToSet(stopped') = ToSet(stopped) \cup {target}
    BY <2>1, AppendElements DEF TypeOK
  <2>3. Len(unseen) \in Nat /\ Len(stopped) \in Nat /\ Len(Names) \in Nat
    BY NamesFacts DEF TypeOK
  <2>4. Len(stopped') <= Len(Names) /\ OncePerName'
    BY <2>2, <2>3 DEF OncePerName
  <2>5. TypeOK'
    BY <2>1, <2>2, <2>4 DEF TypeOK
  <2>6. StoppedKnown'
    BY <2>1, <2>2 DEF StoppedKnown, TypeOK
  <2>7. IfacesAfterClaim'
    BY DEF IfacesAfterClaim
  <2> QED BY <1>0, <2>4, <2>5, <2>6, <2>7
<1>5. CASE SigstopFails
  <2> USE <1>5 DEF SigstopFails, NoClaim
  <2>1. pc = "claim"
    BY DEF StoppedKnown, NoClaimHeld, TypeOK
  <2>2. TypeOK'
    BY NamesFacts DEF TypeOK
  <2>3. StoppedKnown'
    BY <2>1 DEF StoppedKnown, NoClaimHeld
  <2>4. OncePerName' /\ IfacesAfterClaim'
    BY <2>1, NamesFacts DEF OncePerName, IfacesAfterClaim
  <2> QED BY <1>0, <2>2, <2>3, <2>4
<1>6. CASE Grant
  <2> USE <1>6 DEF Grant
  <2>1. TypeOK'
    BY DEF TypeOK
  <2>2. ToSet(unseen) = {}
    BY DEF ToSet
  <2>3. StoppedKnown'
    BY <2>2, NamesFacts DEF StoppedKnown
  <2>4. OncePerName' /\ IfacesAfterClaim'
    BY DEF OncePerName, IfacesAfterClaim
  <2> QED BY <1>0, <2>1, <2>3, <2>4
<1>7. CASE PgrepFails
  <2> USE <1>7 DEF PgrepFails
  <2>1. /\ Head(unseen) \in Programs /\ Tail(unseen) \in Seq(Programs)
        /\ Len(Tail(unseen)) = Len(unseen) - 1
        /\ ToSet(unseen) = {Head(unseen)} \cup ToSet(Tail(unseen))
    BY TailElements DEF TypeOK
  <2>2. TypeOK'
    BY <2>1 DEF TypeOK
  <2>3. StoppedKnown'
    BY <2>1 DEF StoppedKnown
  <2>4. OncePerName'
    <3>1. Len(unseen) \in Nat /\ Len(stopped) \in Nat /\ Len(Names) \in Nat
      BY NamesFacts DEF TypeOK
    <3> QED BY <2>1, <3>1 DEF OncePerName
  <2>5. IfacesAfterClaim'
    BY DEF IfacesAfterClaim
  <2> QED BY <1>0, <2>2, <2>3, <2>4, <2>5
<1> QED BY <1>0, <1>1, <1>2, <1>3, <1>4, <1>5, <1>6, <1>7

\* The guard, once there, is let go of by nobody before main returns.
LEMMA ServiceIInv ==
  ASSUME IInv, \/ ClaimInterface \/ SpawnTasks \/ OpenFails \/ Serve \/ OscEnds
               \/ End \/ DropLocal \/ DropTask \/ DropReader \/ DropInterface
  PROVE  IInv'
<1> DEFINE Late == {"open", "start", "serve", "ending", "shutdown"}
<1>1. pc \in Late /\ pc' \in Late /\ UNCHANGED <<programVars, claimVars>>
  BY DEF ClaimInterface, SpawnTasks, OpenFails, Serve, OscEnds, End, DropLocal,
         DropTask, DropReader, DropInterface, TransportDropped
<1>2. ifaces' \subseteq {"hid", "display"} /\ holders' \subseteq Locals \cup Tasks
  BY DEF IInv, TypeOK, Locals, Tasks, ClaimInterface, SpawnTasks, OpenFails, Serve,
         OscEnds, End, DropLocal, DropTask, Dropped, DropReader, DropInterface,
         transportVars
<1>3. reader' \in BOOLEAN
  BY DEF IInv, TypeOK, ClaimInterface, SpawnTasks, OpenFails, Serve, OscEnds, End,
         DropLocal, DropTask, DropReader, DropInterface, transportVars
<1>4. transfer' \in [Writers -> {"none", "pending", "abandoned"}] /\ WritesHeld'
  <2>1. CASE DropTask
    <3> PICK h \in holders :
          /\ Dropped(h)
          /\ transfer' = IF h \in Writers THEN Abandoned(h) ELSE transfer
      BY <2>1 DEF DropTask
    <3>1. transfer' \in [Writers -> {"none", "pending", "abandoned"}]
      BY DEF IInv, TypeOK, Abandoned
    <3>2. ASSUME NEW t \in Writers, transfer'[t] = "pending"
          PROVE  t \in holders'
      BY <3>2 DEF IInv, TypeOK, WritesHeld, Abandoned, Dropped
    <3> QED BY <2>1, <3>1, <3>2 DEF WritesHeld, DropTask
  <2>2. CASE SpawnTasks \/ Serve \/ OscEnds \/ DropLocal
    BY <2>2 DEF IInv, TypeOK, WritesHeld, Writers, Locals, SpawnTasks, Serve, OscEnds,
                DropLocal
  <2>3. CASE ClaimInterface \/ OpenFails \/ End \/ DropReader \/ DropInterface
    BY <2>3 DEF IInv, TypeOK, WritesHeld, ClaimInterface, OpenFails, End, DropReader,
                DropInterface, TransportDropped, transportVars
  <2> QED BY <2>1, <2>2, <2>3
<1> USE DEF IInv, programVars, claimVars
<1>5. TypeOK'
  BY <1>1, <1>2, <1>3, <1>4 DEF TypeOK
<1>6. StoppedKnown'
  BY <1>1 DEF StoppedKnown, NoClaimHeld
<1>7. OncePerName' /\ IfacesAfterClaim'
  BY <1>1 DEF OncePerName, IfacesAfterClaim
<1> QED BY <1>4, <1>5, <1>6, <1>7

\* A write is submitted by a task that is there; its callback may come later.
LEMMA TransferIInv ==
  ASSUME IInv, NEW t \in Writers, Submit(t) \/ Complete(t)
  PROVE  IInv'
<1>1. UNCHANGED <<programVars, pc, claimVars, ifaces, holders, reader>>
  BY DEF Submit, Complete
<1>2. transfer' \in [Writers -> {"none", "pending", "abandoned"}] /\ WritesHeld'
  BY DEF IInv, TypeOK, WritesHeld, Submit, Complete
<1> USE DEF IInv, programVars, claimVars
<1>3. TypeOK'
  BY <1>1, <1>2 DEF TypeOK
<1>4. StoppedKnown' /\ OncePerName' /\ IfacesAfterClaim'
  BY <1>1 DEF StoppedKnown, NoClaimHeld, OncePerName, IfacesAfterClaim
<1> QED BY <1>2, <1>3, <1>4

\* The guard's drop gives back what the claim took, one program at a time.
LEMMA GuardIInv ==
  ASSUME IInv, Sigcont \/ Bootstrap \/ Exit \/ Crash
  PROVE  IInv'
<1> USE DEF IInv, GuardDropped, TransportDropped, programVars, transportVars
<1>0. WritesHeld'
  BY DEF WritesHeld, NoTransfer, Sigcont, Bootstrap, Exit, Crash
<1>1. CASE Sigcont
  <2> USE <1>1 DEF Sigcont
  <2>1. /\ Tail(stopped) \in Seq(Programs) /\ Len(Tail(stopped)) = Len(stopped) - 1
        /\ ToSet(stopped) = {Head(stopped)} \cup ToSet(Tail(stopped))
    BY TailElements DEF TypeOK
  <2>2. Len(unseen) \in Nat /\ Len(stopped) \in Nat /\ Len(Names) \in Nat
    BY NamesFacts DEF TypeOK
  <2>3. TypeOK'
    BY <2>1, <2>2 DEF TypeOK, Continued
  <2>4. ASSUME NEW p \in Programs, proc'[p] = "stopped"
        PROVE  p \in ToSet(stopped') \cup unfound'
    BY <2>1, <2>4 DEF StoppedKnown, Continued
  <2>5. StoppedKnown'
    BY <2>4 DEF StoppedKnown
  <2>6. OncePerName' /\ IfacesAfterClaim'
    BY <2>1, <2>2 DEF OncePerName, IfacesAfterClaim
  <2> QED BY <1>0, <2>3, <2>5, <2>6
<1>2. CASE Bootstrap
  <2> USE <1>2 DEF Bootstrap
  <2>1. TypeOK'
    BY NamesFacts DEF TypeOK
  <2>2. StoppedKnown'
    BY DEF StoppedKnown, TypeOK
  <2>3. OncePerName' /\ IfacesAfterClaim'
    BY DEF OncePerName, IfacesAfterClaim
  <2> QED BY <1>0, <2>1, <2>2, <2>3
<1>3. CASE Exit
  <2> USE <1>3 DEF Exit, claimVars
  <2>1. TypeOK'
    BY DEF TypeOK, NoTransfer
  <2>2. ToSet(stopped) = {}
    BY DEF ToSet
  <2>3. StoppedKnown'
    BY <2>2 DEF StoppedKnown, NoClaimHeld
  <2>4. OncePerName' /\ IfacesAfterClaim'
    BY DEF OncePerName, IfacesAfterClaim
  <2> QED BY <1>0, <2>1, <2>3, <2>4
<1>4. CASE Crash
  <2> USE <1>4 DEF Crash, NoClaim
  <2>1. TypeOK'
    BY NamesFacts DEF TypeOK, NoTransfer
  <2>2. StoppedKnown'
    BY DEF StoppedKnown, NoClaimHeld
  <2>3. OncePerName' /\ IfacesAfterClaim'
    BY NamesFacts DEF OncePerName, IfacesAfterClaim
  <2> QED BY <1>0, <2>1, <2>2, <2>3
<1> QED BY <1>1, <1>2, <1>3, <1>4

\* Every action keeps the invariant.
LEMMA NextIInv == IInv /\ [Next]_vars => IInv'
<1> SUFFICES ASSUME IInv, [Next]_vars PROVE IInv'
  OBVIOUS
<1>1. CASE (\E p \in Programs : ProgramExits(p) \/ ProgramStarts(p)) \/ RestoreTool
  BY <1>1, ProgramIInv
<1>2. CASE \/ Start \/ NoDext \/ Pgrep \/ PgrepFails \/ Bootout
           \/ Sigstop \/ SigstopFails \/ Grant
  BY <1>2, ClaimIInv
<1>3. CASE \/ ClaimInterface \/ SpawnTasks \/ OpenFails \/ Serve \/ OscEnds
           \/ End \/ DropLocal \/ DropTask \/ DropReader \/ DropInterface
  BY <1>3, ServiceIInv
<1>4. CASE Sigcont \/ Bootstrap \/ Exit \/ Crash
  BY <1>4, GuardIInv
<1>5. CASE UNCHANGED vars
  BY <1>5 DEF vars, programVars, claimVars, transportVars, IInv, TypeOK,
              StoppedKnown, NoClaimHeld, OncePerName, IfacesAfterClaim, WritesHeld
<1>6. CASE \E t \in Writers : Submit(t) \/ Complete(t)
  BY <1>6, TransferIInv
<1> QED BY <1>1, <1>2, <1>3, <1>4, <1>5, <1>6 DEF Next, ShutDown

----------------------------------------------------------------------------

\* Whatever the programs do, and whatever pgrep fails to find, every program
\* that is stopped while the daemon holds the claim is in stopped_pids or is one
\* that pgrep failed to find; a write to the display that is not cancelled is one
\* of a display task that is there.
THEOREM ClaimInvariant == Spec => []IInv
<1> QED BY InitIInv, NextIInv, PTL DEF Spec

\* Every variable keeps its type.
THEOREM TypeCorrect == Spec => []TypeOK
<1>1. IInv => TypeOK
  BY DEF IInv
<1> QED BY ClaimInvariant, <1>1, PTL

\* A daemon that was granted the claim and did not crash leaves no program
\* stopped but those that pgrep failed to find, for any list of programs.
THEOREM CleanEnd == Spec => []CleanEndRestores
<1>1. IInv => CleanEndRestores
  BY DEF IInv, StoppedKnown, CleanEndRestores
<1> QED BY ClaimInvariant, <1>1, PTL

\* No program goes on while the daemon could still write to the display or has a
\* write under way that it has not cancelled.
THEOREM GoesOnAfterDisplay == Spec => DisplayFirst
<1> DEFINE Step == \A p \in Programs :
      proc[p] = "stopped" /\ proc'[p] = "running" =>
        /\ "display" \notin ifaces /\ holders = {}
        /\ \A t \in Writers : transfer[t] # "pending"
<1>1. IInv /\ [Next]_vars => [Step]_vars
  <2> SUFFICES ASSUME IInv, Next, NEW p \in Programs,
                      proc[p] = "stopped", proc'[p] = "running"
               PROVE  /\ "display" \notin ifaces /\ holders = {}
                      /\ \A t \in Writers : transfer[t] # "pending"
    OBVIOUS
  <2>0. holders = {} => \A t \in Writers : transfer[t] # "pending"
    BY DEF IInv, WritesHeld
  <2>1. CASE RestoreTool
    BY <2>0, <2>1 DEF RestoreTool, IInv, IfacesAfterClaim, WritesHeld
  <2>2. CASE Sigcont \/ Bootstrap
    BY <2>0, <2>2 DEF Sigcont, Bootstrap, GuardDropped, TransportDropped
  <2>3. CASE (\E q \in Programs : ProgramExits(q) \/ ProgramStarts(q))
    BY <2>3 DEF ProgramExits, ProgramStarts, IInv, TypeOK
  <2>4. CASE Bootout \/ Sigstop
    BY <2>4 DEF Bootout, Sigstop, IInv, TypeOK
  <2>5. CASE UNCHANGED proc
    BY <2>5
  <2> QED BY <2>1, <2>2, <2>3, <2>4, <2>5
          DEF Next, ShutDown, Start, NoDext, Pgrep, PgrepFails, SigstopFails, Grant,
              ClaimInterface, SpawnTasks, OpenFails, Serve, OscEnds, End, Submit,
              Complete, DropLocal, DropTask, DropReader, DropInterface, Exit, Crash,
              programVars
<1> QED BY ClaimInvariant, <1>1, PTL DEF Spec, DisplayFirst
=============================================================================
