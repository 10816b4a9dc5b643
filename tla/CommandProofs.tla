---------------------------- MODULE CommandProofs ---------------------------
(***************************************************************************)
(* Proofs about the two commands that work through a child process.         *)
(*                                                                          *)
(* `update` (CodeUpdate), for every number of releases, failures,           *)
(* interrupts and local changes: the types, that an update which reports    *)
(* success is complete, and that one which fails has changed nothing or has *)
(* rebuilt what it was on.                                                  *)
(*                                                                          *)
(* `tunnel` (Tunnel), for every set of ports: the types, that an interrupt  *)
(* is no error, and that no ssh process outlives the command.               *)
(***************************************************************************)
EXTENDS CodeUpdate, Tunnel, TLAPS

USE DEF vars, code, progress, start, counters

\* Which phases each job goes through, and that only an idle directory has a
\* verdict.
JobInPhase ==
  /\ job = "none" <=> phase = "idle"
  /\ job = "rollback" => phase \in {"checkout", "install", "engine", "cli"}
  /\ job = "installer" => phase \notin {"redeploy"}
  /\ job = "redeploy" => phase = "redeploy"
  /\ phase # "idle" => outcome = "none"

\* The rollback is armed from the checkout of the release on, and not before;
\* until then an update has changed nothing.
Armed ==
  /\ job = "rollback" => previousRef = found[1]
  /\ job = "update" =>
       /\ checkedOut <=> phase \in {"install", "engine", "cli", "redeploy"}
       /\ phase \in {"check", "fetch", "checkout"} => code = found
       /\ phase # "check" => previousRef = found[1]

\* How far the directory has come in each phase.
Reached ==
  /\ phase \in {"install", "engine", "cli"} => head = Destination
  /\ phase \in {"engine", "cli"} => modules = head
  /\ phase = "cli" => engine = head
  /\ job = "update" /\ phase = "redeploy" => At(target)

IInv ==
  /\ TypeOK /\ JobInPhase /\ Armed /\ Reached
  /\ UpdatedIsTarget /\ FailureIsClean

-----------------------------------------------------------------------------
\* The installer leaves a directory no job is working on (Init).
LEMMA InitIInv == Init => IInv
<1> SUFFICES ASSUME Init PROVE IInv
  OBVIOUS
<1>1. TypeOK
  <2>1. published \in Versions /\ published \in Builds
    BY DEF Init, Builds
  <2>2. found \in Versions \X Builds \X Builds \X Builds
    BY <2>1 DEF Init
  <2>3. {faults, interrupts, edits} \subseteq Nat
    BY DEF Init
  <2>4. job \in Jobs /\ phase \in Phases /\ outcome \in Outcomes
    BY DEF Init, Jobs, Phases, Outcomes
  <2> QED
    BY <2>1, <2>2, <2>3, <2>4 DEF Init, TypeOK
<1>2. JobInPhase /\ Armed /\ Reached /\ UpdatedIsTarget /\ FailureIsClean
  BY DEF Init, JobInPhase, Armed, Reached, UpdatedIsTarget, FailureIsClean
<1> QED
  BY <1>1, <1>2 DEF IInv

\* A job begins with what it finds (Update, Install, Redeploy).
LEMMA BeginStep ==
  ASSUME IInv, Update \/ Install \/ Redeploy
  PROVE  IInv'
<1>1. PICK j \in {"update", "installer", "redeploy"},
           p \in {"check", "redeploy"}, t \in Versions :
        /\ Begin(j, p, t)
        /\ p = IF j = "redeploy" THEN "redeploy" ELSE "check"
  BY DEF IInv, TypeOK, Update, Install, Redeploy
<1>2. TypeOK'
  BY <1>1 DEF IInv, TypeOK, Begin, Jobs, Phases, Outcomes, Versions, Builds
<1>3. JobInPhase' /\ Armed' /\ Reached' /\ UpdatedIsTarget' /\ FailureIsClean'
  BY <1>1 DEF JobInPhase, Armed, Reached, UpdatedIsTarget, FailureIsClean, Begin
<1> QED
  BY <1>2, <1>3 DEF IInv

\* The world does not touch what is built (Publish, Edit, Discard, Setup), and
\* neither does a check that finds nothing newer.
LEMMA WorldStep ==
  ASSUME IInv, World \/ UpToDate \/ UNCHANGED vars
  PROVE  IInv'
<1>1. /\ UNCHANGED <<head, modules, engine, cli, job, phase, target, previousRef,
                     checkedOut, found, running>>
      /\ outcome' \in {outcome, "upToDate"} /\ (outcome' # outcome => phase = "idle")
      /\ dirty' \in BOOLEAN
      /\ stack' = stack \/ (stack' = cli /\ stack = NotSetUp /\ phase = "idle")
  BY DEF IInv, TypeOK, World, UpToDate, Publish, Edit, Discard, Setup
<1>2. published' \in Versions
  BY CodeUpdateAssumption DEF IInv, TypeOK, World, UpToDate, Publish, Edit,
     Discard, Setup, Versions
<1>3. {faults', interrupts', edits'} \subseteq Nat
  BY DEF IInv, TypeOK, World, UpToDate, Publish, Edit, Discard, Setup
<1>4. TypeOK'
  BY <1>1, <1>2, <1>3 DEF IInv, TypeOK, Outcomes
<1>5. JobInPhase' /\ Armed' /\ Reached'
  BY <1>1 DEF IInv, JobInPhase, Armed, Reached, Destination, At
<1>6. UpdatedIsTarget' /\ FailureIsClean'
  BY <1>1 DEF IInv, UpdatedIsTarget, FailureIsClean, At
<1> QED
  BY <1>4, <1>5, <1>6 DEF IInv

\* Before the checkout an update only reads; a dirty directory stops a job, and a
\* refused checkout starts the rollback of an armed one
\* (CheckClean, Fetch, CheckoutRefused).
LEMMA ReadStep ==
  ASSUME IInv, CheckClean \/ Fetch \/ CheckoutRefused
  PROVE  IInv'
<1>1. phase \in {"check", "fetch", "checkout"} /\ outcome = "none"
      /\ job \in {"update", "rollback", "installer"}
  BY DEF IInv, TypeOK, JobInPhase, Jobs, CheckClean, Fetch, CheckoutRefused
<1>2. TypeOK'
  <2>1. job' \in Jobs /\ phase' \in Phases /\ outcome' \in Outcomes
    BY <1>1 DEF IInv, TypeOK, CheckClean, Fetch, CheckoutRefused, PhaseFails,
       Settle, Jobs, Phases, Outcomes
  <2>2. target' \in Versions /\ previousRef' \in Versions
    BY DEF IInv, TypeOK, CheckClean, Fetch, CheckoutRefused, PreviousRef
  <2> QED
    BY <2>1, <2>2 DEF IInv, TypeOK, CheckClean, Fetch, CheckoutRefused
<1>3. CASE CheckClean /\ ~dirty
  <2>1. job = "update" => previousRef' = found'[1]
    BY <1>1, <1>3 DEF IInv, Armed, CheckClean, PreviousRef
  <2> QED
    BY <1>1, <1>2, <1>3, <2>1 DEF IInv, CheckClean, JobInPhase, Armed, Reached,
       UpdatedIsTarget, FailureIsClean
<1>4. CASE Fetch
  BY <1>1, <1>2, <1>4 DEF IInv, Fetch, JobInPhase, Armed, Reached,
     UpdatedIsTarget, FailureIsClean
<1>5. CASE (CheckClean /\ dirty) \/ CheckoutRefused
  <2>1. PhaseFails /\ UNCHANGED <<head, modules, engine, cli, stack, target,
                                  previousRef, checkedOut, found>>
    BY <1>5 DEF CheckClean, CheckoutRefused
  <2>2. job = "update" => ~checkedOut /\ code = found
    BY <1>1 DEF IInv, Armed
  <2> QED
    BY <1>1, <1>2, <2>1, <2>2 DEF IInv, PhaseFails, Settle, JobInPhase, Armed,
       Reached, UpdatedIsTarget, FailureIsClean
<1> QED
  BY <1>3, <1>4, <1>5

\* Every phase that builds does so for the version that is checked out
\* (Checkout, InstallDependencies, BuildEngine).
LEMMA BuildStep ==
  ASSUME IInv, Checkout \/ InstallDependencies \/ BuildEngine
  PROVE  IInv'
<1>1. phase \in {"checkout", "install", "engine"} /\ outcome = "none"
      /\ job \in {"update", "rollback", "installer"}
  BY DEF IInv, TypeOK, JobInPhase, Jobs, Checkout, InstallDependencies, BuildEngine
<1>2. TypeOK'
  BY DEF IInv, TypeOK, Checkout, InstallDependencies, BuildEngine, Destination,
     CheckedOut, InstalledModules, BuiltEngine, Phases, Builds
<1>3. JobInPhase' /\ UpdatedIsTarget' /\ FailureIsClean'
  BY <1>1 DEF IInv, JobInPhase, UpdatedIsTarget, FailureIsClean, Checkout,
     InstallDependencies, BuildEngine
<1>4. Armed'
  BY <1>1 DEF IInv, Armed, Checkout, InstallDependencies, BuildEngine, CheckedOut
<1>5. Reached'
  BY <1>1 DEF IInv, Reached, Destination, Checkout, InstallDependencies,
     BuildEngine, InstalledModules, BuiltEngine
<1> QED
  BY <1>2, <1>3, <1>4, <1>5 DEF IInv

\* The last build completes the directory: a rollback is over, an update
\* redeploys or is over (BuildCli).
LEMMA CompleteStep ==
  ASSUME IInv, BuildCli
  PROVE  IInv'
<1>1. phase = "cli" /\ outcome = "none" /\ job \in {"update", "rollback", "installer"}
  BY DEF IInv, TypeOK, JobInPhase, Jobs, BuildCli
<1>2. UNCHANGED <<head, modules, engine, stack, target, previousRef, checkedOut, found>>
      /\ cli' = head /\ modules = head /\ engine = head /\ head = Destination
  BY <1>1 DEF IInv, Reached, BuildCli, BuiltCli
<1>3. TypeOK'
  <2>1. job' \in Jobs /\ phase' \in Phases /\ outcome' \in Outcomes
    BY <1>1 DEF IInv, TypeOK, BuildCli, Built, Settle, Jobs, Phases, Outcomes
  <2> QED
    BY <1>2, <2>1 DEF IInv, TypeOK, BuildCli, Builds
<1>4. CASE job = "update" /\ stack # NotSetUp
  BY <1>1, <1>2, <1>3, <1>4 DEF IInv, BuildCli, Built, JobInPhase, Armed,
     Reached, At, Destination, UpdatedIsTarget, FailureIsClean
<1>5. CASE job = "update" /\ stack = NotSetUp
  BY <1>1, <1>2, <1>3, <1>5 DEF IInv, BuildCli, Built, Settle, JobInPhase, Armed,
     Reached, At, Destination, UpdatedIsTarget, FailureIsClean
<1>6. CASE job = "rollback"
  BY <1>1, <1>2, <1>3, <1>6 DEF IInv, BuildCli, Built, Settle, JobInPhase, Armed,
     Reached, At, Destination, UpdatedIsTarget, FailureIsClean
<1>7. CASE job = "installer"
  BY <1>1, <1>2, <1>3, <1>7 DEF IInv, BuildCli, Built, Settle, JobInPhase, Armed,
     Reached, UpdatedIsTarget, FailureIsClean
<1> QED
  BY <1>1, <1>4, <1>5, <1>6, <1>7

\* The redeploy of an update deploys the release it announced (RunRedeploy).
LEMMA RedeployStep ==
  ASSUME IInv, RunRedeploy
  PROVE  IInv'
<1>1. phase = "redeploy" /\ job \in {"update", "redeploy"}
  BY DEF IInv, TypeOK, JobInPhase, Jobs, RunRedeploy
<1>2. TypeOK'
  BY <1>1 DEF IInv, TypeOK, RunRedeploy, Settle, Jobs, Phases, Outcomes
<1>3. JobInPhase' /\ Armed' /\ Reached' /\ FailureIsClean'
  BY <1>1 DEF IInv, RunRedeploy, Settle, JobInPhase, Armed, Reached, FailureIsClean
<1>4. UpdatedIsTarget'
  BY <1>1 DEF IInv, RunRedeploy, Settle, Reached, At, UpdatedIsTarget
<1> QED
  BY <1>2, <1>3, <1>4 DEF IInv

\* What a phase that does not finish leaves is a version or nothing usable.
LEMMA HalfDoneType ==
  ASSUME TypeOK, HalfDone
  PROVE  /\ modules' \in Builds /\ engine' \in Builds /\ cli' \in Builds
         /\ stack' \in Builds \cup {NotSetUp}
  BY DEF TypeOK, HalfDone, Builds

\* A phase that fails before the checkout has changed nothing; a later one starts
\* the rollback, or ends without claiming anything (Fail).
LEMMA FailStep ==
  ASSUME IInv, Fail
  PROVE  IInv'
<1>1. phase # "idle" /\ outcome = "none"
      /\ job \in {"update", "rollback", "installer", "redeploy"}
  BY DEF IInv, TypeOK, JobInPhase, Jobs, Fail
<1>2. TypeOK'
  <2>1. job' \in Jobs /\ phase' \in Phases /\ outcome' \in Outcomes
    BY <1>1 DEF IInv, TypeOK, Fail, PhaseFails, Settle, Jobs, Phases, Outcomes
  <2> QED
    BY <2>1, HalfDoneType DEF IInv, TypeOK, Fail
<1>3. JobInPhase' /\ Armed' /\ Reached' /\ UpdatedIsTarget'
  BY <1>1 DEF IInv, Fail, PhaseFails, Settle, JobInPhase, Armed, Reached,
     UpdatedIsTarget
<1>4. FailureIsClean'
  <2>1. CASE job = "update" /\ phase # "redeploy" /\ ~checkedOut
    <3>1. phase \in {"check", "fetch", "checkout"} /\ code = found
      BY <1>1, <2>1 DEF IInv, TypeOK, Phases, JobInPhase, Armed
    <3>2. UNCHANGED <<head, modules, engine, cli, found>>
      BY <3>1 DEF Fail, HalfDone
    <3> QED
      BY <2>1, <3>1, <3>2 DEF Fail, PhaseFails, Settle, FailureIsClean
  <2>2. CASE ~(job = "update" /\ phase # "redeploy" /\ ~checkedOut)
    BY <1>1, <2>2 DEF Fail, PhaseFails, Settle, FailureIsClean
  <2> QED
    BY <2>1, <2>2
<1> QED
  BY <1>2, <1>3, <1>4 DEF IInv

\* An interrupted job claims nothing (Interrupt).
LEMMA InterruptStep ==
  ASSUME IInv, Interrupt
  PROVE  IInv'
<1>1. /\ phase' = "idle" /\ job' = "none"
      /\ outcome' \in {"aborted", "installFailed", "redeployFailed"}
  BY DEF Interrupt, Settle
<1>2. TypeOK'
  <2>1. head' \in Versions /\ dirty' \in BOOLEAN
    BY DEF IInv, TypeOK, Interrupt, Destination
  <2> QED
    BY <1>1, <2>1, HalfDoneType DEF IInv, TypeOK, Interrupt, Jobs, Phases, Outcomes
<1>3. JobInPhase' /\ Armed' /\ Reached' /\ UpdatedIsTarget' /\ FailureIsClean'
  BY <1>1 DEF JobInPhase, Armed, Reached, UpdatedIsTarget, FailureIsClean
<1> QED
  BY <1>2, <1>3 DEF IInv

\* The invariant is inductive.
LEMMA NextIInv == IInv /\ [Next]_vars => IInv'
<1> SUFFICES ASSUME IInv, [Next]_vars PROVE IInv'
  OBVIOUS
<1>1. CASE Update \/ Install \/ Redeploy
  BY <1>1, BeginStep
<1>2. CASE World \/ UpToDate \/ UNCHANGED vars
  BY <1>2, WorldStep
<1>3. CASE CheckClean \/ Fetch \/ CheckoutRefused
  BY <1>3, ReadStep
<1>4. CASE Checkout \/ InstallDependencies \/ BuildEngine
  BY <1>4, BuildStep
<1>5. CASE BuildCli
  BY <1>5, CompleteStep
<1>6. CASE RunRedeploy
  BY <1>6, RedeployStep
<1>7. CASE Fail
  BY <1>7, FailStep
<1>8. CASE Interrupt
  BY <1>8, InterruptStep
<1> QED
  BY <1>1, <1>2, <1>3, <1>4, <1>5, <1>6, <1>7, <1>8 DEF Next, Job

\* The inductive invariant holds in every reachable state.
THEOREM Invariance == Spec => []IInv
<1>1. Init => IInv
  BY InitIInv
<1>2. IInv /\ [Next]_vars => IInv'
  BY NextIInv
<1> QED
  BY <1>1, <1>2, PTL DEF Spec

\* The code directory and the job that works on it keep their types.
THEOREM TypeCorrect == Spec => []TypeOK
<1>1. IInv => TypeOK
  BY DEF IInv
<1> QED
  BY <1>1, Invariance, PTL

\* An update that reports success (applyUpdate) is complete, however many jobs
\* failed or were interrupted before it.
THEOREM SuccessIsComplete == Spec => []UpdatedIsTarget
<1>1. IInv => UpdatedIsTarget
  BY DEF IInv
<1> QED
  BY <1>1, Invariance, PTL

\* An update that fails (runCodeUpdate) has changed nothing, or has rebuilt all of
\* what it was on, or says that it could not.
THEOREM FailureLeavesNoMix == Spec => []FailureIsClean
<1>1. IInv => FailureIsClean
  BY DEF IInv
<1> QED
  BY <1>1, Invariance, PTL


-----------------------------------------------------------------------------
(* The tunnel                                                               *)

Before == {"target", "available", "free", "spawn"}

\* Who has not been told of an interrupt still has all the signals to handle.
Unheard == ~aborted => signals = sent

\* What there is of ssh at each label, and what a round of requests has found.
Lifetime ==
  /\ pc \in Before => ssh = "none" /\ exit = "none"
  /\ exit # "none" => ssh = "dead"
  /\ pc = "grace" => exit # "none"
  /\ pc = "done" => ssh \in {"none", "dead"}
  /\ pc # "done" => result = "none"
  /\ pc = "check" => \A p \in Ports : seen[p] \in {"unknown", "reachable", "silent"}
  /\ \A p \in Ports : holder[p] = "ssh" => ssh \in {"bind", "forward"}

TunnelInv == TunnelTypeOK /\ Unheard /\ Lifetime /\ InterruptIsNoError

LEMMA TunnelBegins == TunnelInit => TunnelInv
<1>1. TunnelInit => TunnelTypeOK
  <2>1. TunnelInit => holder \in [Ports -> {"nobody", "other", "ssh"}]
    BY DEF TunnelInit
  <2>2. TunnelInit => /\ seen \in [Ports -> {"unknown", "free", "busy", "open", "closed",
                                             "reachable", "silent"}]
                      /\ ready \in [Ports -> {"untold", "reachable", "silent"}]
    BY DEF TunnelInit, Unseen, NotReady
  <2>3. TunnelInit => moves \in 0..MaxMoves /\ ended \in Codes /\ exit \in Codes
    BY TunnelAssumption DEF TunnelInit, Codes
  <2> QED
    BY <2>1, <2>2, <2>3 DEF TunnelInit, TunnelTypeOK
<1>2. TunnelInit => Unheard /\ Lifetime /\ InterruptIsNoError
  BY DEF TunnelInit, Unheard, Lifetime, InterruptIsNoError, Before
<1> QED
  BY <1>1, <1>2 DEF TunnelInv

\* The steps of the command: only `GraceOver` and `AwaitExit` end it after ssh
\* was started, and both when `exit` is set.
LEMMA CommandKeepsTunnel ==
  ASSUME TunnelInv, CommandStep
  PROVE  TunnelInv'
<1> USE DEF TunnelInv, inputs, others, control, command, process
<1>1. CASE ResolveTarget
  BY <1>1 DEF ResolveTarget, Goto, Refuse, TunnelTypeOK, Unheard, Lifetime, InterruptIsNoError, Before
<1>2. CASE IsSshAvailable
  BY <1>2 DEF IsSshAvailable, Goto, Refuse, TunnelTypeOK, Unheard, Lifetime, InterruptIsNoError, Before
<1>3. CASE FindBusyPorts
  BY <1>3 DEF FindBusyPorts, Goto, Refuse, Unseen, TunnelTypeOK, Unheard, Lifetime, InterruptIsNoError, Before
<1>4. CASE Spawn
  BY <1>4 DEF Spawn, Start, Goto, Signals, Codes, Alive, TunnelTypeOK, Unheard, Lifetime, InterruptIsNoError, Before
<1>5. CASE BeginProbe \/ AllOpen
  BY <1>5 DEF BeginProbe, AllOpen, Goto, Unseen, TunnelTypeOK, Unheard, Lifetime, InterruptIsNoError, Before
<1>6. CASE Pause
  BY <1>6 DEF Pause, Goto, TunnelTypeOK, Unheard, Lifetime, InterruptIsNoError, Before
<1>7. CASE OnReady
  <2>1. ready' \in [Ports -> {"untold", "reachable", "silent"}]
    <3>1. CASE exit # "none" \/ aborted
      BY <1>7, <3>1 DEF OnReady, TunnelTypeOK
    <3>2. CASE ~(exit # "none" \/ aborted)
      <4>1. \A p \in Ports : seen[p] \in {"reachable", "silent"}
        BY <1>7 DEF OnReady, Lifetime
      <4>2. ready' = seen /\ seen \in [Ports -> {"untold", "reachable", "silent"}]
        BY <1>7, <3>2, <4>1 DEF OnReady, TunnelTypeOK
      <4> QED
        BY <4>2
    <3> QED
      BY <3>1, <3>2
  <2> QED
    BY <1>7, <2>1 DEF OnReady, TunnelTypeOK, Unheard, Lifetime, InterruptIsNoError, Before
<1>8. CASE AwaitExit
  BY <1>8 DEF AwaitExit, Goto, Finish, TunnelTypeOK, Unheard, Lifetime, InterruptIsNoError, Before
<1>9. CASE GraceOver
  BY <1>9 DEF GraceOver, Finish, TunnelTypeOK, Unheard, Lifetime, InterruptIsNoError, Before
<1>10. ASSUME NEW p \in Ports, IsPortFree(p) \/ ProbePort(p) \/ CheckReachable(p)
       PROVE  TunnelInv'
  BY <1>10 DEF IsPortFree, ProbePort, CheckReachable, TunnelTypeOK, Unheard, Lifetime,
     InterruptIsNoError, Before
<1> QED
  BY <1>1, <1>2, <1>3, <1>4, <1>5, <1>6, <1>7, <1>8, <1>9, <1>10 DEF CommandStep

\* ssh ends once, and takes its ports with it.
LEMMA EndKeepsTunnel ==
  ASSUME TunnelInv, ssh \in Alive, NEW how \in Codes, SshEnds(how)
  PROVE  TunnelInv'
BY DEF TunnelInv, SshEnds, inputs, control, command, TunnelTypeOK, Unheard, Lifetime,
   InterruptIsNoError, Before, Alive

LEMMA OthersKeepTunnel ==
  ASSUME TunnelInv,
         \/ HandleSignals \/ RecordExit \/ SshProceeds \/ SshLost \/ SshKilled
         \/ (\E s \in Signals : SendSignal(s)) \/ OtherProgram
  PROVE  TunnelInv'
<1> USE DEF inputs, others, control, command, process
<1>1. ASSUME NEW s \in Signals, HandleSignal(s)
      PROVE  TunnelInv'
  BY <1>1 DEF HandleSignal, Signals, TunnelInv, TunnelTypeOK, Unheard, Lifetime, InterruptIsNoError, Before
<1>2. CASE RecordExit
  BY <1>2 DEF RecordExit, TunnelInv, TunnelTypeOK, Unheard, Lifetime, InterruptIsNoError, Before
<1>3. CASE SshLogin
  BY <1>3 DEF SshLogin, Alive, TunnelInv, TunnelTypeOK, Unheard, Lifetime, InterruptIsNoError, Before
<1>4. CASE SshRefused \/ SshLost
  BY <1>4, EndKeepsTunnel DEF SshRefused, SshLost, Alive, Codes
<1>5. CASE SshForward
  <2>1. CASE (\A p \in Ports : holder[p] = "ssh") /\ ssh' = "forward"
    BY <1>5, <2>1 DEF SshForward, SshEnds, Alive, TunnelInv, TunnelTypeOK, Unheard, Lifetime,
       InterruptIsNoError, Before
  <2>2. CASE \E how \in {"255", "other"} : SshEnds(how)
    BY <1>5, <2>2, EndKeepsTunnel DEF SshForward, Alive, Codes
  <2> QED
    BY <1>5, <2>1, <2>2 DEF SshForward
<1>6. ASSUME NEW p \in Ports, SshBind(p)
      PROVE  TunnelInv'
  BY <1>6 DEF SshBind, TunnelInv, TunnelTypeOK, Unheard, Lifetime, InterruptIsNoError, Before
<1>7. CASE SshKilled
  BY <1>7, EndKeepsTunnel DEF SshKilled, Codes
<1>8. ASSUME NEW s \in Signals, SendSignal(s)
      PROVE  TunnelInv'
  BY <1>8 DEF SendSignal, Signals, TunnelInv, TunnelTypeOK, Unheard, Lifetime, InterruptIsNoError, Before
<1>9. CASE OtherProgram
  <2>1. /\ holder' \in [Ports -> {"nobody", "other", "ssh"}] /\ moves' \in 0..MaxMoves
        /\ \A p \in Ports : holder'[p] = "ssh" => holder[p] = "ssh"
    BY <1>9, TunnelAssumption DEF OtherProgram, Take, Leave, TunnelInv, TunnelTypeOK
  <2> QED
    BY <1>9, <2>1 DEF OtherProgram, TunnelInv, TunnelTypeOK, Unheard, Lifetime, InterruptIsNoError, Before
<1> QED
  BY <1>1, <1>2, <1>3, <1>4, <1>5, <1>6, <1>7, <1>8, <1>9 DEF HandleSignals, SshProceeds

THEOREM TunnelInvariance == TunnelSpec => []TunnelInv
<1>1. TunnelInv /\ UNCHANGED tunnel => TunnelInv'
  <2> SUFFICES ASSUME TunnelInv, UNCHANGED tunnel PROVE TunnelInv'
    OBVIOUS
  <2> USE DEF tunnel, inputs, others, control, command, process, TunnelInv
  <2>1. TunnelTypeOK'
    BY DEF TunnelTypeOK
  <2> QED
    BY <2>1 DEF Unheard, Lifetime, InterruptIsNoError
<1>2. TunnelInv /\ [TunnelNext]_tunnel => TunnelInv'
  BY <1>1, CommandKeepsTunnel, OthersKeepTunnel DEF TunnelNext
<1> QED
  BY TunnelBegins, <1>2, PTL DEF TunnelSpec

\* The command, its signals and the ssh process keep their types.
THEOREM TunnelTypeCorrect == TunnelSpec => []TunnelTypeOK
BY TunnelInvariance, PTL DEF TunnelInv

\* However many ports there are and whoever takes them, a command that was
\* interrupted never reports an error, in whichever order it and ssh learn of
\* the interrupt (runTunnel).
THEOREM InterruptsAreNoErrors == TunnelSpec => []InterruptIsNoError
BY TunnelInvariance, PTL DEF TunnelInv

\* When the command has ended, no ssh process of it runs or holds a port
\* (runTunnel awaits the exit of its child).
THEOREM NoSshIsLeft == TunnelSpec => []SshIsGone
<1>1. TunnelInv => SshIsGone
  BY DEF TunnelInv, Lifetime, SshIsGone
<1> QED
  BY <1>1, TunnelInvariance, PTL
=============================================================================
