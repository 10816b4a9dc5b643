-------------------------------- MODULE Tunnel --------------------------------
(***************************************************************************)
(* `moody tunnel`: the command, the ssh process it starts, the local ports  *)
(* ssh forwards, and the other programs of the machine that may take those  *)
(* ports (tunnel.service.ts, tunnel.plan.ts, tunnel.command.ts).            *)
(*                                                                          *)
(* The ports are tested before ssh is started, and again, without knowing   *)
(* who answers, until all of them accept connections.  An interrupt reaches *)
(* the command, and from the keyboard ssh as well, so the two may learn of  *)
(* it in either order.                                                      *)
(*                                                                          *)
(* What ssh does is external: it logs in, binds the ports one by one and,   *)
(* because of ExitOnForwardFailure, ends when it could not bind them all.   *)
(*                                                                          *)
(* The names of the specification are its own (TunnelInit, TunnelNext, ...), *)
(* so that CommandProofs can extend it beside the update command.           *)
(*                                                                          *)
(* A definition marked `mutant` is a faulty variant of the next one, used   *)
(* only to check that the properties can fail.                              *)
(***************************************************************************)
EXTENDS Naturals, FiniteSets

CONSTANTS
  Ports,          \* the local ports of the plan
  MaxMoves        \* how often another program may take or leave a port

ASSUME TunnelAssumption == IsFiniteSet(Ports) /\ Ports # {} /\ MaxMoves \in Nat

VARIABLES
  argument, variable,  \* the destination on the command line, and MB_SSH_TARGET
  installed,      \* whether there is an ssh executable
  holder,         \* who listens on each local port
  moves,
  signals,        \* the signals the command has not handled yet
  sent,           \* the signals sent to it so far
  aborted,        \* controller.signal.aborted
  pc,
  seen,           \* what a round of tests has found of each port so far
  ready,          \* the report given to onReady: which ports answered, or NotReady
  result,         \* how the command ended
  ssh,            \* what the ssh process is doing
  tried,          \* the ports it has tried to bind
  kills,          \* the signals it has been sent
  ended,          \* how it ended
  exit            \* `state.exit`: how the command knows it ended

inputs  == <<argument, variable, installed>>
others  == <<holder, moves>>
control == <<signals, sent, aborted>>
command == <<pc, seen, ready, result>>
process == <<ssh, tried, kills, ended>>
tunnel  == <<inputs, others, control, command, process, exit>>

Targets  == {"none", "valid", "invalid"}
Signals  == {"SIGINT", "SIGTERM"}
Codes    == {"none", "255", "other", "signal"}
Unseen   == [p \in Ports |-> "unknown"]
NotReady == [p \in Ports |-> "untold"]
Alive    == {"login", "bind", "forward"}

\* What the command makes of the end of ssh.
DescribeSshExit(end) ==
  CASE end = "255"    -> "connection or credentials"
    [] end = "signal" -> "stopped"
    [] OTHER          -> "forward rejected"

\* Nothing runs yet.  Another program may already hold a port.
TunnelInit ==
  /\ argument \in Targets /\ variable \in Targets
  /\ installed \in BOOLEAN
  /\ holder \in [Ports -> {"nobody", "other"}]
  /\ moves = 0
  /\ signals = {} /\ sent = {} /\ aborted = FALSE
  /\ pc = "target" /\ seen = Unseen /\ ready = NotReady /\ result = "none"
  /\ ssh = "none" /\ tried = {} /\ kills = {} /\ ended = "none"
  /\ exit = "none"

Goto(next)  == pc' = next /\ UNCHANGED <<ready, result>>
Refuse(why) == pc' = "done" /\ result' = why /\ UNCHANGED <<seen, ready>>

-----------------------------------------------------------------------------
(* The command *)

\* The argument, or else the environment; an empty string counts as none.
Target == IF argument # "none" THEN argument ELSE variable

ResolveTarget ==
  /\ pc = "target"
  /\ \/ Target = "valid" /\ Goto("available") /\ UNCHANGED seen
     \/ Target = "none" /\ Refuse("missing target")
     \/ Target = "invalid" /\ Refuse("invalid target")
  /\ UNCHANGED <<inputs, others, control, process, exit>>

IsSshAvailable ==
  /\ pc = "available"
  /\ \/ installed /\ Goto("free") /\ UNCHANGED seen
     \/ ~installed /\ Refuse("no ssh")
  /\ UNCHANGED <<inputs, others, control, process, exit>>

\* The ports are tested together, each at a moment of its own.
IsPortFree(p) ==
  /\ pc = "free" /\ seen[p] = "unknown"
  /\ seen' = [seen EXCEPT ![p] = IF holder[p] = "nobody" THEN "free" ELSE "busy"]
  /\ UNCHANGED <<inputs, others, control, pc, ready, result, process, exit>>

FindBusyPorts ==
  /\ pc = "free" /\ \A p \in Ports : seen[p] # "unknown"
  /\ \/ (\A p \in Ports : seen[p] = "free") /\ Goto("spawn") /\ seen' = Unseen
     \/ (\E p \in Ports : seen[p] = "busy") /\ Refuse("ports in use")
  /\ UNCHANGED <<inputs, others, control, process, exit>>

\* ssh is started, or cannot be; an interrupt that came before is passed on.
Start(close) ==
  /\ pc = "spawn"
  /\ \/ ssh' = "login" /\ ended' = "none" /\ kills' = close
     \/ ssh' = "dead" /\ ended' = "signal" /\ kills' = {}
  /\ Goto("probe")
  /\ UNCHANGED <<inputs, others, control, seen, tried, exit>>

SpawnOnly == Start({})                              \* mutant
Spawn == Start(IF aborted THEN {"SIGTERM"} ELSE {})

\* The head of the loop, where an exit and an interrupt are noticed.
BeginProbe ==
  /\ pc = "probe"
  /\ Goto(IF exit # "none" \/ aborted THEN "await" ELSE "probing")
  /\ seen' = Unseen
  /\ UNCHANGED <<inputs, others, control, process, exit>>

\* The port answers, whoever holds it; a busy machine may miss the time limit.
ProbePort(p) ==
  /\ pc = "probing" /\ seen[p] = "unknown"
  /\ \E answer \in (IF holder[p] = "nobody" THEN {"closed"} ELSE {"open", "closed"}) :
       seen' = [seen EXCEPT ![p] = answer]
  /\ UNCHANGED <<inputs, others, control, pc, ready, result, process, exit>>

AllOpen ==
  /\ pc = "probing" /\ \A p \in Ports : seen[p] # "unknown"
  /\ LET open == \A p \in Ports : seen[p] = "open"
     IN Goto(IF ~open THEN "pause" ELSE IF exit # "none" \/ aborted THEN "await" ELSE "check")
  /\ seen' = Unseen
  /\ UNCHANGED <<inputs, others, control, process, exit>>

\* The interval passes; an interrupt or the exit of ssh cuts it short.
Pause ==
  /\ pc = "pause"
  /\ Goto("probe")
  /\ UNCHANGED <<inputs, others, control, seen, process, exit>>

\* Any answer will do, also that of another program.
CheckReachable(p) ==
  /\ pc = "check" /\ seen[p] = "unknown"
  /\ \E answer \in (IF holder[p] = "nobody" \/ aborted THEN {"silent"}
                    ELSE {"reachable", "silent"}) :
       seen' = [seen EXCEPT ![p] = answer]
  /\ UNCHANGED <<inputs, others, control, pc, ready, result, process, exit>>

OnReady ==
  /\ pc = "check" /\ \A p \in Ports : seen[p] # "unknown"
  /\ ready' = IF exit # "none" \/ aborted THEN ready ELSE seen
  /\ pc' = "await"
  /\ UNCHANGED <<inputs, others, control, seen, result, process, exit>>

Finish ==
  /\ pc' = "done"
  /\ result' = IF aborted THEN "closed" ELSE DescribeSshExit(exit)
  /\ UNCHANGED <<seen, ready>>

\* ssh has ended: that is an error unless an interrupt explains it.
AwaitExitHastily ==                                 \* mutant
  /\ pc = "await" /\ exit # "none"
  /\ Finish
  /\ UNCHANGED <<inputs, others, control, process, exit>>

AwaitExit ==
  /\ pc = "await" /\ exit # "none"
  /\ \/ aborted /\ Finish
     \/ ~aborted /\ Goto("grace") /\ UNCHANGED seen
  /\ UNCHANGED <<inputs, others, control, process, exit>>

\* A signal already sent is handled within the grace (see README).
GraceOver ==
  /\ pc = "grace" /\ (aborted \/ signals = {})
  /\ Finish
  /\ UNCHANGED <<inputs, others, control, process, exit>>

-----------------------------------------------------------------------------
(* The event loop of the command *)

\* The handlers of abortOnInterrupt; `close` listens from the spawn to the end.
HandleSignal(s) ==
  /\ s \in signals /\ pc # "done"
  /\ signals' = signals \ {s} /\ aborted' = TRUE
  /\ kills' = IF ssh \in Alive /\ ~aborted THEN kills \cup {"SIGTERM"} ELSE kills
  /\ UNCHANGED <<inputs, others, sent, command, ssh, tried, ended, exit>>

RecordExit ==
  /\ ssh = "dead" /\ exit = "none"
  /\ exit' = ended
  /\ UNCHANGED <<inputs, others, control, command, process>>

-----------------------------------------------------------------------------
(* ssh *)

\* The ports of a process are free as soon as it ends.
SshEnds(how) ==
  /\ ssh' = "dead" /\ ended' = how
  /\ holder' = [p \in Ports |-> IF holder[p] = "ssh" THEN "nobody" ELSE holder[p]]
  /\ UNCHANGED <<inputs, moves, control, command, tried, kills, exit>>

SshLogin ==
  /\ ssh = "login" /\ ssh' = "bind"
  /\ UNCHANGED <<inputs, others, control, command, tried, kills, ended, exit>>

SshRefused == ssh = "login" /\ SshEnds("255")
SshLost    == ssh \in {"bind", "forward"} /\ SshEnds("255")
SshKilled  == ssh \in Alive /\ kills # {} /\ \E how \in {"255", "signal"} : SshEnds(how)

SshBind(p) ==
  /\ ssh = "bind" /\ p \notin tried
  /\ tried' = tried \cup {p}
  /\ holder' = IF holder[p] = "nobody" THEN [holder EXCEPT ![p] = "ssh"] ELSE holder
  /\ UNCHANGED <<inputs, moves, control, command, ssh, kills, ended, exit>>

\* The plan asks for ExitOnForwardFailure.
SshForwardAnyway ==                                 \* mutant
  /\ ssh = "bind" /\ tried = Ports
  /\ ssh' = "forward"
  /\ UNCHANGED <<inputs, others, control, command, tried, kills, ended, exit>>

SshForward ==
  /\ ssh = "bind" /\ tried = Ports
  /\ \/ /\ \A p \in Ports : holder[p] = "ssh"
        /\ ssh' = "forward"
        /\ UNCHANGED <<inputs, others, control, command, tried, kills, ended, exit>>
     \/ (\E p \in Ports : holder[p] # "ssh") /\ \E how \in {"255", "other"} : SshEnds(how)

-----------------------------------------------------------------------------
(* The surroundings *)

\* Ctrl+C reaches the whole process group, another signal only the command.
SendSignal(s) ==
  /\ pc \notin {"target", "done"} /\ s \notin sent
  /\ signals' = signals \cup {s} /\ sent' = sent \cup {s}
  /\ kills' = IF s = "SIGINT" /\ ssh \in Alive THEN kills \cup {s} ELSE kills
  /\ UNCHANGED <<inputs, others, aborted, command, ssh, tried, ended, exit>>

Take(p) ==
  /\ holder[p] = "nobody" /\ holder' = [holder EXCEPT ![p] = "other"]
Leave(p) ==
  /\ holder[p] = "other" /\ holder' = [holder EXCEPT ![p] = "nobody"]

OtherProgram ==
  /\ moves < MaxMoves /\ moves' = moves + 1
  /\ \E p \in Ports : Take(p) \/ Leave(p)
  /\ UNCHANGED <<inputs, control, command, process, exit>>

CommandStep ==
  \/ ResolveTarget \/ IsSshAvailable \/ FindBusyPorts \/ Spawn
  \/ BeginProbe \/ AllOpen \/ Pause \/ OnReady \/ AwaitExit \/ GraceOver
  \/ \E p \in Ports : IsPortFree(p) \/ ProbePort(p) \/ CheckReachable(p)

HandleSignals == \E s \in Signals : HandleSignal(s)
SshProceeds   == SshLogin \/ SshRefused \/ SshForward \/ \E p \in Ports : SshBind(p)

TunnelNext ==
  \/ CommandStep \/ HandleSignals \/ RecordExit
  \/ SshProceeds \/ SshLost \/ SshKilled
  \/ (\E s \in Signals : SendSignal(s)) \/ OtherProgram

\* Every wait of the command has a time limit but that for ssh; a login is ended
\* by the server, and ssh does not ignore the signals it is sent.
Fairness ==
  /\ WF_tunnel(CommandStep) /\ WF_tunnel(HandleSignals) /\ WF_tunnel(RecordExit)
  /\ WF_tunnel(SshProceeds) /\ WF_tunnel(SshKilled)

TunnelSpec == TunnelInit /\ [][TunnelNext]_tunnel /\ Fairness

-----------------------------------------------------------------------------
(* Properties *)

\* Every variable stays in its range.
TunnelTypeOK ==
  /\ argument \in Targets /\ variable \in Targets /\ installed \in BOOLEAN
  /\ holder \in [Ports -> {"nobody", "other", "ssh"}] /\ moves \in 0..MaxMoves
  /\ signals \subseteq sent /\ sent \subseteq Signals /\ aborted \in BOOLEAN
  /\ pc \in {"target", "available", "free", "spawn", "probe", "probing", "pause",
             "check", "await", "grace", "done"}
  /\ seen \in [Ports -> {"unknown", "free", "busy", "open", "closed", "reachable", "silent"}]
  /\ ready \in [Ports -> {"untold", "reachable", "silent"}]
  /\ ssh \in {"none", "dead"} \cup Alive /\ tried \subseteq Ports
  /\ kills \subseteq Signals /\ ended \in Codes /\ exit \in Codes

\* An interrupt is no error, even when ssh heard of it first and had ended
\* before the command handled the signal: the grace of runTunnel.
InterruptIsNoError ==
  result \in {"connection or credentials", "stopped", "forward rejected"} => sent = {}

\* The command never leaves an ssh process behind, nor a port that one holds.
SshIsGone ==
  pc = "done" => ssh \in {"none", "dead"} /\ \A p \in Ports : holder[p] # "ssh"

\* An interrupt ends the command, wherever it arrives: also before ssh is
\* started, between two tests of the ports, or while a service is asked.
InterruptEnds == sent # {} ~> pc = "done"

\* When the command has said that the tunnel is open, its ports become those of
\* ssh or the command ends: a program that took the ports after they were found
\* free is not left standing in for the server.
ReadyIsServed == ready # NotReady ~> (pc = "done" \/ \A p \in Ports : holder[p] = "ssh")
=============================================================================
